---------------------------- MODULE MCSettingsUi ----------------------------
EXTENDS SettingsUi

\* Two of the eight candidates: another bandwidth, another frequency.
MCCandidates == <<[freq |-> 0, bandwidth |-> 0], [freq |-> 1, bandwidth |-> 2]>>

\* A register left as it was, and a chip left idle.
MCFaults == {[field |-> "threshold", at |-> "write"], [field |-> "profile", at |-> "receive"]}

LegacyPower == <<PowerMagicLegacy, 128 + 30, 60, checksum(SeedPowerLegacy, PowerMagicLegacy, 128 + 30, 60)>>
LegacyRf == <<RfMagicLegacy, 1, RfVersionLegacy, checksum(SeedRfLegacy, RfMagicLegacy, 1, RfVersionLegacy)>>

\* Words of older firmware, and no radio settings.
MCInitialRtc == {[radio |-> <<0, 0, 0, 0>>, power |-> LegacyPower, rf |-> LegacyRf]}
=============================================================================
