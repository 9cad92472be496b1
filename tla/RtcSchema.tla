----------------------------- MODULE RtcSchema -----------------------------
(***************************************************************************)
(* The settings the device keeps in RTC slow memory across deep sleep:     *)
(* bounds and clamping (app-core/config_rules.rs), the three words and     *)
(* their versions (app-core/rtc_schema.rs), and the policy numbers that    *)
(* are computed from them (app-core/runtime_policy.rs).                    *)
(*                                                                         *)
(* A word is the sequence of its four bytes, lowest first.                 *)
(***************************************************************************)
EXTENDS Integers, Sequences

Byte == 0 .. 255
Word == [1 .. 4 -> Byte]

\* The result of a decoder that failed.
DecodeError == [ok |-> FALSE]

Clamp(x, lo, hi) == IF x < lo THEN lo ELSE IF x > hi THEN hi ELSE x
Lower(x, y) == IF x < y THEN x ELSE y

(***************************************************************************)
(* Bounds of the settings and their defaults.                              *)
(***************************************************************************)
Thresholds == {4, 8, 12, 16}
MAGN_TARGET_MAX == 7
CHANNEL_BANDWIDTH_MAX_INDEX == 3
CARRIER_SENSE_MAX == 7
SleepMin == 1
SleepMax == 59
IdleMin == 5
IdleMax == 180

RadioSettings ==
    [threshold: Thresholds, magn: 0 .. MAGN_TARGET_MAX,
     bandwidth: 0 .. CHANNEL_BANDWIDTH_MAX_INDEX, carrier: 0 .. CARRIER_SENSE_MAX]
PowerSettings == [predictive: BOOLEAN, sleep: SleepMin .. SleepMax, idle: IdleMin .. IdleMax]

\* What a payload can hold before it is clamped.
RadioPayload == [threshold: Byte, magn: Byte, bandwidth: Byte, carrier: Byte]
PowerPayload == [predictive: BOOLEAN, sleep: Byte, idle: Byte]

DEFAULT_RADIO_SETTINGS == [threshold |-> 4, magn |-> 3, bandwidth |-> 1, carrier |-> 7]
DEFAULT_POWER_SETTINGS == [predictive |-> TRUE, sleep |-> 45, idle |-> 60]

quantize_detection_threshold_db(db) ==
    IF db <= 6 THEN 4 ELSE IF db <= 10 THEN 8 ELSE IF db <= 14 THEN 12 ELSE 16

clamp_radio_config(s) ==
    [threshold |-> quantize_detection_threshold_db(s.threshold),
     magn |-> Clamp(s.magn, 0, MAGN_TARGET_MAX),
     bandwidth |-> Clamp(s.bandwidth, 0, CHANNEL_BANDWIDTH_MAX_INDEX),
     carrier |-> Clamp(s.carrier, 0, CARRIER_SENSE_MAX)]

clamp_power_config(s) ==
    [s EXCEPT !.sleep = Clamp(@, SleepMin, SleepMax), !.idle = Clamp(@, IdleMin, IdleMax)]

(***************************************************************************)
(* Words.  The magic byte tells kind and version, the last byte is a       *)
(* rotating checksum of the other three.                                   *)
(***************************************************************************)
PowerMagic == 209        \* 0xD1
PowerMagicLegacy == 165  \* 0xA5
RfMagic == 210           \* 0xD2
RfMagicLegacy == 199     \* 0xC7
RadioMagic == 211        \* 0xD3
RfVersion == 2
RfVersionLegacy == 1
Seed == 115              \* 0x73
SeedPowerLegacy == 92    \* 0x5C
SeedRfLegacy == 57       \* 0x39

RotateLeft(b) == ((2 * b) % 256) + (b \div 128)
Mix(acc, b) == (RotateLeft(acc) + b) % 256
checksum(seed, b1, b2, b3) == Mix(Mix(Mix(seed, b1), b2), b3)

encode_word(b1, b2, b3) == <<b1, b2, b3, checksum(Seed, b1, b2, b3)>>
validate_checksum(w, seed) == w[4] = checksum(seed, w[1], w[2], w[3])

B2N(b) == IF b THEN 1 ELSE 0

encode_power_settings(s) ==
    encode_word(PowerMagic, 128 * B2N(s.predictive) + (s.sleep % 128), s.idle)

PowerOf(w) == [predictive |-> w[2] >= 128, sleep |-> w[2] % 128, idle |-> w[3]]

\* A power word: its settings and whether it is of the old version.
decode_power_settings(w) ==
    IF \/ w[1] = PowerMagic /\ validate_checksum(w, Seed)
       \/ w[1] = PowerMagicLegacy /\ validate_checksum(w, SeedPowerLegacy)
    THEN [ok |-> TRUE, value |-> PowerOf(w), migrate |-> w[1] = PowerMagicLegacy]
    ELSE DecodeError

encode_rf_profile(i) == encode_word(RfMagic, i, RfVersion)

decode_rf_profile(w) ==
    IF \/ w[1] = RfMagic /\ validate_checksum(w, Seed) /\ w[3] = RfVersion
       \/ w[1] = RfMagicLegacy /\ validate_checksum(w, SeedRfLegacy) /\ w[3] = RfVersionLegacy
    THEN [ok |-> TRUE, value |-> w[2], migrate |-> w[1] = RfMagicLegacy]
    ELSE DecodeError

\* Slip: the bandwidth packed into the bits of the carrier threshold.
encode_radio_overlap(s) ==
    encode_word(RadioMagic, s.threshold, (s.magn % 8) + 16 * (s.bandwidth % 4) + 32 * (s.carrier % 4))

encode_radio_settings(s) ==
    encode_word(RadioMagic, s.threshold, (s.magn % 8) + 8 * (s.bandwidth % 4) + 32 * (s.carrier % 8))

decode_radio_settings(w) ==
    IF w[1] = RadioMagic /\ validate_checksum(w, Seed)
    THEN [ok |-> TRUE, value |-> [threshold |-> w[2], magn |-> w[3] % 8,
                     bandwidth |-> (w[3] \div 8) % 4, carrier |-> w[3] \div 32],
          migrate |-> FALSE]
    ELSE DecodeError

(***************************************************************************)
(* Loading and storing.  Each load returns the settings and the word left  *)
(* in RTC memory: a legacy or clamped one is rewritten.                    *)
(***************************************************************************)
\* radio_settings.rs, persist_settings.
RadioWordOf(s) == encode_radio_settings(clamp_radio_config(s))

\* power/persistence.rs, persist_settings.
PowerWordOf(s) == encode_power_settings(clamp_power_config(s))

\* radio_settings.rs, load_settings.
load_radio_settings(w) ==
    LET d == decode_radio_settings(w) IN
    IF ~d.ok THEN [ok |-> FALSE, word |-> w]
    ELSE LET c == clamp_radio_config(d.value) IN
         [ok |-> TRUE, value |-> c, word |-> IF c = d.value THEN w ELSE encode_radio_settings(c)]

load_radio_or_default(w) ==
    LET l == load_radio_settings(w) IN IF l.ok THEN l.value ELSE DEFAULT_RADIO_SETTINGS

settings_within_bounds(s) == s.sleep \in SleepMin .. SleepMax /\ s.idle \in IdleMin .. IdleMax

\* Slip: the bounds of a stored word are not looked at.
load_power_unchecked(w) ==
    LET d == decode_power_settings(w) IN
    IF ~d.ok THEN [value |-> DEFAULT_POWER_SETTINGS, word |-> w]
    ELSE [value |-> d.value, word |-> IF d.migrate THEN encode_power_settings(d.value) ELSE w]

\* power/persistence.rs, load_settings_or_default: all or nothing.
load_power_settings(w) ==
    LET d == decode_power_settings(w)
        usable == d.ok /\ settings_within_bounds(d.value)
    IN [value |-> IF usable THEN d.value ELSE DEFAULT_POWER_SETTINGS,
        word |-> IF usable /\ d.migrate THEN encode_power_settings(d.value) ELSE w]

\* tasks/radio_433.rs, load_persisted_rf_profile_index.
load_rf_profile(w, candidates) ==
    LET d == decode_rf_profile(w) IN
    IF d.ok /\ d.value < candidates
    THEN [ok |-> TRUE, value |-> d.value, word |-> IF d.migrate THEN encode_rf_profile(d.value) ELSE w]
    ELSE [ok |-> FALSE, word |-> w]

(***************************************************************************)
(* Policy numbers, in seconds (the age of a reading in milliseconds).      *)
(***************************************************************************)
MAX_MEASUREMENT_AGE_MS == 20000

\* Subtractions saturate at zero.
predictive_sleep_window_cap_secs(ageMs) ==
    LET left == 60 - Lower(60, ageMs \div 1000)
    IN Lower(SleepMax, IF left > 10 THEN left - 10 ELSE 0)

\* The verdict without the length of the sleep.
predictive_sleep_allowed(queueEmpty, ageMs, enabled, now, deadline) ==
    queueEmpty /\ ageMs <= MAX_MEASUREMENT_AGE_MS /\ enabled /\ now >= deadline

predictive_sleep_secs(configured, ageMs) ==
    Clamp(configured, SleepMin, predictive_sleep_window_cap_secs(ageMs))

next_ui_idle_deadline_secs(enabled, rearm, now, current, timeout) ==
    IF ~enabled THEN 0
    ELSE IF rearm THEN now + timeout
    ELSE Lower(current, now + timeout)

\* What is loaded from a word is within its bounds, loading it again gives the
\* same and rewrites nothing, and a sleep computed from it ends 10 s before the
\* next measurement is due (load_settings, load_settings_or_default,
\* load_persisted_rf_profile_index, predictive_sleep_secs).
UsableWord(w, candidates, ageMs) ==
    LET radio == load_radio_settings(w)
        power == load_power_settings(w)
        rf == load_rf_profile(w, candidates)
        sleep == predictive_sleep_secs(power.value.sleep, ageMs)
    IN /\ radio.ok => radio.value \in RadioSettings /\ load_radio_settings(radio.word) = radio
       /\ power.value \in PowerSettings /\ load_power_settings(power.word) = power
       /\ rf.ok => rf.value < candidates /\ load_rf_profile(rf.word, candidates) = rf
       /\ sleep >= SleepMin /\ (ageMs \div 1000) + sleep <= 50
=============================================================================
