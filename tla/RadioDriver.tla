---------------------------- MODULE RadioDriver ----------------------------
(***************************************************************************)
(* The CC1101 driver (firmware/src/radio_433.rs) as functions of its value *)
(*                                                                         *)
(*   cache   the settings the driver believes are set                      *)
(*   chip    the settings in the chip's registers                          *)
(*   freq    the frequency in the chip (0: 433.92 MHz)                     *)
(*   rx      the chip is in receive mode                                   *)
(*                                                                         *)
(* An SPI command may fail; a failed command has no effect on the chip.    *)
(* A setter puts the chip in Idle, writes, and puts it back in Receive; it *)
(* gives up at the first failure, so that it may leave the chip in Idle.   *)
(* One command at most fails in an application; a fault is [field, at],    *)
(* the setter it hits and the command of it that fails.                    *)
(***************************************************************************)
EXTENDS RtcSchema

Fields == {"threshold", "magn", "bandwidth", "carrier"}
FieldOrder == [threshold |-> 1, magn |-> 2, bandwidth |-> 3, carrier |-> 4]
Stages == {"idle", "write", "receive"}
NoFault == [field |-> "none", at |-> "none"]
SetterFaults == [field: Fields, at: Stages]

\* restore_settings_after_reset, then init: reset, every register, raw mode.
\* with_retry repeats it until no command fails.
InitializedRadio(s) ==
    LET c == clamp_radio_config(s) IN [cache |-> c, chip |-> c, freq |-> 0, rx |-> FALSE]

\* The four setters: a fault in the write leaves the register, one in the
\* return to Receive leaves the cache.
SetField(r, f, value, at) ==
    [r EXCEPT !.chip[f] = IF at \in {"none", "receive"} THEN value ELSE @,
              !.cache[f] = IF at = "none" THEN value ELSE @,
              !.rx = IF at = "none" THEN TRUE ELSE at = "idle" /\ @]

SetIf(do, r, f, s, fault) ==
    IF do THEN SetField(r, f, s[f], IF fault.field = f THEN fault.at ELSE "none") ELSE r

\* Stops at the first setter that fails.
apply_settings(r, s, fault) ==
    LET last == IF fault = NoFault THEN 4 ELSE FieldOrder[fault.field]
        r1 == SetIf(last >= 1, r, "threshold", s, fault)
        r2 == SetIf(last >= 2, r1, "magn", s, fault)
        r3 == SetIf(last >= 3, r2, "bandwidth", s, fault)
    IN SetIf(last >= 4, r3, "carrier", s, fault)

\* Slip: settings are compared with the defaults instead of the cache.
apply_pending_defaults(r, s, fault) ==
    LET differs(f) == s[f] # DEFAULT_RADIO_SETTINGS[f]
        r1 == SetIf(differs("threshold"), r, "threshold", s, fault)
        r2 == SetIf(differs("magn"), r1, "magn", s, fault)
        r3 == SetIf(differs("bandwidth"), r2, "bandwidth", s, fault)
    IN SetIf(differs("carrier"), r3, "carrier", s, fault)

\* Only the settings that differ from the cache, each on its own.
apply_pending_settings(r, s, fault) ==
    LET differs(f) == s[f] # r.cache[f]
        r1 == SetIf(differs("threshold"), r, "threshold", s, fault)
        r2 == SetIf(differs("magn"), r1, "magn", s, fault)
        r3 == SetIf(differs("bandwidth"), r2, "bandwidth", s, fault)
    IN SetIf(differs("carrier"), r3, "carrier", s, fault)

(***************************************************************************)
(* RF profiles: a frequency and a bandwidth.                               *)
(***************************************************************************)
ProfileStages == {"idle", "freq", "bandwidth", "receive"}
ProfileFaults == [field: {"profile"}, at: ProfileStages]

apply_rf_profile(r, p, at) ==
    [r EXCEPT !.freq = IF at \in {"idle", "freq"} THEN @ ELSE p.freq,
              !.chip.bandwidth = IF at \in {"none", "receive"} THEN p.bandwidth ELSE @,
              !.cache.bandwidth = IF at = "none" THEN p.bandwidth ELSE @,
              !.rx = IF at = "none" THEN TRUE ELSE at = "idle" /\ @]

\* What failed applications of candidates leave: any of what they write.
HalfTuned(r, freq, bandwidth, rx) ==
    [r EXCEPT !.freq = freq, !.chip.bandwidth = bandwidth, !.rx = rx]
Tried(r, candidates) ==
    {HalfTuned(r, freq, bandwidth, rx) :
        freq \in {r.freq} \cup {candidates[i].freq : i \in DOMAIN candidates},
        bandwidth \in {r.chip.bandwidth} \cup {candidates[i].bandwidth : i \in DOMAIN candidates},
        rx \in BOOLEAN}

\* Every candidate is applied and listened to, one that fails is passed over,
\* and the one with the best score is applied again.
SweepPicks(r, candidates) ==
    {[radio |-> apply_rf_profile(r, candidates[i], "none"), index |-> i - 1] : i \in DOMAIN candidates}

\* Candidate last was the last to succeed, failed ones may have come after it,
\* and the pick could not be applied again.
PickFails(r, candidates, last, stages) ==
    {apply_rf_profile(tried, candidates[i], at) :
        tried \in Tried(apply_rf_profile(r, candidates[last], "none"),
                       SubSeq(candidates, last + 1, Len(candidates))),
        i \in 1 .. last, at \in stages}

\* No candidate could be applied, or the pick could not.
SweepFails(r, candidates, stages) ==
    Tried(r, candidates) \cup UNION {PickFails(r, candidates, last, stages) : last \in DOMAIN candidates}
=============================================================================
