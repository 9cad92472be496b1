-------------------------- MODULE RtcSchema_proofs ---------------------------
(***************************************************************************)
(* What the settings in RTC memory keep, for every word and every setting. *)
(***************************************************************************)
EXTENDS RtcSchema, TLAPS

\* A checksum is a byte, whatever is summed.
LEMMA ChecksumByte ==
  ASSUME NEW seed \in Byte, NEW b1 \in Byte, NEW b2 \in Byte, NEW b3 \in Byte
  PROVE  checksum(seed, b1, b2, b3) \in Byte
<1>1. \A a, b \in Byte : Mix(a, b) \in Byte
  BY DEF Mix, RotateLeft, Byte
<1>. QED
  BY <1>1 DEF checksum

\* A word that is encoded has four bytes and the right checksum.
LEMMA EncodedWord ==
  ASSUME NEW b1 \in Byte, NEW b2 \in Byte, NEW b3 \in Byte
  PROVE  /\ encode_word(b1, b2, b3) \in Word
         /\ encode_word(b1, b2, b3)[1] = b1 /\ encode_word(b1, b2, b3)[2] = b2
         /\ encode_word(b1, b2, b3)[3] = b3
         /\ validate_checksum(encode_word(b1, b2, b3), Seed)
<1>1. Seed \in Byte
  BY DEF Seed, Byte
<1>2. checksum(Seed, b1, b2, b3) \in Byte
  BY <1>1, ChecksumByte
<1>. QED
  BY <1>2 DEF encode_word, validate_checksum, Word

\* Clamping leaves every usable setting alone.
LEMMA ClampKeeps ==
  /\ \A s \in RadioSettings : clamp_radio_config(s) = s
  /\ \A s \in PowerSettings : clamp_power_config(s) = s
<1>1. ASSUME NEW s \in RadioSettings PROVE clamp_radio_config(s) = s
  BY DEF clamp_radio_config, RadioSettings, quantize_detection_threshold_db, Thresholds,
         Clamp, MAGN_TARGET_MAX, CHANNEL_BANDWIDTH_MAX_INDEX, CARRIER_SENSE_MAX
<1>2. ASSUME NEW s \in PowerSettings PROVE clamp_power_config(s) = s
  <2>1. Clamp(s.sleep, SleepMin, SleepMax) = s.sleep
    BY DEF PowerSettings, Clamp, SleepMin, SleepMax
  <2>2. Clamp(s.idle, IdleMin, IdleMax) = s.idle
    BY DEF PowerSettings, Clamp, IdleMin, IdleMax
  <2>3. s = [predictive |-> s.predictive, sleep |-> s.sleep, idle |-> s.idle]
    BY DEF PowerSettings
  <2>. QED
    BY <2>1, <2>2, <2>3 DEF clamp_power_config
<1>. QED
  BY <1>1, <1>2

\* Clamping makes a usable radio setting of any numbers.
LEMMA ClampBounds ==
  ASSUME NEW t \in Int, NEW m \in Int, NEW b \in Int, NEW c \in Int
  PROVE  clamp_radio_config([threshold |-> t, magn |-> m, bandwidth |-> b, carrier |-> c])
           \in RadioSettings
<1>1. quantize_detection_threshold_db(t) \in Thresholds
  BY DEF quantize_detection_threshold_db, Thresholds
<1>2. \A x \in Int, hi \in Nat : Clamp(x, 0, hi) \in 0 .. hi
  BY DEF Clamp
<1>3. MAGN_TARGET_MAX \in Nat /\ CHANNEL_BANDWIDTH_MAX_INDEX \in Nat /\ CARRIER_SENSE_MAX \in Nat
  BY DEF MAGN_TARGET_MAX, CHANNEL_BANDWIDTH_MAX_INDEX, CARRIER_SENSE_MAX
<1>. QED
  BY <1>1, <1>2, <1>3 DEF clamp_radio_config, RadioSettings

\* Whatever four bytes RTC memory holds, the power settings loaded from them
\* are within bounds.
THEOREM PowerWithinBounds == \A w \in Word : load_power_settings(w).value \in PowerSettings
<1>. SUFFICES ASSUME NEW w \in Word PROVE load_power_settings(w).value \in PowerSettings
  OBVIOUS
<1>1. w[2] % 128 \in 0 .. 127 /\ w[3] \in Byte
  BY DEF Word, Byte
<1>. QED
  BY <1>1 DEF load_power_settings, decode_power_settings, PowerOf, settings_within_bounds,
     PowerSettings, DecodeError, DEFAULT_POWER_SETTINGS, SleepMin, SleepMax, IdleMin, IdleMax

\* Whatever four bytes RTC memory holds, the radio settings loaded from them,
\* if any, are within bounds.
THEOREM RadioWithinBounds ==
  \A w \in Word : load_radio_settings(w).ok => load_radio_settings(w).value \in RadioSettings
<1>. SUFFICES ASSUME NEW w \in Word, decode_radio_settings(w).ok
              PROVE  clamp_radio_config(decode_radio_settings(w).value) \in RadioSettings
  BY DEF load_radio_settings
<1>1. decode_radio_settings(w).value =
        [threshold |-> w[2], magn |-> w[3] % 8, bandwidth |-> (w[3] \div 8) % 4,
         carrier |-> w[3] \div 32]
  BY DEF decode_radio_settings, DecodeError
<1>2. w[2] \in Int /\ w[3] % 8 \in Int /\ (w[3] \div 8) % 4 \in Int /\ w[3] \div 32 \in Int
  BY DEF Word, Byte
<1>. QED
  BY <1>1, <1>2, ClampBounds

\* Radio settings that are stored are loaded as they were, and the load
\* leaves the word alone.
THEOREM RadioRoundTrip ==
  \A s \in RadioSettings :
    load_radio_settings(RadioWordOf(s)) = [ok |-> TRUE, value |-> s, word |-> RadioWordOf(s)]
<1>. SUFFICES ASSUME NEW s \in RadioSettings
              PROVE  load_radio_settings(RadioWordOf(s)) =
                       [ok |-> TRUE, value |-> s, word |-> RadioWordOf(s)]
  OBVIOUS
<1>. DEFINE b == (s.magn % 8) + 8 * (s.bandwidth % 4) + 32 * (s.carrier % 8)
            w == encode_word(RadioMagic, s.threshold, b)
<1>1. /\ s.threshold \in Byte /\ s.magn \in 0 .. 7 /\ s.bandwidth \in 0 .. 3 /\ s.carrier \in 0 .. 7
      /\ s = [threshold |-> s.threshold, magn |-> s.magn, bandwidth |-> s.bandwidth,
              carrier |-> s.carrier]
  BY DEF RadioSettings, Byte, Thresholds, MAGN_TARGET_MAX, CHANNEL_BANDWIDTH_MAX_INDEX,
         CARRIER_SENSE_MAX
<1>2. b \in Byte /\ b % 8 = s.magn /\ (b \div 8) % 4 = s.bandwidth /\ b \div 32 = s.carrier
  BY <1>1 DEF Byte
<1>3. RadioWordOf(s) = w
  BY ClampKeeps DEF RadioWordOf, encode_radio_settings
<1>. HIDE DEF b
<1>4. w[1] = RadioMagic /\ w[2] = s.threshold /\ w[3] = b /\ validate_checksum(w, Seed)
  <2>1. RadioMagic \in Byte
    BY DEF RadioMagic, Byte
  <2>. QED
    BY <1>1, <1>2, <2>1, EncodedWord
<1>. HIDE DEF w
<1>5. decode_radio_settings(w) = [ok |-> TRUE, value |-> s, migrate |-> FALSE]
  BY <1>1, <1>2, <1>4 DEF decode_radio_settings
<1>6. clamp_radio_config(s) = s
  BY ClampKeeps
<1>. QED
  BY <1>3, <1>5, <1>6 DEF load_radio_settings

\* Power settings that are stored are loaded as they were, and the load
\* leaves the word alone.
THEOREM PowerRoundTrip ==
  \A s \in PowerSettings :
    load_power_settings(PowerWordOf(s)) = [value |-> s, word |-> PowerWordOf(s)]
<1>. SUFFICES ASSUME NEW s \in PowerSettings
              PROVE  load_power_settings(PowerWordOf(s)) = [value |-> s, word |-> PowerWordOf(s)]
  OBVIOUS
<1>. DEFINE b == 128 * B2N(s.predictive) + (s.sleep % 128)
            w == encode_word(PowerMagic, b, s.idle)
<1>1. /\ s.predictive \in BOOLEAN /\ s.sleep \in 1 .. 59 /\ s.idle \in 5 .. 180
      /\ s = [predictive |-> s.predictive, sleep |-> s.sleep, idle |-> s.idle]
  BY DEF PowerSettings, SleepMin, SleepMax, IdleMin, IdleMax
<1>2. b \in Byte /\ (b >= 128) = s.predictive /\ b % 128 = s.sleep
  BY <1>1 DEF Byte, B2N
<1>3. PowerWordOf(s) = w
  BY ClampKeeps DEF PowerWordOf, encode_power_settings
<1>. HIDE DEF b
<1>4. w[1] = PowerMagic /\ w[2] = b /\ w[3] = s.idle /\ validate_checksum(w, Seed)
  <2>1. PowerMagic \in Byte /\ s.idle \in Byte
    BY <1>1 DEF PowerMagic, Byte
  <2>. QED
    BY <1>2, <2>1, EncodedWord
<1>. HIDE DEF w
<1>5. decode_power_settings(w) = [ok |-> TRUE, value |-> s, migrate |-> FALSE]
  <2>1. PowerOf(w) = s
    BY <1>1, <1>2, <1>4, Zenon DEF PowerOf
  <2>2. (w[1] = PowerMagicLegacy) = FALSE
    BY <1>4 DEF PowerMagic, PowerMagicLegacy
  <2>. QED
    BY <1>4, <2>1, <2>2, Zenon DEF decode_power_settings
<1>. QED
  BY <1>1, <1>3, <1>5 DEF load_power_settings, settings_within_bounds, SleepMin, SleepMax,
     IdleMin, IdleMax
\* Words that hold usable settings are words.
LEMMA PowerWord == \A s \in PowerSettings : encode_power_settings(s) \in Word
<1> SUFFICES ASSUME NEW s \in PowerSettings PROVE encode_power_settings(s) \in Word
  OBVIOUS
<1> DEFINE b == 128 * B2N(s.predictive) + (s.sleep % 128)
<1>1. b \in Byte /\ s.idle \in Byte /\ PowerMagic \in Byte
  BY DEF PowerSettings, SleepMin, SleepMax, IdleMin, IdleMax, Byte, B2N, PowerMagic
<1>2. encode_power_settings(s) = encode_word(PowerMagic, b, s.idle)
  BY Zenon DEF encode_power_settings
<1> HIDE DEF b
<1> QED
  BY <1>1, <1>2, EncodedWord

\* The same for the radio.
LEMMA RadioWord == \A s \in RadioSettings : encode_radio_settings(s) \in Word
<1> SUFFICES ASSUME NEW s \in RadioSettings PROVE encode_radio_settings(s) \in Word
  OBVIOUS
<1> DEFINE b == (s.magn % 8) + 8 * (s.bandwidth % 4) + 32 * (s.carrier % 8)
<1>1. b \in Byte /\ s.threshold \in Byte /\ RadioMagic \in Byte
  BY DEF RadioSettings, Byte, Thresholds, MAGN_TARGET_MAX, CHANNEL_BANDWIDTH_MAX_INDEX,
         CARRIER_SENSE_MAX, RadioMagic
<1>2. encode_radio_settings(s) = encode_word(RadioMagic, s.threshold, b)
  BY Zenon DEF encode_radio_settings
<1> HIDE DEF b
<1> QED
  BY <1>1, <1>2, EncodedWord

\* A second load of a power word finds what the first found.
LEMMA PowerReload ==
  ASSUME NEW w \in Word
  PROVE  /\ load_power_settings(w).word \in Word
         /\ load_power_settings(load_power_settings(w).word) = load_power_settings(w)
<1> DEFINE d == decode_power_settings(w)
           usable == d.ok /\ settings_within_bounds(d.value)
<1>1. load_power_settings(w) =
         [value |-> IF usable THEN d.value ELSE DEFAULT_POWER_SETTINGS,
          word |-> IF usable /\ d.migrate THEN encode_power_settings(d.value) ELSE w]
  BY Zenon DEF load_power_settings
<1>2. load_power_settings(w).value \in PowerSettings
  BY PowerWithinBounds
<1> HIDE DEF d, usable
<1>3. CASE usable /\ d.migrate
  <2>1. load_power_settings(w) = [value |-> d.value, word |-> encode_power_settings(d.value)]
    BY <1>1, <1>3
  <2>2. d.value \in PowerSettings
    BY <1>2, <2>1
  <2>3. encode_power_settings(d.value) = PowerWordOf(d.value)
    BY <2>2, ClampKeeps DEF PowerWordOf
  <2>4. encode_power_settings(d.value) \in Word
    BY <2>2, PowerWord
  <2>5. load_power_settings(PowerWordOf(d.value)) = [value |-> d.value, word |-> PowerWordOf(d.value)]
    BY <2>2, PowerRoundTrip
  <2>6. load_power_settings(w).word = PowerWordOf(d.value)
    BY <2>1, <2>3
  <2> QED
    BY <2>1, <2>3, <2>4, <2>5, <2>6
<1>4. CASE ~(usable /\ d.migrate)
  <2>1. load_power_settings(w).word = w
    BY <1>1, <1>4
  <2> QED
    BY <2>1
<1> QED
  BY <1>3, <1>4

\* A second load of a radio word finds what the first found.
LEMMA RadioReload ==
  ASSUME NEW w \in Word
  PROVE  /\ load_radio_settings(w).word \in Word
         /\ load_radio_settings(load_radio_settings(w).word) = load_radio_settings(w)
<1> DEFINE d == decode_radio_settings(w)
           c == clamp_radio_config(d.value)
<1>1. load_radio_settings(w) =
         IF ~d.ok THEN [ok |-> FALSE, word |-> w]
         ELSE [ok |-> TRUE, value |-> c, word |-> IF c = d.value THEN w ELSE encode_radio_settings(c)]
  BY Zenon DEF load_radio_settings
<1>2. load_radio_settings(w).ok => load_radio_settings(w).value \in RadioSettings
  BY RadioWithinBounds
<1> HIDE DEF d, c
<1>3. CASE ~d.ok \/ c = d.value
  <2>1. load_radio_settings(w).word = w
    BY <1>1, <1>3
  <2> QED
    BY <2>1
<1>4. CASE ~(~d.ok \/ c = d.value)
  <2>1. load_radio_settings(w) = [ok |-> TRUE, value |-> c, word |-> encode_radio_settings(c)]
    BY <1>1, <1>4
  <2>2. c \in RadioSettings
    BY <1>2, <2>1
  <2>3. encode_radio_settings(c) = RadioWordOf(c)
    BY <2>2, ClampKeeps DEF RadioWordOf
  <2>4. encode_radio_settings(c) \in Word
    BY <2>2, RadioWord
  <2>5. load_radio_settings(RadioWordOf(c)) = [ok |-> TRUE, value |-> c, word |-> RadioWordOf(c)]
    BY <2>2, RadioRoundTrip
  <2>6. load_radio_settings(w).word = RadioWordOf(c)
    BY <2>1, <2>3
  <2> QED
    BY <2>1, <2>3, <2>4, <2>5, <2>6, Zenon
<1> QED
  BY <1>3, <1>4

\* The word of an RF profile is one and is decoded to the profile.
LEMMA RfWord ==
  ASSUME NEW i \in Byte
  PROVE  /\ encode_rf_profile(i) \in Word
         /\ decode_rf_profile(encode_rf_profile(i)) = [ok |-> TRUE, value |-> i, migrate |-> FALSE]
<1> DEFINE w == encode_rf_profile(i)
<1>1. RfMagic \in Byte /\ RfVersion \in Byte
  BY DEF RfMagic, RfVersion, Byte
<1>2. /\ w \in Word /\ w[1] = RfMagic /\ w[2] = i /\ w[3] = RfVersion /\ validate_checksum(w, Seed)
  BY <1>1, EncodedWord DEF encode_rf_profile
<1> HIDE DEF w
<1>3. (w[1] = RfMagicLegacy) = FALSE
  BY <1>2 DEF RfMagic, RfMagicLegacy
<1>4. decode_rf_profile(w) = [ok |-> TRUE, value |-> i, migrate |-> FALSE]
  BY <1>2, <1>3, Zenon DEF decode_rf_profile
<1> QED
  BY <1>2, <1>4 DEF w

\* An RF profile that is loaded names a candidate, and a second load finds it.
LEMMA RfLoad ==
  ASSUME NEW w \in Word, NEW n \in Nat
  PROVE  /\ load_rf_profile(w, n).word \in Word
         /\ load_rf_profile(w, n).ok => load_rf_profile(w, n).value \in 0 .. n - 1
         /\ load_rf_profile(load_rf_profile(w, n).word, n) = load_rf_profile(w, n)
<1> DEFINE d == decode_rf_profile(w)
<1>1. load_rf_profile(w, n) =
        IF d.ok /\ d.value < n
        THEN [ok |-> TRUE, value |-> d.value, word |-> IF d.migrate THEN encode_rf_profile(d.value) ELSE w]
        ELSE [ok |-> FALSE, word |-> w]
  BY Zenon DEF load_rf_profile
<1>2. d.ok => d.value \in Byte
  BY DEF decode_rf_profile, DecodeError, Word
<1> HIDE DEF d
<1>3. CASE d.ok /\ d.value < n /\ d.migrate
  <2> DEFINE x == encode_rf_profile(d.value)
  <2>1. load_rf_profile(w, n) = [ok |-> TRUE, value |-> d.value, word |-> x]
    BY <1>1, <1>3
  <2>2. x \in Word /\ decode_rf_profile(x) = [ok |-> TRUE, value |-> d.value, migrate |-> FALSE]
    BY <1>2, <1>3, RfWord
  <2>3. load_rf_profile(w, n).word = x /\ load_rf_profile(w, n).value = d.value
    BY <2>1
  <2> HIDE DEF x
  <2>4. load_rf_profile(x, n) = [ok |-> TRUE, value |-> d.value, word |-> x]
    BY <1>3, <2>2 DEF load_rf_profile
  <2> QED
    BY <1>2, <1>3, <2>1, <2>2, <2>3, <2>4 DEF Byte
<1>4. CASE ~(d.ok /\ d.value < n /\ d.migrate)
  <2>1. load_rf_profile(w, n).word = w
    BY <1>1, <1>4
  <2>2. load_rf_profile(w, n).ok => d.value < n /\ d.ok /\ load_rf_profile(w, n).value = d.value
    BY <1>1
  <2> QED
    BY <1>2, <2>1, <2>2 DEF Byte
<1> QED
  BY <1>3, <1>4

\* A sleep never lasts longer than to 10 s before the next measurement.
LEMMA SleepEnds ==
  ASSUME NEW s \in SleepMin .. SleepMax, NEW age \in 0 .. MAX_MEASUREMENT_AGE_MS
  PROVE  /\ predictive_sleep_secs(s, age) >= SleepMin
         /\ (age \div 1000) + predictive_sleep_secs(s, age) <= 50
<1> DEFINE a == age \div 1000
<1>1. a \in 0 .. 20
  BY DEF MAX_MEASUREMENT_AGE_MS
<1>2. predictive_sleep_window_cap_secs(age) = 50 - a
  <2>1. predictive_sleep_window_cap_secs(age) =
          Lower(SleepMax, IF 60 - Lower(60, a) > 10 THEN 60 - Lower(60, a) - 10 ELSE 0)
    BY Zenon DEF predictive_sleep_window_cap_secs
  <2> HIDE DEF a
  <2> QED
    BY <1>1, <2>1 DEF Lower, SleepMax
<1> HIDE DEF a
<1>3. predictive_sleep_secs(s, age) = Clamp(s, SleepMin, 50 - a)
  BY <1>2 DEF predictive_sleep_secs
<1>4. Clamp(s, SleepMin, 50 - a) >= SleepMin /\ a + Clamp(s, SleepMin, 50 - a) <= 50
  BY <1>1 DEF Clamp, SleepMin, SleepMax
<1> QED
  BY <1>3, <1>4 DEF a

\* Any four bytes whatever are usable as a word of settings, with any number of
\* candidates, and any reading fresh enough to sleep after.
THEOREM EveryWordUsable ==
  \A w \in Word, n \in Nat, age \in 0 .. MAX_MEASUREMENT_AGE_MS : UsableWord(w, n, age)
<1> SUFFICES ASSUME NEW w \in Word, NEW n \in Nat, NEW age \in 0 .. MAX_MEASUREMENT_AGE_MS
             PROVE  UsableWord(w, n, age)
  OBVIOUS
<1>1. load_radio_settings(w).ok => load_radio_settings(w).value \in RadioSettings
  BY RadioWithinBounds
<1>2. load_radio_settings(load_radio_settings(w).word) = load_radio_settings(w)
  BY RadioReload
<1>3. load_power_settings(w).value \in PowerSettings
  BY PowerWithinBounds
<1>4. load_power_settings(load_power_settings(w).word) = load_power_settings(w)
  BY PowerReload
<1>5. /\ load_rf_profile(w, n).ok => load_rf_profile(w, n).value < n
      /\ load_rf_profile(load_rf_profile(w, n).word, n) = load_rf_profile(w, n)
  BY RfLoad
<1>6. load_power_settings(w).value.sleep \in SleepMin .. SleepMax
  BY <1>3 DEF PowerSettings
<1>7. /\ predictive_sleep_secs(load_power_settings(w).value.sleep, age) >= SleepMin
      /\ (age \div 1000) + predictive_sleep_secs(load_power_settings(w).value.sleep, age) <= 50
  BY <1>6, SleepEnds
<1> QED
  BY <1>1, <1>2, <1>3, <1>4, <1>5, <1>7, Zenon DEF UsableWord
=============================================================================
