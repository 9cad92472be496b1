---------------------------- MODULE MCAlgorithms -----------------------------
(***************************************************************************)
(* The pure algorithms of the repository against reference definitions:    *)
(* one step chooses an input, the decoder then runs over its gaps, and the *)
(* invariants compare what the algorithm made of it with what it should.   *)
(***************************************************************************)
EXTENDS Rubicson, EuDst, RtcSchema

VARIABLE job    \* the input chosen

-----------------------------------------------------------------------------
(* The sensor (external): a packet is 28 bits of payload and the remainder *)
(* of their polynomial, found by long division.                            *)

BitsOf(value, width) == [i \in 1 .. width |-> (value \div 2 ^ (width - i)) % 2]

\* The remainder of a polynomial (its exponents) by x^8 + x^5 + x^4 + 1.
Remainder[p \in SUBSET (0 .. 39)] ==
  LET m == Max(p) IN
  IF p \subseteq 0 .. 7 THEN p ELSE Remainder[Xor(p, {m, m - 3, m - 4, m - 8})]

\* Payload, then CRC; the CRC counts the 28 bits of payload, 4 bits of
\* padding and the initial value in the first byte.
SentBits(r) ==
  LET payload == BitsOf(r.id, 8) \o <<IF r.battery THEN 1 ELSE 0, 0>> \o BitsOf(r.channel - 1, 2)
                   \o BitsOf(r.temperature % 4096, 12) \o <<1, 1, 1, 1>>
      poly == Xor({40 - i : i \in {j \in 1 .. 28 : payload[j] = 1}}, {i + 32 : i \in {2, 3, 5, 6}})
      crc == Remainder[poly]
  IN payload \o [i \in 1 .. 8 |-> IF 8 - i \in crc THEN 1 ELSE 0]

\* A row on the air: bits flipped, trailing bits lost, noise after the end.
RowBits(sent, r) ==
  SubSeq([i \in 1 .. 36 |-> IF i \in r.flips THEN 1 - sent[i] ELSE sent[i]], 1, 36 - r.drop)
    \o [i \in 1 .. r.extra |-> 1]

\* Gaps at the lower or the upper limit of what they stand for.
GapOf(symbol, high) ==
  CASE symbol = "zero" -> IF high THEN 1500 ELSE 751
    [] symbol = "one" -> IF high THEN 2500 ELSE 1501
    [] symbol = "break" -> IF high THEN 4500 ELSE 2501
    [] symbol = "reset" -> 4501
    [] OTHER -> IF high THEN 750 ELSE 0

SymbolsOf(b) ==
  LET sent == SentBits(b.reading)
      ended(i) == IF i < Len(b.rows) \/ b.ending = "break" THEN <<"glitch", "break">>
                  ELSE IF b.ending = "reset" THEN <<"reset">> ELSE <<>>
      bits(r) == LET s == RowBits(sent, r)
                   IN [i \in DOMAIN s |-> IF s[i] = 1 THEN "one" ELSE "zero"]
  IN FlattenSeq([i \in DOMAIN b.rows |-> bits(b.rows[i]) \o ended(i)])

GapsOf(b) == LET s == SymbolsOf(b) IN [i \in DOMAIN s |-> GapOf(s[i], b.high)]

Row(flips, drop, extra) == [flips |-> flips, drop |-> drop, extra |-> extra]
Clean == Row({}, 0, 0)
Rows == {Clean, Row({1}, 0, 0), Row({36}, 0, 0), Row({9, 20, 33}, 0, 0),
         Row({}, 1, 0), Row({}, 3, 0), Row({}, 0, 2), Row({}, 0, 9)}
Some == [id |-> 230, battery |-> TRUE, channel |-> 1, temperature |-> -94]
Readings == {Some, [Some EXCEPT !.temperature = 2047], [Some EXCEPT !.temperature = -2048],
             [Some EXCEPT !.id = 0, !.battery = FALSE, !.temperature = 0],
             [Some EXCEPT !.id = 255, !.channel = 4]}

Bursts ==
  LET burst(r, rows, ending, high) ==
        [of |-> "burst", reading |-> r, rows |-> rows, ending |-> ending, high |-> high]
  IN {burst(Some, <<Row(f, 0, 0)>>, "break", FALSE) : f \in {{i, j, k} : i, j, k \in 1 .. 36}}
     \cup {burst(r, rows, e, h) : r \in Readings, rows \in Rows \X Rows,
                                  e \in {"break", "reset", "none"}, h \in BOOLEAN}
     \cup {burst(r, [i \in 1 .. n |-> IF i < n THEN Row({7}, 0, 0) ELSE Clean], "break", TRUE) :
             r \in Readings, n \in {11, 12, 13, 14}}

Decode == \E b \in Bursts : job' = b /\ StartDecode(GapsOf(b))

-----------------------------------------------------------------------------
(* The calendar by a closed formula *)

CivilDays(y, m, d) ==
  LET yy == IF m <= 2 THEN y - 1 ELSE y
      yoe == yy % 400
      doy == (153 * ((m + 9) % 12) + 2) \div 5 + d - 1
  IN (yy \div 400) * 146097 + yoe * 365 + yoe \div 4 - yoe \div 100 + doy - 719468

MonthLength(y, m) == IF m = 12 THEN 31 ELSE CivilDays(y, m + 1, 1) - CivilDays(y, m, 1)
IsSunday(days) == (days + 4) % 7 = 0
LastSunday(y, m) == CHOOSE d \in 25 .. 31 : IsSunday(CivilDays(y, m, d))

Years == {1970, 1972, 1999, 2000, 2001, 2099, 2100, 2101} \cup 2024 .. 2031

ReadClock ==
  \E y \in Years, m \in 1 .. 12, s \in {0, 3599, 3600, 86399}, z \in {WET, CET, EET} :
    \E d \in 1 .. MonthLength(y, m) :
      /\ (d > 24 /\ m \in {3, 10}) \/ d \in {1, MonthLength(y, m)}
      /\ job' = [of |-> "time", year |-> y, month |-> m, day |-> d, secs |-> s, zone |-> z]
      /\ UNCHANGED decoderVars

-----------------------------------------------------------------------------
(* Words found in RTC memory, whole or damaged *)

LoadWords ==
  \E b1 \in {PowerMagic, PowerMagicLegacy, RadioMagic, RfMagic, RfMagicLegacy, 0},
     b2 \in {0, 1, 2, 4, 6, 7, 14, 15, 45, 59, 60, 127, 128, 129, 187, 188, 255},
     b3 \in {0, 1, 2, 4, 5, 7, 8, 31, 60, 180, 181, 255}, off \in {0, 1},
     seed \in {Seed, SeedPowerLegacy, SeedRfLegacy}, age \in {0, 9999, 20000} :
    /\ job' = [of |-> "word", age |-> age,
               word |-> <<b1, b2, b3, (checksum(seed, b1, b2, b3) + off) % 256>>]
    /\ UNCHANGED decoderVars

-----------------------------------------------------------------------------
Init == job = [of |-> "none"] /\ DecoderIdle
Choose == job.of = "none" /\ (Decode \/ ReadClock \/ LoadWords)
Next == Choose \/ (decode_gaps_iter /\ UNCHANGED job)
Spec == Init /\ [][Next]_<<job, decoderVars>>

-----------------------------------------------------------------------------
(* Properties *)

\* The first row that arrives undamaged and is closed by a break, or ends the
\* capture with exactly 36 bits, is decoded, as row number of at most 12, to
\* what the sensor sent; rows with up to three wrong bits never pass the CRC
\* (decode_gaps_iter, decode_rubicson, calculate_crc8).
DecoderIsRight ==
  outcome \in {"ok", "err"} =>
    LET sent == SentBits(job.reading)
        rows == job.rows
        damaged(r) == r.flips # {} \/ \E i \in 37 - r.drop .. 36 : sent[i] = 1
        closed(i) == \/ i < Len(rows) \/ job.ending = "break"
                     \/ job.ending = "none" /\ rows[i].drop = 0 /\ rows[i].extra = 0
        good == {i \in DOMAIN rows : i <= MAX_PACKETS /\ closed(i) /\ ~damaged(rows[i])}
    IN IF good = {} THEN outcome = "err"
       ELSE outcome = "ok" /\ ReadingOf(row) = job.reading /\ bit_buffer_row = Min(good) - 1

\* Date, summer time and local time agree with the calendar's closed formula
\* around the transitions, leap days and centuries (unix_to_date,
\* last_sunday_of_month, is_dst_active, to_local_hms).
ClockIsRight ==
  job.of = "time" =>
    LET days == CivilDays(job.year, job.month, job.day)
        unix == [days |-> days, secs |-> job.secs]
        after(month) == LET change == CivilDays(job.year, month, LastSunday(job.year, month))
                        IN days > change \/ (days = change /\ job.secs >= 3600)
        local == job.secs + job.zone + IF after(3) /\ ~after(10) THEN 3600 ELSE 0
        hms == to_local_hms(job.zone, unix)
    IN /\ unix_to_date(unix) = [year |-> job.year, month |-> job.month, day |-> job.day,
                                hour |-> job.secs \div 3600]
       /\ hms[2] \in 0 .. 59 /\ hms[3] \in 0 .. 59
       /\ 3600 * hms[1] + 60 * hms[2] + hms[3] = local % 86400

\* Whatever the RTC words hold, damaged or of an old version, what is loaded
\* from them is usable, whatever the age of the reading the device sleeps
\* after (load_settings, load_settings_or_default, predictive_sleep_secs).
StoredWordsAreUsable == job.of = "word" => UsableWord(job.word, 4, job.age)
=============================================================================
