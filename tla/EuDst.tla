-------------------------------- MODULE EuDst --------------------------------
(***************************************************************************)
(* Local time of crates/eu-dst.  A Unix time is [days, secs]: the days     *)
(* since 1970-01-01 and the seconds of the day, which keeps it within      *)
(* TLC's integers.                                                         *)
(***************************************************************************)
EXTENDS Integers, Sequences

DST_OFFSET_SECS == 3600
WET == 0
CET == 3600
EET == 2 * 3600

is_leap_year(year) == (year % 4 = 0 /\ year % 100 # 0) \/ year % 400 = 0

DaysInYear(year) == IF is_leap_year(year) THEN 366 ELSE 365
DaysInMonths(year) ==
  <<31, IF is_leap_year(year) THEN 29 ELSE 28, 31, 30, 31, 30, 31, 31, 30, 31, 30, 31>>

\* The loop over the years, and the one over the months of a year.
YearLoop[d \in Nat, y \in Nat] ==
  IF d < DaysInYear(y) THEN [year |-> y, rest |-> d] ELSE YearLoop[d - DaysInYear(y), y + 1]
MonthLoop[d \in Nat, m \in 1 .. 13, lengths \in Seq(Nat)] ==
  IF m > 12 \/ d < lengths[m] THEN [month |-> m, rest |-> d]
  ELSE MonthLoop[d - lengths[m], m + 1, lengths]

unix_to_date(unix) ==
  LET y == YearLoop[unix.days, 1970]
      m == MonthLoop[y.rest, 1, DaysInMonths(y.year)]
  IN [year |-> y.year, month |-> m.month, day |-> m.rest + 1, hour |-> unix.secs \div 3600]

\* Slip: the century is taken for a leap year like any other.
last_sunday_no_century(year, month) ==
  LET length == DaysInMonths(year)[month]
      m == IF month < 3 THEN month + 12 ELSE month
      y == IF month < 3 THEN year - 1 ELSE year
      h == (length + (13 * (m + 1)) \div 5 + y + y \div 4 + 5 * (y \div 100)) % 7
      dow == (h + 6) % 7
  IN length - dow

\* Zeller's congruence for the last day of the month; Sunday is 0.
last_sunday_of_month(year, month) ==
  LET length == DaysInMonths(year)[month]
      m == IF month < 3 THEN month + 12 ELSE month
      y == IF month < 3 THEN year - 1 ELSE year
      k == y % 100
      j == y \div 100
      h == (length + (13 * (m + 1)) \div 5 + k + k \div 4 + j \div 4 + 5 * j) % 7
      dow == (h + 6) % 7
  IN length - dow

is_dst_active(unix) ==
  LET d == unix_to_date(unix)
      march == last_sunday_of_month(d.year, 3)
      october == last_sunday_of_month(d.year, 10)
  IN \/ d.month \in 4 .. 9
     \/ d.month = 3 /\ (d.day > march \/ (d.day = march /\ d.hour >= 1))
     \/ d.month = 10 /\ (d.day < october \/ (d.day = october /\ d.hour < 1))

offset_secs(base, unix) == base + IF is_dst_active(unix) THEN DST_OFFSET_SECS ELSE 0

to_local_hms(base, unix) ==
  LET today == (unix.secs + offset_secs(base, unix)) % 86400
  IN <<today \div 3600, (today % 3600) \div 60, today % 60>>
=============================================================================
