------------------------------ MODULE DateTime ------------------------------
(***************************************************************************)
(* The arithmetic of datetime.zig: the number of days and seconds between  *)
(* 1970 and a civil date, compared here with a calendar that is walked one *)
(* day at a time.                                                          *)
(*                                                                         *)
(* The code multiplies seconds by 10^9 in an i64; days and the seconds of  *)
(* the day are kept apart here and compared with what an i64 can hold.     *)
(***************************************************************************)
EXTENDS Integers

CONSTANTS
  Starts,    \* the years walks begin in, multiples of 400
  WalkYears  \* the length of a walk

ASSUME DateTimeAssumption ==
  /\ Starts \subseteq {400 * k : k \in 0..24}
  /\ WalkYears \in 1..400

VARIABLES
  year, month, day,  \* a date
  elapsed            \* its days since 1970-01-01, counted one by one

vars == <<year, month, day, elapsed>>

-----------------------------------------------------------------------------
(* datetimeToEpochSeconds, step by step.                                   *)
ShiftedYear(y, m) == IF m <= 2 THEN y - 1 ELSE y
(* Mutant: the division rounds towards zero.                               *)
EraTruncated(y, m) ==
  LET s == ShiftedYear(y, m) IN IF s < 0 THEN -((-s) \div 400) ELSE s \div 400

Era(y, m) == ShiftedYear(y, m) \div 400
YearOfEra(y, m) == ShiftedYear(y, m) - Era(y, m) * 400
MonthOfYear(m) == IF m > 2 THEN m - 3 ELSE m + 9

(* Mutant: months begin one day late.                                      *)
DayOfYearLate(m, d) == (153 * MonthOfYear(m) + 4) \div 5 + d - 1

DayOfYear(m, d) == (153 * MonthOfYear(m) + 2) \div 5 + d - 1

DayOfEra(y, m, d) ==
  LET yoe == YearOfEra(y, m)
  IN yoe * 365 + yoe \div 4 - yoe \div 100 + DayOfYear(m, d)

(* Mutant: the epoch is 1900.                                              *)
DaysSince1900(y, m, d) == Era(y, m) * 146097 + DayOfEra(y, m, d) - 693901

DaysSinceEpoch(y, m, d) == Era(y, m) * 146097 + DayOfEra(y, m, d) - 719468

(* days * 86400 + second, times 10^9, is outside of an i64, which ends     *)
(* after 106751 days, 23:47:16 and before the same span the other way.     *)
Overflows(days, second) ==
  \/ days > 106751
  \/ days = 106751 /\ second > 85636
  \/ days < -106752
  \/ days = -106752 /\ second < 764

-----------------------------------------------------------------------------
(* The Gregorian calendar, one day after the other.                        *)
Leap(y) == y % 4 = 0 /\ (y % 100 # 0 \/ y % 400 = 0)
DaysIn(y, m) == CASE m = 2 -> IF Leap(y) THEN 29 ELSE 28
                  [] m \in {4, 6, 9, 11} -> 30
                  [] OTHER -> 31

(* 400 years have 146097 days, and 0000-01-01 is 719528 days before 1970.  *)
Init ==
  /\ year \in Starts
  /\ month = 1 /\ day = 1
  /\ elapsed = (year \div 400) * 146097 - 719528

NextDay ==
  /\ day < DaysIn(year, month)
  /\ day' = day + 1
  /\ elapsed' = elapsed + 1
  /\ UNCHANGED <<year, month>>

NextMonth ==
  /\ day = DaysIn(year, month)
  /\ month < 12
  /\ month' = month + 1 /\ day' = 1
  /\ elapsed' = elapsed + 1
  /\ UNCHANGED year

NextYear ==
  /\ day = DaysIn(year, month)
  /\ month = 12
  /\ \E s \in Starts : year \in s..s + WalkYears - 2
  /\ year' = year + 1 /\ month' = 1 /\ day' = 1
  /\ elapsed' = elapsed + 1

Next == NextDay \/ NextMonth \/ NextYear

Spec == Init /\ [][Next]_vars

-----------------------------------------------------------------------------
TypeOK ==
  /\ year \in 0..9999
  /\ month \in 1..12
  /\ day \in 1..31
  /\ elapsed \in Int

(* The algorithm accounts for every month and leap year: the days it finds *)
(* are the days one counts, and 1970 begins at zero.                       *)
DaysCorrect ==
  /\ DaysSinceEpoch(year, month, day) = elapsed
  /\ year = 1970 /\ month = 1 /\ day = 1 => elapsed = 0

(* The ranges in the comments hold for the dates of the calendar.          *)
RangesHold ==
  /\ YearOfEra(year, month) \in 0..399
  /\ MonthOfYear(month) \in 0..11
  /\ DayOfYear(month, day) \in 0..365

(* The nanoseconds fit an i64 on every day from 1678 to 2261, and on none  *)
(* before 1677 or after 2262, though these years are read as well.         *)
NanosFit ==
  /\ year \in 1678..2261 =>
       \A second \in {0, 86399} : ~Overflows(DaysSinceEpoch(year, month, day), second)
  /\ year \notin 1677..2262 =>
       \A second \in {0, 86399} : Overflows(DaysSinceEpoch(year, month, day), second)

(* No number on the way, nor the result, leaves the width it has, in the   *)
(* years named above (datetime.zig 49-75).                                 *)
NumbersFit == RangesHold /\ NanosFit
=============================================================================
