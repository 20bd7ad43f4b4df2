--------------------------- MODULE PaymentCalendar --------------------------
(***************************************************************************)
(* AlignPaymentDate (pkg/utils/time.go): where a 30-day period ends when   *)
(* the plan is billed by calendar months.  Times are whole days since      *)
(* January 1st of Year0, dates are proleptic Gregorian, and AddDate is the *)
(* one of Go's time package, which normalises a day past the end of a      *)
(* month into the next one.  The branch for an instance with Meta.Started  *)
(* is computed by a library outside this repository and is left out.       *)
(***************************************************************************)
EXTENDS Integers

CONSTANT Year0     \* the year day 0 belongs to

ASSUME YearAssumption == Year0 \in Nat \ {0}

Month30 == 30     \* the period AlignPaymentDate applies to, in days

Leap(y) == y % 4 = 0 /\ (y % 100 # 0 \/ y % 400 = 0)

\* Days from January 1st of year 1 to that of year y.
DaysBefore(y) == 365 * (y - 1) + (y - 1) \div 4 - (y - 1) \div 100 + (y - 1) \div 400

\* Months are numbered from January of Year0: 0, 1, ...
YearOf(m)  == Year0 + m \div 12
DaysIn(m)  == CASE m % 12 \in {3, 5, 8, 10} -> 30
                [] m % 12 = 1 -> IF Leap(YearOf(m)) THEN 29 ELSE 28
                [] OTHER -> 31

\* Days of a common year before each of its months.
MonthStart == <<0, 31, 59, 90, 120, 151, 181, 212, 243, 273, 304, 334>>

\* The day month m begins, for any m.
FirstDay(m) ==
    DaysBefore(YearOf(m)) - DaysBefore(Year0) + MonthStart[(m % 12) + 1]
        + IF m % 12 > 1 /\ Leap(YearOf(m)) THEN 1 ELSE 0

MonthOf(t) == CHOOSE m \in (t \div 31) - 1 .. (t \div 28) + 1 :
                 t - FirstDay(m) \in 0 .. DaysIn(m) - 1
DayOf(t)   == t - FirstDay(MonthOf(t)) + 1

AddDate(t, months, days) == FirstDay(MonthOf(t) + months) + DayOf(t) - 1 + days

\* Mutant of AlignPaymentDate: a day that the month lacks is not cut.
AlignUncut(start, end, period) ==
    IF period # Month30 THEN end
    ELSE AddDate(start, IF start <= end THEN 1 ELSE -1, 0)

\* Mutant of AlignPaymentDate: moving back is not aligned.
AlignForward(start, end, period) ==
    IF period # Month30 \/ start > end THEN end ELSE AddDate(start, 1, 0)

AlignPaymentDate(start, end, period) ==
    LET sign  == IF start <= end THEN 1 ELSE -1
        delta == IF sign = 1 THEN DaysIn(MonthOf(start)) - DayOf(start) + 1
                 ELSE -(DayOf(start) + 1)
        lastDay == DaysIn(MonthOf(start + delta))
    IN
    IF period # Month30 THEN end
    ELSE IF \/ sign = 1 /\ MonthOf(start) % 12 = MonthOf(end) % 12
            \/ DayOf(start) <= lastDay
    THEN AddDate(start, sign, 0)
    ELSE AddDate(start, sign, lastDay - DayOf(start))

=============================================================================
