------------------------ MODULE Computations_proofs -------------------------
(***************************************************************************)
(* Theorems about the computations of MCComputations for every value of    *)
(* its constants: the billing loops (ClosedForm), the renewals by calendar *)
(* months (MonthsCounted, CancelUndoesRenew), the notices (NoticeOnce,     *)
(* Told) and the meter (NeverOvercharged, SteadyUseCharged).               *)
(*                                                                         *)
(* The loops and the renewals rest on the calendar: each month begins      *)
(* where the one before it ends, so every day is in exactly one month, and *)
(* AlignPaymentDate leads to the day it starts from, cut to the next       *)
(* month, or to the one before.  The meter rests on the times its records  *)
(* are for: no two records have one in common, and each is a time that the *)
(* VM spent in a billed state.                                             *)
(***************************************************************************)
EXTENDS MCComputations, WellFoundedInduction, FiniteSetTheorems, TLAPS

-----------------------------------------------------------------------------
(* The calendar.                                                           *)

\* Division by a constant.
LEMMA Divided ==
    ASSUME NEW n \in Int, NEW c \in Nat \ {0}
    PROVE  /\ n \div c \in Int /\ n % c \in 0 .. c - 1
           /\ n = c * (n \div c) + (n % c)
  BY Z3

\* A year has 365 days, and 366 in a leap year.
LEMMA NextYear ==
    ASSUME NEW y \in Int
    PROVE  DaysBefore(y + 1) = DaysBefore(y) + IF Leap(y) THEN 366 ELSE 365
  <1>1. y - 1 \in Int /\ (y + 1) - 1 = y
    BY SMT
  <1>2. /\ y \div 4 = (y - 1) \div 4 + IF y % 4 = 0 THEN 1 ELSE 0
        /\ y \div 4 \in Int /\ (y - 1) \div 4 \in Int
    BY Z3
  <1>3. /\ y \div 100 = (y - 1) \div 100 + IF y % 100 = 0 THEN 1 ELSE 0
        /\ y \div 100 \in Int /\ (y - 1) \div 100 \in Int
    BY Z3
  <1>4. /\ y \div 400 = (y - 1) \div 400 + IF y % 400 = 0 THEN 1 ELSE 0
        /\ y \div 400 \in Int /\ (y - 1) \div 400 \in Int
    BY Z3
  <1>5. /\ y % 400 = 0 => y % 100 = 0
        /\ y % 100 = 0 => y % 4 = 0
    BY Z3
  <1> QED BY <1>1, <1>2, <1>3, <1>4, <1>5, Z3 DEF DaysBefore, Leap

LEMMA MonthStarts ==
    ASSUME NEW k \in 0 .. 11
    PROVE  /\ MonthStart[k + 1] \in Nat
           /\ k < 11 => MonthStart[k + 2] = MonthStart[k + 1]
                          + (IF k \in {3, 5, 8, 10} THEN 30 ELSE IF k = 1 THEN 28 ELSE 31)
           /\ MonthStart[1] = 0 /\ MonthStart[12] = 334
  BY SMT DEF MonthStart

\* Each month begins where the one before it ends.
LEMMA NextMonth ==
    ASSUME NEW m \in Int
    PROVE  /\ FirstDay(m) \in Int /\ DaysIn(m) \in 28 .. 31
           /\ FirstDay(m + 1) = FirstDay(m) + DaysIn(m)
  <1> DEFINE k    == m % 12
             q    == m \div 12
             leap == Leap(YearOf(m))
             b    == IF leap THEN 1 ELSE 0
             D    == DaysBefore(Year0 + q) - DaysBefore(Year0)
  <1>1. /\ k \in 0 .. 11 /\ q \in Int /\ m + 1 \in Int
        /\ k < 11 => (m + 1) % 12 = k + 1 /\ (m + 1) \div 12 = q
        /\ k = 11 => (m + 1) % 12 = 0 /\ (m + 1) \div 12 = q + 1
    BY Z3
  <1>2. Year0 \in Int /\ Year0 + q \in Int /\ Year0 + (q + 1) = (Year0 + q) + 1
    BY <1>1, YearAssumption, SMT
  <1>3. \A y \in Int : DaysBefore(y) \in Int
    <2>1. \A y \in Int : y - 1 \in Int
      BY SMT
    <2>2. \A y \in Int : y \div 4 \in Int /\ y \div 100 \in Int /\ y \div 400 \in Int
      BY Z3
    <2> QED BY <2>1, <2>2, SMT DEF DaysBefore
  <1>4. D \in Int
    BY <1>2, <1>3
  <1>5. FirstDay(m) = D + MonthStart[k + 1] + IF k > 1 THEN b ELSE 0
    BY DEF FirstDay, YearOf
  <1>6. DaysIn(m) = IF k \in {3, 5, 8, 10} THEN 30 ELSE IF k = 1 THEN 28 + b ELSE 31
    BY DEF DaysIn
  <1>7. k < 11 => FirstDay(m + 1) = D + MonthStart[k + 2] + IF k + 1 > 1 THEN b ELSE 0
    BY <1>1, SMT DEF FirstDay, YearOf
  <1>8. k = 11 => FirstDay(m + 1) = D + 365 + b
    <2> SUFFICES ASSUME k = 11 PROVE FirstDay(m + 1) = D + 365 + b
      OBVIOUS
    <2>1. YearOf(m + 1) = (Year0 + q) + 1 /\ YearOf(m) = Year0 + q
      BY <1>1, <1>2 DEF YearOf
    <2>2. FirstDay(m + 1) = DaysBefore((Year0 + q) + 1) - DaysBefore(Year0) + 0 + 0
      BY <1>1, <2>1, MonthStarts, SMT DEF FirstDay
    <2>3. DaysBefore((Year0 + q) + 1) = DaysBefore(Year0 + q) + 365 + b
      BY <1>2, <1>3, <2>1, NextYear, SMT
    <2> QED BY <1>2, <1>3, <2>2, <2>3, SMT
  <1>9. b \in {0, 1}
    OBVIOUS
  <1> DEFINE F1 == FirstDay(m + 1)
             F0 == FirstDay(m)
             N  == DaysIn(m)
             s0 == MonthStart[k + 1]
             s1 == MonthStart[k + 2]
  <1>10. /\ s0 \in Nat
         /\ k < 11 => s1 = s0 + (IF k \in {3, 5, 8, 10} THEN 30 ELSE IF k = 1 THEN 28 ELSE 31)
         /\ k = 11 => s0 = 334
    BY <1>1, MonthStarts
  <1>11. /\ F0 = D + s0 + IF k > 1 THEN b ELSE 0
         /\ N = IF k \in {3, 5, 8, 10} THEN 30 ELSE IF k = 1 THEN 28 + b ELSE 31
         /\ k < 11 => F1 = D + s1 + IF k + 1 > 1 THEN b ELSE 0
         /\ k = 11 => F1 = D + 365 + b
    BY <1>5, <1>6, <1>7, <1>8
  <1> HIDE DEF k, b, D, s0, s1, F0, F1, N
  <1>12. F0 \in Int /\ N \in 28 .. 31
    BY <1>1, <1>4, <1>9, <1>10, <1>11, SMT
  <1>13. F1 = F0 + N
    <2>1. CASE k = 11
      BY <1>1, <1>4, <1>9, <1>10, <1>11, <2>1, SMT
    <2>2. CASE k < 11
      BY <1>1, <1>4, <1>9, <1>10, <1>11, <2>2, SMT
    <2> QED BY <1>1, <2>1, <2>2, SMT
  <1> QED BY <1>12, <1>13 DEF F0, F1, N

LEMMA FirstOfAll == FirstDay(0) = 0
  <1>1. 0 \div 12 = 0 /\ 0 % 12 = 0
    BY Z3
  <1>2. YearOf(0) = Year0
    BY <1>1, YearAssumption, SMT DEF YearOf
  <1>3. DaysBefore(Year0) \in Int
    <2>1. Year0 - 1 \in Int
      BY YearAssumption, SMT
    <2>2. \A y \in Int : y \div 4 \in Int /\ y \div 100 \in Int /\ y \div 400 \in Int
      BY Z3
    <2> QED BY <2>1, <2>2, SMT DEF DaysBefore
  <1>4. MonthStart[0 + 1] = 0
    BY SMT DEF MonthStart
  <1> QED BY <1>1, <1>2, <1>3, <1>4, SMT DEF FirstDay

\* A set of naturals has a least element.
LEMMA Least ==
    ASSUME NEW T \in SUBSET Nat, T # {}
    PROVE  \E x \in T : \A y \in T : x <= y
  <1> DEFINE R == OpToRel(<, Nat)
  <1>1. IsWellFoundedOn(R, Nat)
    BY NatLessThanWellFounded
  <1>2. \A x, y \in Nat : x < y => <<x, y>> \in R
    BY DEF OpToRel
  <1> HIDE DEF R
  <1>3. PICK x \in T : \A y \in T : <<y, x>> \notin R
    BY <1>1, WFMin
  <1>4. \A y \in T : x <= y
    <2> TAKE y \in T
    <2>1. x \in Nat /\ y \in Nat /\ ~(y < x)
      BY <1>2, <1>3
    <2> QED BY <2>1, SMT
  <1> QED BY <1>4

\* Induction, for a set S in the place of a predicate.
LEMMA Induct ==
    ASSUME NEW S, 0 \in S, \A n \in Nat : n \in S => n + 1 \in S
    PROVE  Nat \subseteq S
  <1> SUFFICES ASSUME Nat \ S # {} PROVE FALSE
    OBVIOUS
  <1>1. PICK x \in Nat \ S : \A y \in Nat \ S : x <= y
    <2> DEFINE T == Nat \ S
    <2>1. T \in SUBSET Nat /\ T # {}
      OBVIOUS
    <2> HIDE DEF T
    <2>2. \E x \in T : \A y \in T : x <= y
      BY <2>1, Least
    <2> QED BY <2>2 DEF T
  <1>2. x # 0 /\ x - 1 \in Nat /\ x - 1 \notin Nat \ S
    BY <1>1, SMT
  <1>3. x - 1 + 1 \in S
    BY <1>2
  <1> QED BY <1>1, <1>3, SMT

\* Months do not overlap.
LEMMA MonthsGrow ==
    ASSUME NEW n \in Nat, NEW m \in Nat, n < m
    PROVE  FirstDay(n) + DaysIn(n) <= FirstDay(m)
  <1> DEFINE S == {d \in Nat : FirstDay(n) + DaysIn(n) <= FirstDay(n + 1 + d)}
             e == FirstDay(n) + DaysIn(n)
  <1>1. e \in Int /\ FirstDay(n + 1 + 0) = e
    <2>1. n + 1 + 0 = n + 1
      BY SMT
    <2> QED BY <2>1, NextMonth, SMT
  <1>2. 0 \in S
    BY <1>1, SMT
  <1>3. \A d \in Nat : d \in S => d + 1 \in S
    <2> SUFFICES ASSUME NEW d \in Nat, d \in S PROVE d + 1 \in S
      OBVIOUS
    <2> DEFINE k == n + 1 + d
    <2>1. k \in Int /\ n + 1 + (d + 1) = k + 1 /\ d + 1 \in Nat
      BY SMT
    <2>2. FirstDay(k) \in Int /\ DaysIn(k) \in 28 .. 31 /\ FirstDay(k + 1) = FirstDay(k) + DaysIn(k)
      BY <2>1, NextMonth
    <2>3. e <= FirstDay(k)
      OBVIOUS
    <2> HIDE DEF k, e
    <2>4. e <= FirstDay(k + 1)
      BY <1>1, <2>2, <2>3, SMT
    <2> QED BY <2>1, <2>4 DEF e
  <1> HIDE DEF S
  <1>4. Nat \subseteq S
    BY <1>2, <1>3, Induct
  <1>5. m - n - 1 \in Nat /\ n + 1 + (m - n - 1) = m
    BY SMT
  <1>6. m - n - 1 \in S
    BY <1>4, <1>5
  <1> QED BY <1>5, <1>6 DEF S

\* Month m begins within the range that MonthOf searches.
LEMMA MonthBounds ==
    ASSUME NEW m \in Nat
    PROVE  28 * m <= FirstDay(m) /\ FirstDay(m) <= 31 * m
  <1> DEFINE S == {d \in Nat : 28 * d <= FirstDay(d) /\ FirstDay(d) <= 31 * d}
  <1>1. 0 \in S
    BY FirstOfAll, SMT
  <1>2. \A d \in Nat : d \in S => d + 1 \in S
    <2> SUFFICES ASSUME NEW d \in Nat, d \in S PROVE d + 1 \in S
      OBVIOUS
    <2>1. FirstDay(d) \in Int /\ DaysIn(d) \in 28 .. 31 /\ FirstDay(d + 1) = FirstDay(d) + DaysIn(d)
      BY NextMonth
    <2> QED BY <2>1, SMT
  <1> HIDE DEF S
  <1>3. Nat \subseteq S
    BY <1>1, <1>2, Induct
  <1>4. m \in S
    BY <1>3
  <1> QED BY <1>4 DEF S

\* Every day is in a month, the one that MonthOf chooses,
LEMMA MonthFacts ==
    ASSUME NEW t \in Nat
    PROVE  /\ MonthOf(t) \in Nat
           /\ FirstDay(MonthOf(t)) <= t /\ t < FirstDay(MonthOf(t)) + DaysIn(MonthOf(t))
  <1> DEFINE T == {m \in Nat : t < FirstDay(m) + DaysIn(m)}
             R == (t \div 31) - 1 .. (t \div 28) + 1
             P(m) == t - FirstDay(m) \in 0 .. DaysIn(m) - 1
  <1>1. t \in T
    BY NextMonth, MonthBounds, SMT
  <1>2. PICK m \in T : \A y \in T : m <= y
    <2>1. T \in SUBSET Nat /\ T # {}
      BY <1>1
    <2> HIDE DEF T
    <2> QED BY <2>1, Least
  <1>3. m \in Nat /\ t < FirstDay(m) + DaysIn(m)
    BY <1>2
  <1>4. FirstDay(m) <= t
    <2>1. CASE m = 0
      BY <2>1, FirstOfAll, SMT
    <2>2. CASE m # 0
      <3>1. m - 1 \in Nat /\ (m - 1) + 1 = m /\ ~(m <= m - 1)
        BY <1>3, <2>2, SMT
      <3>2. ~(t < FirstDay(m - 1) + DaysIn(m - 1))
        BY <1>2, <3>1
      <3>3. FirstDay(m) = FirstDay(m - 1) + DaysIn(m - 1) /\ FirstDay(m) \in Int
        BY <3>1, <1>3, NextMonth
      <3> QED BY <3>2, <3>3, SMT
    <2> QED BY <2>1, <2>2
  <1>5. m \in R
    <2>1. /\ t \div 31 \in Int /\ t \div 28 \in Int
          /\ 31 * (t \div 31) <= t /\ t < 28 * (t \div 28) + 28
      BY Z3
    <2>2. 28 * m <= FirstDay(m) /\ FirstDay(m) <= 31 * m /\ DaysIn(m) \in 28 .. 31 /\ FirstDay(m) \in Int
      BY <1>3, MonthBounds, NextMonth
    <2> QED BY <1>3, <1>4, <2>1, <2>2, SMT
  <1>6. MonthOf(t) = CHOOSE i \in R : P(i)
    BY DEF MonthOf
  <1>7. R \subseteq Int
    <2>1. t \div 31 \in Int /\ t \div 28 \in Int
      BY Z3
    <2> QED BY <2>1, SMT
  <1> HIDE DEF R
  <1>8. MonthOf(t) \in R /\ P(MonthOf(t))
    <2>1. P(m)
      BY <1>3, <1>4, NextMonth, SMT
    <2> HIDE DEF P
    <2> QED BY <1>5, <1>6, <2>1
  <1>9. FirstDay(MonthOf(t)) <= t /\ t < FirstDay(MonthOf(t)) + DaysIn(MonthOf(t))
    <2>1. MonthOf(t) \in Int
      BY <1>7, <1>8
    <2> QED BY <1>8, <2>1, NextMonth, SMT
  <1>10. MonthOf(t) \in Nat
    <2>1. MonthOf(t) \in Int /\ MonthOf(t) >= -1
      <3>1. t \div 31 \in Nat /\ t \div 28 \in Int
        BY Z3
      <3> QED BY <1>8, <3>1, SMT DEF R
    <2>2. MonthOf(t) # -1
      <3>1. FirstDay(-1) + DaysIn(-1) = 0
        <4>1. -1 \in Int /\ -1 + 1 = 0
          BY SMT
        <4> QED BY <4>1, NextMonth, FirstOfAll
      <3> QED BY <1>9, <3>1, SMT
    <2> QED BY <2>1, <2>2, SMT
  <1> QED BY <1>10, <1>9

\* and in no other.
LEMMA MonthUnique ==
    ASSUME NEW t \in Nat, NEW m \in Nat,
           FirstDay(m) <= t, t < FirstDay(m) + DaysIn(m)
    PROVE  MonthOf(t) = m
  <1> DEFINE n == MonthOf(t)
  <1>1. n \in Nat /\ FirstDay(n) <= t /\ t < FirstDay(n) + DaysIn(n)
    BY MonthFacts
  <1> HIDE DEF n
  <1>2. /\ FirstDay(n) \in Int /\ FirstDay(m) \in Int
        /\ DaysIn(n) \in 28 .. 31 /\ DaysIn(m) \in 28 .. 31
    BY <1>1, NextMonth
  <1>3. /\ n < m => FirstDay(n) + DaysIn(n) <= FirstDay(m)
        /\ m < n => FirstDay(m) + DaysIn(m) <= FirstDay(n)
    BY <1>1, MonthsGrow
  <1>4. n = m
    BY <1>1, <1>2, <1>3, SMT
  <1> QED BY <1>4 DEF n

LEMMA DayFacts ==
    ASSUME NEW t \in Nat
    PROVE  /\ MonthOf(t) \in Nat /\ DayOf(t) \in 1 .. DaysIn(MonthOf(t))
           /\ t = FirstDay(MonthOf(t)) + DayOf(t) - 1
  <1>1. /\ FirstDay(MonthOf(t)) \in Int /\ DaysIn(MonthOf(t)) \in 28 .. 31
        /\ MonthOf(t) \in Nat
        /\ FirstDay(MonthOf(t)) <= t /\ t < FirstDay(MonthOf(t)) + DaysIn(MonthOf(t))
    BY MonthFacts, NextMonth, SMT
  <1> QED BY <1>1, SMT DEF DayOf

LEMMA InMonth ==
    ASSUME NEW m \in Nat, NEW d \in 1 .. DaysIn(m)
    PROVE  /\ FirstDay(m) + d - 1 \in Nat
           /\ MonthOf(FirstDay(m) + d - 1) = m /\ DayOf(FirstDay(m) + d - 1) = d
  <1>1. FirstDay(m) \in Int /\ DaysIn(m) \in 28 .. 31
    BY NextMonth
  <1>2. 0 <= 28 * m /\ 28 * m <= FirstDay(m)
    BY MonthBounds, SMT
  <1> DEFINE t == FirstDay(m) + d - 1
  <1>3. t \in Nat /\ FirstDay(m) <= t /\ t < FirstDay(m) + DaysIn(m) /\ t - FirstDay(m) + 1 = d
    BY <1>1, <1>2, SMT
  <1> HIDE DEF t
  <1>4. MonthOf(t) = m
    BY <1>3, MonthUnique
  <1>5. DayOf(t) = d
    BY <1>3, <1>4 DEF DayOf
  <1> QED BY <1>3, <1>4, <1>5 DEF t

\* The day of month m that stands for day d.
Cut(d, m) == IF d <= DaysIn(m) THEN d ELSE DaysIn(m)

\* A month ahead: the test for two dates of the same month never decides.
LEMMA AlignAhead ==
    ASSUME NEW t \in Nat
    PROVE  AlignPaymentDate(t, t + Month30, Month30)
             = FirstDay(MonthOf(t) + 1) + Cut(DayOf(t), MonthOf(t) + 1) - 1
  <1> DEFINE M == MonthOf(t)
             d == DayOf(t)
             N == MonthOf(t + 30)
  <1>1. /\ M \in Nat /\ d \in 1 .. DaysIn(M) /\ t = FirstDay(M) + d - 1
        /\ N \in Nat /\ t + 30 < FirstDay(N) + DaysIn(N)
        /\ FirstDay(N) <= t + 30
    BY DayFacts, MonthFacts, SMT
  <1> HIDE DEF M, d, N
  <1>2. /\ M + 1 \in Nat
        /\ FirstDay(M) \in Int /\ DaysIn(M) \in 28 .. 31
        /\ FirstDay(M + 1) = FirstDay(M) + DaysIn(M)
        /\ FirstDay(M + 1) \in Int /\ DaysIn(M + 1) \in 28 .. 31
    BY <1>1, NextMonth, SMT
  <1>3. MonthOf(t + (DaysIn(M) - d + 1)) = M + 1
    <2>1. 1 \in 1 .. DaysIn(M + 1)
      BY <1>2, SMT
    <2>2. t + (DaysIn(M) - d + 1) = FirstDay(M + 1) + 1 - 1
      BY <1>1, <1>2, SMT
    <2> QED BY <1>2, <2>1, <2>2, InMonth
  <1>4. M % 12 = N % 12 => d <= DaysIn(M + 1)
    <2> SUFFICES ASSUME M % 12 = N % 12 PROVE d <= DaysIn(M + 1)
      OBVIOUS
    <2>1. CASE M = N
      BY <1>1, <1>2, <2>1, SMT
    <2>2. CASE N < M
      <3>1. FirstDay(N) + DaysIn(N) <= FirstDay(M)
        BY <1>1, <2>2, MonthsGrow
      <3>2. FirstDay(N) \in Int /\ DaysIn(N) \in 28 .. 31
        BY <1>1, NextMonth
      <3> QED BY <1>1, <1>2, <3>1, <3>2, SMT
    <2>3. CASE M < N
      <3>1. M + 2 \in Nat /\ M + 3 \in Nat /\ (M + 1) + 1 = M + 2 /\ (M + 2) + 1 = M + 3
        BY <1>1, SMT
      <3>2. N # M + 1 /\ N # M + 2
        BY <1>1, Z3
      <3>3. M + 2 < N
        BY <1>1, <2>3, <3>2, SMT
      <3>4. FirstDay(M + 2) + DaysIn(M + 2) <= FirstDay(N)
        BY <1>1, <3>1, <3>3, MonthsGrow
      <3>5. /\ FirstDay(M + 2) = FirstDay(M + 1) + DaysIn(M + 1)
            /\ FirstDay(M + 2) \in Int /\ DaysIn(M + 2) \in 28 .. 31
            /\ FirstDay(N) \in Int
        BY <1>1, <1>2, <3>1, NextMonth
      <3> QED BY <1>1, <1>2, <3>4, <3>5, SMT
    <2> QED BY <1>1, <2>1, <2>2, <2>3, SMT
  <1> DEFINE L == DaysIn(M + 1)
  <1>5. AlignPaymentDate(t, t + 30, 30)
          = IF M % 12 = N % 12 \/ d <= L THEN FirstDay(M + 1) + d - 1 + 0
            ELSE FirstDay(M + 1) + d - 1 + (L - d)
    <2>1. t <= t + 30
      BY SMT
    <2> QED BY <1>3, <2>1, SMT DEF AlignPaymentDate, Month30, AddDate, M, N, d
  <1>6. AlignPaymentDate(t, t + 30, 30) = FirstDay(M + 1) + (IF d <= L THEN d ELSE L) - 1
    BY <1>1, <1>2, <1>4, <1>5, SMT
  <1> QED BY <1>6 DEF Cut, M, d, Month30

\* A month back.
LEMMA AlignBack ==
    ASSUME NEW t \in Nat, MonthOf(t) >= 1
    PROVE  AlignPaymentDate(t, t - Month30, Month30)
             = FirstDay(MonthOf(t) - 1) + Cut(DayOf(t), MonthOf(t) - 1) - 1
  <1> DEFINE M == MonthOf(t)
             d == DayOf(t)
             B == M - 1
  <1>1. /\ M \in Nat /\ d \in 1 .. DaysIn(M) /\ t = FirstDay(M) + d - 1 /\ M >= 1
    BY DayFacts
  <1> HIDE DEF M, d
  <1>2. B \in Nat /\ B + 1 = M /\ M + -1 = B
    BY <1>1, SMT
  <1> HIDE DEF B
  <1>3. /\ FirstDay(M) = FirstDay(B) + DaysIn(B)
        /\ FirstDay(B) \in Int /\ DaysIn(B) \in 28 .. 31 /\ DaysIn(M) \in 28 .. 31
    BY <1>1, <1>2, NextMonth
  <1>4. MonthOf(t + -(d + 1)) = B
    <2>1. DaysIn(B) - 1 \in 1 .. DaysIn(B)
      BY <1>3, SMT
    <2>2. t + -(d + 1) = FirstDay(B) + (DaysIn(B) - 1) - 1
      BY <1>1, <1>3, SMT
    <2> QED BY <1>2, <2>1, <2>2, InMonth
  <1> DEFINE L == DaysIn(B)
  <1>5. AlignPaymentDate(t, t - 30, 30)
          = IF d <= L THEN FirstDay(B) + d - 1 + 0
            ELSE FirstDay(B) + d - 1 + (L - d)
    <2>1. ~(t <= t - 30) /\ -1 # 1
      BY SMT
    <2> QED BY <1>2, <1>4, <2>1, SMT DEF AlignPaymentDate, Month30, AddDate, M, d
  <1>6. AlignPaymentDate(t, t - 30, 30) = FirstDay(B) + (IF d <= L THEN d ELSE L) - 1
    BY <1>1, <1>2, <1>3, <1>5, SMT
  <1> QED BY <1>6 DEF Cut, M, d, B, Month30

LEMMA CutDay ==
    ASSUME NEW m \in Nat, NEW d \in 1 .. 31
    PROVE  /\ Cut(d, m) \in 1 .. DaysIn(m) /\ (d <= 28 => Cut(d, m) = d)
           /\ FirstDay(m) + Cut(d, m) - 1 \in Nat
           /\ MonthOf(FirstDay(m) + Cut(d, m) - 1) = m
           /\ DayOf(FirstDay(m) + Cut(d, m) - 1) = Cut(d, m)
  <1>1. DaysIn(m) \in 28 .. 31
    BY NextMonth
  <1>2. Cut(d, m) \in 1 .. DaysIn(m) /\ (d <= 28 => Cut(d, m) = d)
    BY <1>1, SMT DEF Cut
  <1> QED BY <1>2, InMonth

\* A period of a calendar plan ends after it begins.
LEMMA AlignLater ==
    ASSUME NEW t \in Nat, NEW p \in Nat \ {0}
    PROVE  AlignPaymentDate(t, t + p, p) \in Nat /\ AlignPaymentDate(t, t + p, p) > t
  <1>1. CASE p # Month30
    BY <1>1, SMT DEF AlignPaymentDate
  <1>2. CASE p = Month30
    <2> DEFINE M == MonthOf(t)
               d == DayOf(t)
               c == Cut(d, M + 1)
    <2>1. M \in Nat /\ d \in 1 .. DaysIn(M) /\ t = FirstDay(M) + d - 1
      BY DayFacts
    <2> HIDE DEF M, d
    <2>2. /\ M + 1 \in Nat /\ FirstDay(M) \in Int /\ DaysIn(M) \in 28 .. 31
          /\ FirstDay(M + 1) = FirstDay(M) + DaysIn(M)
      BY <2>1, NextMonth
    <2>3. d \in 1 .. 31
      BY <2>1, <2>2, SMT
    <2>4. c \in 1 .. DaysIn(M + 1) /\ FirstDay(M + 1) + c - 1 \in Nat
      BY <2>2, <2>3, CutDay
    <2>5. DaysIn(M + 1) \in Int
      BY <2>2, NextMonth
    <2>6. AlignPaymentDate(t, t + p, p) = FirstDay(M + 1) + c - 1
      BY <1>2, AlignAhead DEF M, d
    <2> HIDE DEF c
    <2> QED BY <2>1, <2>2, <2>3, <2>4, <2>5, <2>6, SMT
  <1> QED BY <1>1, <1>2

-----------------------------------------------------------------------------
(* The loops of the handlers.                                              *)

LEMMA QuotientIs ==
    ASSUME NEW d \in Nat, NEW k \in Nat, NEW p \in Nat \ {0},
           k * p <= d, d < k * p + p
    PROVE  d \div p = k
  <1>1. d \div p \in Int /\ d % p \in 0 .. p - 1 /\ d = p * (d \div p) + (d % p)
    BY Z3
  <1> DEFINE q == d \div p
             r == d % p
  <1>2. q \in Int /\ r \in 0 .. p - 1 /\ d = p * q + r
    BY <1>1
  <1> HIDE DEF q, r
  <1>3. (q - k) * p < p /\ (q - k) * p > -p
    <2>1. (q - k) * p = p * q - k * p /\ p * q \in Int /\ k * p \in Int
      BY <1>2, Z3
    <2> QED BY <1>2, <2>1, SMT
  <1>4. q - k < 1 /\ q - k > -1
    <2> DEFINE e == q - k
    <2>1. e \in Int /\ e * p < p /\ e * p > -p
      BY <1>2, <1>3, SMT
    <2> HIDE DEF e
    <2>2. e >= 1 => e * p >= p
      BY <2>1, Z3
    <2>3. e <= -1 => e * p <= -p
      BY <2>1, Z3
    <2>4. e * p \in Int
      BY <2>1, SMT
    <2>5. e < 1 /\ e > -1
      BY <2>1, <2>2, <2>3, <2>4, SMT
    <2> QED BY <2>5 DEF e
  <1>5. q = k
    BY <1>2, <1>4, SMT
  <1> QED BY <1>5 DEF q

\* One more period laid end to end.
LEMMA NextTile ==
    ASSUME NEW s \in Int, NEW n \in Nat, NEW p \in Nat \ {0}
    PROVE  /\ Tiles(s, 0, p) = << >> /\ Len(Tiles(s, n, p)) = n
           /\ Append(Tiles(s, n, p), Span(s + n * p, s + (n + 1) * p)) = Tiles(s, n + 1, p)
           /\ (n + 1) * p = n * p + p /\ n * p \in Nat
  <1>1. (n + 1) * p = n * p + p /\ n * p \in Nat /\ (n + 1) - 1 = n
    BY Z3
  <1> DEFINE T0 == Tiles(s, n, p)
             T1 == Tiles(s, n + 1, p)
             A  == Append(T0, Span(s + n * p, s + (n + 1) * p))
             V  == [start : Int, end : Int]
  <1>2. \A i \in Nat : i * p \in Int /\ (i - 1) * p \in Int
    BY Z3
  <1>3. /\ T0 \in Seq(V) /\ Len(T0) = n /\ T1 \in Seq(V) /\ Len(T1) = n + 1
        /\ Span(s + n * p, s + (n + 1) * p) \in V
    BY <1>2, SMT DEF Tiles, Span
  <1>4. \A i \in 1 .. n : T0[i] = T1[i]
    BY SMT DEF Tiles
  <1>5. T1[n + 1] = Span(s + n * p, s + (n + 1) * p)
    BY <1>1, SMT DEF Tiles
  <1>6. Tiles(s, 0, p) = << >>
    BY SMT DEF Tiles
  <1> HIDE DEF T0, T1, V
  <1>7. A \in Seq(V) /\ Len(A) = n + 1
    BY <1>3, SMT
  <1>8. \A i \in 1 .. n + 1 : A[i] = T1[i]
    BY <1>3, <1>4, <1>5, SMT
  <1> HIDE DEF A
  <1>9. A = T1
    BY <1>3, <1>7, <1>8, SMT
  <1> QED BY <1>1, <1>3, <1>6, <1>9 DEF A, T0, T1

\* What FlatSpans lists, n times.
Growing(s, n, p) == [j \in 1 .. n |-> Span(s, s + j * p)]

LEMMA NextGrowing ==
    ASSUME NEW s \in Int, NEW n \in Nat, NEW p \in Nat \ {0}
    PROVE  /\ Growing(s, 0, p) = << >> /\ Len(Growing(s, n, p)) = n
           /\ Append(Growing(s, n, p), Span(s, s + (n + 1) * p)) = Growing(s, n + 1, p)
  <1> DEFINE T0 == Growing(s, n, p)
             T1 == Growing(s, n + 1, p)
             A  == Append(T0, Span(s, s + (n + 1) * p))
             V  == [start : Int, end : Int]
  <1>1. \A i \in Nat : i * p \in Int
    BY Z3
  <1>2. /\ T0 \in Seq(V) /\ Len(T0) = n /\ T1 \in Seq(V) /\ Len(T1) = n + 1
        /\ Span(s, s + (n + 1) * p) \in V
    BY <1>1, SMT DEF Growing, Span
  <1>3. \A i \in 1 .. n : T0[i] = T1[i]
    BY SMT DEF Growing
  <1>4. T1[n + 1] = Span(s, s + (n + 1) * p)
    BY SMT DEF Growing
  <1>5. Growing(s, 0, p) = << >>
    BY SMT DEF Growing
  <1> HIDE DEF T0, T1, V
  <1>6. A \in Seq(V) /\ Len(A) = n + 1
    BY <1>2, SMT
  <1>7. \A i \in 1 .. n + 1 : A[i] = T1[i]
    BY <1>2, <1>3, <1>4, SMT
  <1> HIDE DEF A
  <1>8. A = T1
    BY <1>2, <1>6, <1>7, SMT
  <1> QED BY <1>2, <1>5, <1>8 DEF A, T0, T1

LoopType ==
    /\ call \in [kind : {"prepaid", "capacity", "flat"}, calendar : BOOLEAN,
                 period : Nat \ {0}, last : Nat, at : Nat]
    /\ now \in Nat /\ from \in Nat /\ end \in Nat /\ running \in BOOLEAN
    /\ spans \in Seq([start : Int, end : Int])
    /\ call.last <= call.at /\ call.at <= now
    /\ ~(call.kind = "flat" /\ call.calendar /\ call.period = Month30)

\* n periods after the first.
After(n) == call.last + n * call.period

\* A loop that advances last, without a calendar: the periods billed so far lie
\* end to end, and none of them was billed too early.
Straight ==
    call.kind = "capacity" \/ (call.kind = "prepaid" /\ ~call.calendar) =>
        /\ spans = Tiles(call.last, Len(spans), call.period)
        /\ from = After(Len(spans)) /\ end = After(Len(spans)) + call.period
        /\ Len(spans) > 0 /\ call.kind = "capacity" => from <= now
        /\ Len(spans) > 0 /\ call.kind = "prepaid" => from <= now + call.period

\* One that does not.
Flat ==
    call.kind = "flat" =>
        /\ spans = Growing(call.last, Len(spans), call.period)
        /\ from = call.last /\ end = After(Len(spans)) + call.period
        /\ Len(spans) > 0 => After(Len(spans)) <= now

\* Calendar periods.
Chained ==
    \A i \in 1 .. Len(spans) :
        /\ spans[i].start = IF i = 1 THEN call.last ELSE spans[i - 1].end
        /\ spans[i].start < spans[i].end

Monthly ==
    call.kind = "prepaid" /\ call.calendar =>
        /\ end = from + call.period /\ Chained
        /\ from = IF spans = << >> THEN call.last ELSE spans[Len(spans)].end

LoopInv == LoopType /\ Straight /\ Flat /\ Monthly /\ (~running => ~More)

LEMMA LoopInit == ASSUME Init PROVE LoopInv
  <1>1. LoopType
    <2>1. /\ call \in [kind : Kinds, calendar : Calendars, period : Periods, last : Lasts,
                       at : Lasts]
          /\ call.last <= call.at /\ now = call.at /\ from = call.last
          /\ end = call.last + call.period /\ spans = << >> /\ running = TRUE
          /\ ~(call.kind = "flat" /\ call.calendar /\ call.period = Month30)
      BY DEF Init
    <2>2. call \in [kind : {"prepaid", "capacity", "flat"}, calendar : BOOLEAN,
                    period : Nat \ {0}, last : Nat, at : Nat]
      BY <2>1, LoopAssumption
    <2>3. call.last \in Nat /\ call.at \in Nat /\ call.period \in Nat \ {0}
      BY <2>2
    <2> QED BY <2>1, <2>2, <2>3, SMT DEF LoopType
  <1>2. spans = << >> /\ Len(spans) = 0 /\ from = call.last /\ end = call.last + call.period
    BY SMT DEF Init
  <1>3. After(0) = call.last
    <2>1. call.period \in Nat \ {0} /\ call.last \in Nat
      BY <1>1 DEF LoopType
    <2> QED BY <2>1, SMT DEF After
  <1>4. Straight /\ Flat
    <2>1. /\ Tiles(call.last, 0, call.period) = << >>
          /\ Growing(call.last, 0, call.period) = << >>
      BY SMT DEF Tiles, Growing
    <2> QED BY <1>2, <1>3, <2>1, SMT DEF Straight, Flat
  <1>5. Monthly
    BY <1>2, SMT DEF Monthly, Chained
  <1>6. running
    BY DEF Init
  <1> QED BY <1>1, <1>4, <1>5, <1>6 DEF LoopInv

LEMMA CallFacts ==
    ASSUME LoopType
    PROVE  /\ call.period \in Nat \ {0} /\ call.last \in Nat /\ call.at \in Nat
           /\ call.kind \in {"prepaid", "capacity", "flat"} /\ call.calendar \in BOOLEAN
  BY DEF LoopType

\* The end of a period is after its start, and where there are no calendar
\* periods it is the one the loop has computed.
LEMMA AlignedAhead ==
    ASSUME LoopInv
    PROVE  /\ Aligned \in Nat
           /\ IF call.kind = "prepaid" /\ call.calendar THEN Aligned > from ELSE Aligned = end
  <1>1. /\ call.period \in Nat \ {0} /\ from \in Nat /\ end \in Nat
        /\ call.kind \in {"prepaid", "capacity", "flat"} /\ call.calendar \in BOOLEAN
    BY CallFacts DEF LoopInv, LoopType
  <1>2. CASE call.kind = "prepaid" /\ call.calendar
    <2>1. end = from + call.period /\ call.kind # "capacity"
      BY <1>2 DEF LoopInv, Monthly
    <2>2. Aligned = AlignPaymentDate(from, from + call.period, call.period)
      BY <1>2, <2>1 DEF Aligned
    <2> QED BY <1>1, <1>2, <2>2, AlignLater
  <1>3. CASE ~(call.kind = "prepaid" /\ call.calendar)
    <2>1. call.calendar /\ call.kind # "capacity" => call.period # Month30
      BY <1>1, <1>3 DEF LoopInv, LoopType
    <2>2. Aligned = end
      BY <2>1 DEF Aligned, AlignPaymentDate
    <2> QED BY <1>1, <1>3, <2>2
  <1> QED BY <1>2, <1>3

LEMMA Longer ==
    ASSUME LoopType, Iterate, Aligned \in Nat
    PROVE  /\ spans' \in Seq([start : Int, end : Int]) /\ Len(spans') = Len(spans) + 1
           /\ Len(spans) \in Nat
           /\ spans'[Len(spans) + 1] = [start |-> from, end |-> Aligned]
           /\ \A i \in 1 .. Len(spans) : spans'[i] = spans[i]
  <1>1. /\ spans \in Seq([start : Int, end : Int]) /\ from \in Int
        /\ spans' = Append(spans, [start |-> from, end |-> Aligned])
    BY SMT DEF LoopType, Iterate, Span
  <1> HIDE DEF LoopType, Iterate, Aligned
  <1>2. [start |-> from, end |-> Aligned] \in [start : Int, end : Int]
    BY <1>1, SMT
  <1> DEFINE r == [start |-> from, end |-> Aligned]
             V == [start : Int, end : Int]
  <1>3. r \in V /\ spans \in Seq(V) /\ spans' = Append(spans, r)
    BY <1>1, <1>2
  <1> HIDE DEF r, V
  <1>4. /\ spans' \in Seq(V) /\ Len(spans') = Len(spans) + 1 /\ Len(spans) \in Nat
        /\ spans'[Len(spans) + 1] = r
        /\ \A i \in 1 .. Len(spans) : spans'[i] = spans[i]
    BY <1>3, SMT
  <1> QED BY <1>4 DEF r, V

LEMMA OneMore ==
    ASSUME NEW n \in Nat, NEW p \in Nat
    PROVE  (n + 1) * p = n * p + p /\ n * p \in Nat
  BY Z3

LEMMA IterateStep == ASSUME LoopInv, Iterate PROVE LoopInv'
  <1>1. /\ LoopType /\ Straight /\ Flat /\ Monthly
    BY DEF LoopInv
  <1> DEFINE n == Len(spans)
             p == call.period
             s == call.last
             a == Aligned
             kind == call.kind
  <1>2. /\ p \in Nat \ {0} /\ s \in Nat /\ kind \in {"prepaid", "capacity", "flat"}
        /\ call.calendar \in BOOLEAN /\ from \in Nat /\ end \in Nat /\ now \in Nat
    BY <1>1, CallFacts DEF LoopType
  <1>3. a \in Nat /\ IF kind = "prepaid" /\ call.calendar THEN a > from ELSE a = end
    BY AlignedAhead
  <1>4. /\ spans' \in Seq([start : Int, end : Int]) /\ Len(spans') = n + 1
        /\ n \in Nat
        /\ spans'[n + 1] = [start |-> from, end |-> a]
        /\ \A i \in 1 .. n : spans'[i] = spans[i]
    BY <1>1, <1>3, Longer
  <1>5. /\ spans' = Append(spans, Span(from, a)) /\ More
        /\ from' = (IF kind = "flat" THEN from ELSE a) /\ end' = a + p
        /\ call' = call /\ now' = now /\ running' = running /\ running
    BY DEF Iterate
  <1>6. LoopType'
    <2>1. from' \in Nat /\ end' \in Nat
      BY <1>2, <1>3, <1>5, SMT
    <2> QED BY <1>1, <1>4, <1>5, <2>1 DEF LoopType
  <1>7. IF kind = "prepaid" THEN from <= now ELSE end <= now
    BY <1>5 DEF More
  <1>8. After(n) = s + n * p /\ After(n + 1) = s + (n + 1) * p
    BY DEF After
  <1>9. (n + 1) * p = n * p + p /\ n * p \in Nat
    BY <1>2, <1>4, OneMore
  <1> DEFINE np == n * p
  <1>10. After(n) = s + np /\ After(n + 1) = s + np + p /\ np \in Nat
    <2>1. np \in Int /\ s \in Int /\ p \in Int
      BY <1>2, <1>9
    <2>2. After(n + 1) = s + (np + p) /\ After(n) = s + np /\ np \in Nat
      BY <1>8, <1>9
    <2> HIDE DEF np, n, p, s
    <2> QED BY <2>1, <2>2, SMT
  <1> HIDE DEF np
  <1>11. Straight'
    <2> SUFFICES ASSUME kind = "capacity" \/ (kind = "prepaid" /\ ~call.calendar)
                 PROVE  /\ spans' = Tiles(s, n + 1, p)
                        /\ from' = s + (n + 1) * p /\ end' = s + (n + 1) * p + p
                        /\ kind = "capacity" => from' <= now
                        /\ kind = "prepaid" => from' <= now + p
      BY <1>4, <1>5, SMT DEF Straight, After
    <2>1. spans = Tiles(s, n, p) /\ from = After(n) /\ end = After(n) + p
      BY <1>1 DEF Straight
    <2>2. a = end /\ from' = a
      BY <1>3, <1>5
    <2>3. from' = s + (n + 1) * p /\ from = s + n * p
      <3>1. s + np + p = After(n + 1) /\ s + np = After(n)
        BY <1>10
      <3>2. from' = s + np + p
        <4> HIDE DEF n, p, s, a
        <4> QED BY <1>10, <2>1, <2>2
      <3> QED BY <1>8, <2>1, <3>1, <3>2
    <2>4. spans' = Tiles(s, n + 1, p)
      <3>1. Append(Tiles(s, n, p), Span(s + n * p, s + (n + 1) * p)) = Tiles(s, n + 1, p)
        <4>1. s \in Int
          BY <1>2, SMT
        <4> QED BY <1>2, <1>4, <4>1, NextTile
      <3>2. a = s + (n + 1) * p /\ spans' = Append(spans, Span(from, a))
        BY <1>5, <2>2, <2>3
      <3> HIDE DEF n, s, p, a
      <3> QED BY <2>1, <2>3, <3>1, <3>2
    <2>5. /\ kind = "capacity" => from' <= now
          /\ kind = "prepaid" => from' <= now + p
      <3> HIDE DEF np, n, p, s, a, kind
      <3>1. from' = s + np + p /\ from = s + np /\ end = s + np + p
        BY <1>10, <2>1, <2>2, <2>3, <1>8
      <3> QED BY <1>2, <1>7, <1>10, <3>1, SMT
    <2> QED BY <1>5, <2>2, <2>3, <2>4, <2>5
  <1>12. Flat'
    <2> SUFFICES ASSUME kind = "flat"
                 PROVE  /\ spans' = Growing(s, n + 1, p)
                        /\ from' = s /\ end' = s + (n + 1) * p + p
                        /\ s + (n + 1) * p <= now
      BY <1>4, <1>5, SMT DEF Flat, After
    <2>1. spans = Growing(s, n, p) /\ from = s /\ end = After(n) + p
      BY <1>1 DEF Flat
    <2>2. a = end /\ from' = from
      BY <1>3, <1>5
    <2>3. a = After(n + 1)
      <3>1. a = s + np + p
        <4> HIDE DEF n, p, s, a
        <4> QED BY <1>10, <2>1, <2>2
      <3> QED BY <1>10, <3>1
    <2>4. spans' = Growing(s, n + 1, p)
      <3>1. Append(Growing(s, n, p), Span(s, s + (n + 1) * p)) = Growing(s, n + 1, p)
        <4>1. s \in Int
          BY <1>2, SMT
        <4> QED BY <1>2, <1>4, <4>1, NextGrowing
      <3>2. a = s + (n + 1) * p /\ spans' = Append(spans, Span(from, a))
        BY <1>5, <1>8, <2>3
      <3> HIDE DEF n, s, p, a
      <3> QED BY <2>1, <3>1, <3>2
    <2>5. end <= now
      BY <1>5, <1>7
    <2> QED BY <1>5, <1>8, <2>1, <2>2, <2>3, <2>4, <2>5
  <1>13. Monthly'
    <2> SUFFICES ASSUME kind = "prepaid", call.calendar
                 PROVE  /\ end' = from' + p /\ Chained'
                        /\ from' = spans'[n + 1].end /\ spans' # << >>
      BY <1>4, <1>5 DEF Monthly
    <2>1. /\ Chained /\ from = IF spans = << >> THEN s ELSE spans[n].end
      BY <1>1 DEF Monthly
    <2>2. from' = a /\ a > from /\ end' = a + p
      BY <1>3, <1>5
    <2>3. from = IF n = 0 THEN s ELSE spans[n].end
      BY <1>1, <1>4, <2>1, SMT DEF LoopType
    <2>4. ASSUME NEW i \in 1 .. n + 1
          PROVE  /\ spans'[i].start = IF i = 1 THEN s ELSE spans'[i - 1].end
                 /\ spans'[i].start < spans'[i].end
      <3>1. CASE i \in 1 .. n
        <4>1. i # 1 => i - 1 \in 1 .. n
          BY <3>1, SMT
        <4> QED BY <1>4, <2>1, <3>1, <4>1 DEF Chained
      <3>2. CASE i = n + 1
        <4>1. spans'[i].start = from /\ spans'[i].end = a
          BY <1>4, <3>2
        <4>2. n # 0 => n \in 1 .. n /\ i - 1 = n /\ i # 1
          BY <1>4, <3>2, SMT
        <4>3. n = 0 => i = 1
          BY <3>2, SMT
        <4> HIDE DEF n, s, a
        <4>4. spans'[i].start = IF i = 1 THEN s ELSE spans'[i - 1].end
          BY <1>4, <2>3, <4>1, <4>2, <4>3
        <4>5. from < a
          BY <1>2, <1>3, <2>2, SMT
        <4> QED BY <4>1, <4>4, <4>5
      <3> QED BY <1>4, <3>1, <3>2, SMT
    <2>5. Chained'
      BY <1>4, <1>5, <2>4 DEF Chained
    <2>6. spans' # << >>
      BY <1>4, SMT
    <2> QED BY <1>4, <2>2, <2>5, <2>6
  <1> QED BY <1>5, <1>6, <1>11, <1>12, <1>13 DEF LoopInv

\* The clock moves, or the loop ends.
LEMMA QuietStep ==
    ASSUME LoopInv, UNCHANGED <<call, from, end, spans>>, now' \in Nat, now <= now',
           running' \in BOOLEAN, ~running' => ~More'
    PROVE  LoopInv'
  <1>1. /\ call' = call /\ from' = from /\ end' = end /\ spans' = spans
    OBVIOUS
  <1>2. /\ call.period \in Nat \ {0} /\ call.at \in Nat /\ now \in Nat /\ from \in Nat
        /\ call.last \in Nat /\ call.at <= now
    BY CallFacts DEF LoopInv, LoopType
  <1>3. LoopType'
    <2>1. call.at <= now'
      BY <1>2, SMT
    <2> QED BY <1>1, <2>1 DEF LoopInv, LoopType
  <1> DEFINE e == After(Len(spans))
  <1>4. e' = e
    BY <1>1 DEF After
  <1>5. Len(spans) \in Nat /\ e \in Nat
    <2>1. Len(spans) \in Nat
      BY SMT DEF LoopInv, LoopType
    <2> QED BY <1>2, <2>1, NextTile, SMT DEF After
  <1> HIDE DEF e
  <1>6. Straight'
    <2>1. from <= now => from <= now'
      BY <1>2, SMT
    <2>2. from <= now + call.period => from <= now' + call.period
      BY <1>2, SMT
    <2>3. Straight
      BY DEF LoopInv
    <2> QED BY <1>1, <1>4, <2>1, <2>2, <2>3 DEF Straight, e
  <1>7. Flat'
    <2>1. e <= now => e <= now'
      BY <1>2, <1>5, SMT
    <2>2. Flat
      BY DEF LoopInv
    <2> QED BY <1>1, <1>4, <2>1, <2>2 DEF Flat, e
  <1>8. Monthly'
    BY <1>1 DEF LoopInv, Monthly, Chained
  <1> QED BY <1>3, <1>6, <1>7, <1>8 DEF LoopInv

LEMMA LoopNext == ASSUME LoopInv, [Next]_vars PROVE LoopInv'
  <1>0. now \in Nat /\ running \in BOOLEAN /\ (~running => ~More)
    BY DEF LoopInv, LoopType
  <1>1. CASE Iterate
    BY <1>1, IterateStep
  <1>2. CASE Finish
    <2>1. ~More' /\ UNCHANGED <<call, now, from, end, spans>> /\ running' = FALSE
      BY <1>2 DEF Finish, More
    <2>2. now' \in Nat /\ now <= now'
      BY <1>0, <2>1, SMT
    <2> QED BY <2>1, <2>2, QuietStep
  <1>3. CASE Tick
    <2>1. UNCHANGED <<call, from, end, spans>> /\ running' /\ now' = now + 1 /\ running' \in BOOLEAN
      BY <1>0, <1>3 DEF Tick
    <2>2. now' \in Nat /\ now <= now'
      BY <1>0, <2>1, SMT
    <2> QED BY <2>1, <2>2, QuietStep
  <1>4. CASE UNCHANGED vars
    <2>1. UNCHANGED <<call, now, from, end, spans, running>>
      BY <1>4 DEF vars
    <2>2. now' \in Nat /\ now <= now' /\ (~running' => ~More')
      BY <1>0, <2>1, SMT DEF More
    <2> QED BY <1>0, <2>1, <2>2, QuietStep
  <1> QED BY <1>1, <1>2, <1>3, <1>4 DEF Next

LEMMA LoopClosed == ASSUME LoopInv PROVE ClosedForm
  <1> SUFFICES ASSUME ~running, ~(call.calendar /\ call.kind = "flat")
               PROVE  ClosedForm
    BY DEF ClosedForm
  <1> DEFINE n == Len(spans)
             p == call.period
             s == call.last
             kind == call.kind
             np == n * p
             d == now - s
  <1>1. /\ p \in Nat \ {0} /\ s \in Nat /\ kind \in {"prepaid", "capacity", "flat"}
        /\ call.calendar \in BOOLEAN /\ from \in Nat /\ end \in Nat /\ now \in Nat
        /\ s <= now
    <2>1. call.last <= call.at /\ call.at <= now /\ call.at \in Nat
      BY CallFacts DEF LoopInv, LoopType
    <2>2. /\ p \in Nat \ {0} /\ s \in Nat /\ kind \in {"prepaid", "capacity", "flat"}
          /\ call.calendar \in BOOLEAN /\ from \in Nat /\ end \in Nat /\ now \in Nat
      BY CallFacts DEF LoopInv, LoopType
    <2> QED BY <2>1, <2>2, SMT
  <1>2. /\ Straight /\ Flat /\ Monthly
        /\ IF kind = "prepaid" THEN ~(from <= now) ELSE ~(end <= now)
    BY DEF LoopInv, More
  <1>3. n \in Nat
    BY SMT DEF LoopInv, LoopType
  <1>4. np \in Nat /\ (n > 0 => (n - 1) * p = np - p) /\ (n = 0 => np = 0)
    <2> HIDE DEF n, p
    <2> QED BY <1>1, <1>3, Z3
  <1>5. After(n) = s + np
    BY DEF After
  <1>6. d \in Nat
    BY <1>1, SMT
  <1>7. CASE kind = "prepaid" /\ call.calendar
    <2>1. ~(from <= now) /\ Chained /\ from = IF spans = << >> THEN s ELSE spans[n].end
      BY <1>2, <1>7 DEF Monthly
    <2>2. spans # << >> /\ from > now
      BY <1>1, <2>1, SMT
    <2>3. DOMAIN spans = 1 .. n
      BY SMT DEF LoopInv, LoopType
    <2> QED BY <1>7, <2>1, <2>2, <2>3 DEF ClosedForm, Chained
  <1>8. CASE kind = "prepaid" /\ ~call.calendar
    <2>1. /\ spans = Tiles(s, n, p) /\ from = s + np
          /\ n > 0 => from <= now + p
          /\ ~(from <= now)
      BY <1>2, <1>5, <1>8 DEF Straight
    <2>2. Begun(s, now, p) = n
      <3>1. Begun(s, now, p) = (d \div p) + 1
        BY <1>1 DEF Begun
      <3>2. n > 0
        <4> HIDE DEF n, np, p, s
        <4> QED BY <1>1, <1>3, <1>4, <2>1, SMT
      <3>3. d \div p = n - 1
        <4>1. n - 1 \in Nat /\ (n - 1) * p = np - p
          BY <1>3, <1>4, <3>2, SMT
        <4>2. np - p <= d /\ d < np - p + p
          <5> HIDE DEF n, np, p, s
          <5> QED BY <1>1, <1>4, <2>1, <3>2, SMT
        <4> HIDE DEF n, np, p, d
        <4> QED BY <1>1, <1>6, <4>1, <4>2, QuotientIs
      <3> HIDE DEF n, d, p, s
      <3> QED BY <1>3, <3>1, <3>3, SMT
    <2> QED BY <1>8, <2>1, <2>2 DEF ClosedForm, PrepaidSpans, PrepaidLast
  <1>9. ASSUME kind # "prepaid", end = s + np + p, n > 0 => s + np <= now
        PROVE  Elapsed(s, now, p) = n
    <2>1. ~(end <= now)
      BY <1>2, <1>9
    <2>2. np <= d /\ d < np + p
      <3> HIDE DEF n, np, p, s
      <3> QED BY <1>1, <1>3, <1>4, <1>9, <2>1, SMT DEF d
    <2>3. d \div p = n
      <3> HIDE DEF n, p, d
      <3> QED BY <1>1, <1>3, <1>6, <2>2, QuotientIs DEF np
    <2>4. ~(s + p <= now) => n = 0
      <3>1. n > 0 => np >= p
        <4> HIDE DEF n, p
        <4> QED BY <1>1, <1>3, Z3 DEF np
      <3> HIDE DEF n, np, p, s
      <3> QED BY <1>1, <1>3, <1>4, <2>2, <3>1, SMT DEF d
    <2>5. Elapsed(s, now, p) = IF s + p <= now THEN d \div p ELSE 0
      BY DEF Elapsed
    <2> HIDE DEF n, p, d, s
    <2> QED BY <2>3, <2>4, <2>5
  <1>10. CASE kind = "capacity"
    <2>1. /\ spans = Tiles(s, n, p) /\ from = s + np
          /\ end = s + np + p
          /\ n > 0 => from <= now
      BY <1>2, <1>5, <1>10 DEF Straight
    <2>2. Elapsed(s, now, p) = n
      BY <1>9, <1>10, <2>1
    <2> QED BY <1>10, <2>1, <2>2 DEF ClosedForm, CapacitySpans, CapacityLast
  <1>11. CASE kind = "flat"
    <2>1. /\ spans = Growing(s, n, p) /\ from = s
          /\ end = s + np + p
          /\ n > 0 => s + np <= now
      BY <1>2, <1>5, <1>11 DEF Flat
    <2>2. Elapsed(s, now, p) = n
      BY <1>9, <1>11, <2>1
    <2> QED BY <1>11, <2>1, <2>2 DEF ClosedForm, FlatSpans, FlatLast, Growing
  <1> QED BY <1>1, <1>7, <1>8, <1>10, <1>11

\* Whatever the clock does while a handler runs, its records and its last are
\* those of the closed form at the instant the loop ends.
THEOREM LoopsClosed == Spec => []ClosedForm
  <1>1. Init => LoopInv
    BY LoopInit
  <1>2. LoopInv /\ [Next]_vars => LoopInv'
    BY LoopNext
  <1>3. LoopInv => ClosedForm
    BY LoopClosed
  <1> QED BY <1>1, <1>2, <1>3, PTL DEF Spec

-----------------------------------------------------------------------------
(* Renewals by the month.                                                  *)

\* The calendar of the instance Months is this one.
LEMMA SameCalendar ==
    /\ \A t \in Int : Months!MonthOf(t) = MonthOf(t) /\ Months!DayOf(t) = DayOf(t)
    /\ \A t, u \in Int : Months!AlignPaymentDate(t, u, Month30) = AlignPaymentDate(t, u, Month30)
    /\ Months!Month30 = Month30
  <1>1. ASSUME NEW m PROVE Months!FirstDay(m) = FirstDay(m) /\ Months!DaysIn(m) = DaysIn(m)
    BY DEF Months!FirstDay, FirstDay, Months!DaysIn, DaysIn, Months!YearOf, YearOf, Months!Leap, Leap,
           Months!DaysBefore, DaysBefore, Months!MonthStart, MonthStart
  <1>2. ASSUME NEW t PROVE Months!MonthOf(t) = MonthOf(t)
    BY <1>1 DEF Months!MonthOf, MonthOf
  <1>3. ASSUME NEW t PROVE Months!DayOf(t) = DayOf(t)
    BY <1>1, <1>2 DEF Months!DayOf, DayOf
  <1>4. ASSUME NEW t, NEW a, NEW b PROVE Months!AddDate(t, a, b) = AddDate(t, a, b)
    BY <1>1, <1>2, <1>3 DEF Months!AddDate, AddDate
  <1>5. Months!Month30 = Month30
    BY DEF Months!Month30, Month30
  <1>6. ASSUME NEW t, NEW u
        PROVE  Months!AlignPaymentDate(t, u, Month30) = AlignPaymentDate(t, u, Month30)
    BY <1>1, <1>2, <1>3, <1>4, <1>5 DEF Months!AlignPaymentDate, AlignPaymentDate
  <1> QED BY <1>2, <1>3, <1>5, <1>6

\* A renewal goes one calendar month on, a cancellation one back, and a
\* billing day that every month has stays.
MonthInv ==
    /\ first \in Nat /\ paid \in Nat /\ renewed \in Nat /\ canceled \in Nat
    /\ canceled <= renewed
    /\ MonthOf(paid) = MonthOf(first) + renewed - canceled
    /\ DayOf(first) <= 28 => DayOf(paid) = DayOf(first)

LEMMA MovesStart == ASSUME Months!Init PROVE MonthInv
  <1>1. first \in Nat /\ paid = first /\ renewed = 0 /\ canceled = 0
    BY ComputationsAssumption DEF Months!Init
  <1>2. MonthOf(first) \in Nat
    BY <1>1, MonthFacts
  <1> QED BY <1>1, <1>2, SMT DEF MonthInv

\* The month n that a move leads to, with the billing day cut to it.
LEMMA Moved ==
    ASSUME MonthInv, NEW n \in Nat, paid' = FirstDay(n) + Cut(DayOf(paid), n) - 1
    PROVE  /\ paid' \in Nat /\ MonthOf(paid') = n
           /\ DayOf(first) <= 28 => DayOf(paid') = DayOf(first)
  <1> DEFINE d == DayOf(paid)
             p == FirstDay(n) + Cut(d, n) - 1
  <1>1. d \in 1 .. 31
    <2>1. d \in 1 .. DaysIn(MonthOf(paid)) /\ MonthOf(paid) \in Nat
      BY DayFacts DEF MonthInv
    <2>2. DaysIn(MonthOf(paid)) \in 28 .. 31
      BY <2>1, NextMonth
    <2> QED BY <2>1, <2>2, SMT
  <1>2. /\ p \in Nat /\ MonthOf(p) = n /\ DayOf(p) = Cut(d, n)
        /\ d <= 28 => Cut(d, n) = d
    <2> HIDE DEF d
    <2> QED BY <1>1, CutDay
  <1>3. DayOf(first) <= 28 => d = DayOf(first)
    BY DEF MonthInv
  <1> QED BY <1>2, <1>3

LEMMA MoveStep == ASSUME MonthInv, [Months!Next]_(Months!vars) PROVE MonthInv'
  <1> DEFINE M == MonthOf(paid)
             k == MonthOf(first)
  <1>1. /\ first \in Nat /\ paid \in Nat /\ renewed \in Nat /\ canceled \in Nat
        /\ canceled <= renewed /\ M = k + renewed - canceled
        /\ M \in Nat /\ k \in Nat
        /\ paid - Month30 \in Int /\ paid + Month30 \in Int
    BY MonthFacts, SMT DEF MonthInv, Month30
  <1>2. CASE Months!RenewMonth
    <2>1. /\ paid' = AlignPaymentDate(paid, paid + Month30, Month30)
          /\ renewed' = renewed + 1 /\ first' = first /\ canceled' = canceled
      BY <1>1, <1>2, SameCalendar DEF Months!RenewMonth
    <2>2. paid' = FirstDay(M + 1) + Cut(DayOf(paid), M + 1) - 1 /\ M + 1 \in Nat
      BY <1>1, <2>1, AlignAhead, SMT
    <2>3. /\ paid' \in Nat /\ MonthOf(paid') = M + 1
          /\ DayOf(first) <= 28 => DayOf(paid') = DayOf(first)
      BY <2>2, Moved
    <2>4. renewed' \in Nat /\ canceled <= renewed' /\ M + 1 = k + renewed' - canceled
      <3> HIDE DEF M, k
      <3> QED BY <1>1, <2>1, SMT
    <2> QED BY <1>1, <2>1, <2>3, <2>4 DEF MonthInv
  <1>3. CASE Months!CancelMonth
    <2>1. /\ paid' = AlignPaymentDate(paid, paid - Month30, Month30) /\ canceled < renewed
          /\ canceled' = canceled + 1 /\ first' = first /\ renewed' = renewed
      BY <1>1, <1>3, SameCalendar DEF Months!CancelMonth
    <2>2. M >= 1 /\ M - 1 \in Nat
      <3> HIDE DEF M, k
      <3> QED BY <1>1, <2>1, SMT
    <2>3. paid' = FirstDay(M - 1) + Cut(DayOf(paid), M - 1) - 1
      BY <1>1, <2>1, <2>2, AlignBack
    <2>4. /\ paid' \in Nat /\ MonthOf(paid') = M - 1
          /\ DayOf(first) <= 28 => DayOf(paid') = DayOf(first)
      BY <2>2, <2>3, Moved
    <2>5. canceled' \in Nat /\ canceled' <= renewed /\ M - 1 = k + renewed - canceled'
      <3> HIDE DEF M, k
      <3> QED BY <1>1, <2>1, SMT
    <2> QED BY <1>1, <2>1, <2>4, <2>5 DEF MonthInv
  <1>4. CASE UNCHANGED Months!vars
    BY <1>4 DEF Months!vars, MonthInv
  <1> QED BY <1>2, <1>3, <1>4 DEF Months!Next

LEMMA MonthsSteps == SpecTask => [](MonthInv)
  <1>1. InitTask => MonthInv
    BY MovesStart DEF InitTask
  <1>2. MonthInv /\ [NextTask]_<<task, vars, months, meter, notices>> => MonthInv'
    <2> SUFFICES ASSUME MonthInv, [NextTask]_<<task, vars, months, meter, notices>>
                 PROVE  MonthInv'
      OBVIOUS
    <2>1. CASE Months!Next
      BY <2>1, MoveStep
    <2>2. CASE UNCHANGED months
      BY <2>2 DEF months, MonthInv
    <2> QED BY <2>1, <2>2 DEF NextTask
  <1> QED BY <1>1, <1>2, PTL DEF SpecTask

\* Renewals less cancellations are the calendar months between the start and
\* the end of what is paid: no move skips a month or stays in one.
THEOREM MonthsCount == SpecTask => []MonthsCounted
  <1>1. MonthInv => MonthsCounted
    BY SameCalendar, SMT DEF MonthInv, MonthsCounted, Months!MonthsCounted
  <1> QED BY <1>1, MonthsSteps, PTL

\* Cancelling as often as renewing leads back to the day the billing started on,
\* if every month has it.
THEOREM CancelUndoes == SpecTask => []CancelUndoesRenew
  <1>1. MonthInv => CancelUndoesRenew
    <2> SUFFICES ASSUME MonthInv, renewed = canceled, DayOf(first) <= 28 PROVE paid = first
      BY SameCalendar, SMT DEF MonthInv, CancelUndoesRenew, Months!CancelUndoesRenew
    <2>1. /\ first \in Nat /\ paid \in Nat /\ DayOf(paid) = DayOf(first)
          /\ MonthOf(first) \in Nat /\ renewed \in Nat
          /\ MonthOf(paid) = MonthOf(first) + renewed - renewed
      BY MonthFacts DEF MonthInv
    <2>2. MonthOf(paid) = MonthOf(first)
      BY <2>1, SMT
    <2> QED BY <2>1, <2>2, DayFacts
  <1> QED BY <1>1, MonthsSteps, PTL

-----------------------------------------------------------------------------
(* The notices.                                                            *)

Notes     == Notices!notificationsPeriods
Reminders == Notices!suspendNotificationsPeriods
None      == Notices!NoNotice

LEMMA NoteSets ==
    /\ Notes = {0, 1, 2, 3, 7, 15, 30} /\ Reminders = {1, 2, 3, 7}
    /\ Reminders \subseteq Notes /\ Notes \subseteq Nat
    /\ None \in [Notes -> Nat] /\ \A d \in Notes : None[d] = 0
  BY SMT DEF Notes, Reminders, None, Notices!notificationsPeriods,
     Notices!suspendNotificationsPeriods, Notices!NoNotice

LEMMA MinIs ==
    ASSUME NEW S, S \subseteq Int, NEW x \in S, \A y \in S : x <= y
    PROVE  Notices!Min(S) = x
  <1> DEFINE m == Notices!Min(S)
  <1>1. m \in S /\ \A y \in S : m <= y
    <2>1. \E z \in S : \A y \in S : z <= y
      OBVIOUS
    <2> QED BY <2>1 DEF Notices!Min
  <1> HIDE DEF m
  <1>2. m <= x /\ x <= m /\ m \in Int /\ x \in Int
    BY <1>1
  <1> QED BY <1>2, SMT DEF m

LEMMA MaxIs ==
    ASSUME NEW S, S \subseteq Int, NEW x \in S, \A y \in S : y <= x
    PROVE  Notices!Max(S) = x
  <1> DEFINE m == Notices!Max(S)
  <1>1. m \in S /\ \A y \in S : m >= y
    <2>1. x \in Int /\ \A y \in S : y \in Int
      OBVIOUS
    <2>2. \A y \in S : x >= y
      BY <2>1, SMT
    <2>3. \E z \in S : \A y \in S : z >= y
      BY <2>2
    <2> QED BY <2>3 DEF Notices!Max
  <1> HIDE DEF m
  <1>2. m >= x /\ m <= x /\ m \in Int /\ x \in Int
    BY <1>1
  <1> QED BY <1>2, SMT DEF m

\* d is the notice of n days before the end.
Due(n, d) == d \in Notes /\ n <= d /\ \A e \in Notes : n <= e => d <= e

LEMMA DueOnce ==
    ASSUME NEW n \in Int, NEW d, NEW e, Due(n, d), Due(n, e)
    PROVE  d = e
  <1>1. d <= e /\ e <= d /\ d \in Int /\ e \in Int
    BY NoteSets DEF Due
  <1> QED BY <1>1, SMT

LEMMA AheadDue ==
    ASSUME NEW n \in Int
    PROVE  /\ Notices!Ahead(n) # {} => Due(n, Notices!Min(Notices!Ahead(n)))
           /\ \A d : Due(n, d) => Notices!Ahead(n) # {} /\ Notices!Min(Notices!Ahead(n)) = d
  <1> DEFINE A == Notices!Ahead(n)
  <1>1. A = {d \in Notes : n <= d} /\ A \subseteq Nat
    BY NoteSets DEF Notices!Ahead, Notes
  <1>2. A # {} => Due(n, Notices!Min(A))
    <2> SUFFICES ASSUME A # {} PROVE Due(n, Notices!Min(A))
      OBVIOUS
    <2> HIDE DEF A
    <2>1. PICK x \in A : \A y \in A : x <= y
      <3>1. A \in SUBSET Nat
        BY <1>1
      <3> QED BY <3>1, Least
    <2>2. Notices!Min(A) = x
      <3>1. A \subseteq Int
        BY <1>1, SMT
      <3> QED BY <2>1, <3>1, MinIs
    <2> QED BY <1>1, <2>1, <2>2 DEF Due
  <1>3. \A d : Due(n, d) => A # {}
    BY <1>1 DEF Due
  <1> HIDE DEF A
  <1>4. \A d : Due(n, d) => Notices!Min(A) = d
    BY <1>2, <1>3, DueOnce
  <1> QED BY <1>2, <1>3, <1>4 DEF A

\* Without a flag the next notice goes out with the one that is due.
LEMMA OpeningPair ==
    ASSUME NEW d \in Notes
    PROVE  \E e \in Notes : /\ d <= e /\ Notices!Opening(d) = {d, e}
                            /\ Notices!Min({d, e}) = d /\ Notices!Max({d, e}) = e
  <1> DEFINE A == Notices!Ahead(d + 1)
             m == Notices!Min(A)
  <1>1. d \in Int /\ d + 1 \in Int /\ Notes \subseteq Int
    BY NoteSets, SMT
  <1>2. ASSUME NEW e \in Notes, d <= e
        PROVE  Notices!Min({d, e}) = d /\ Notices!Max({d, e}) = e
    <2>1. e \in Int /\ {d, e} \subseteq Int /\ d \in {d, e} /\ e \in {d, e}
      BY <1>1
    <2>2. \A y \in {d, e} : d <= y /\ y <= e
      BY <1>1, <1>2, <2>1, SMT
    <2> QED BY <2>1, <2>2, MinIs, MaxIs
  <1>3. CASE A = {} \/ m = period
    <2>1. Notices!Opening(d) = {d, d} /\ d <= d
      BY <1>1, <1>3, SMT DEF Notices!Opening
    <2> QED BY <1>2, <2>1
  <1>4. CASE ~(A = {} \/ m = period)
    <2>1. Due(d + 1, m)
      BY <1>1, <1>4, AheadDue
    <2>2. m \in Notes /\ d <= m
      <3>1. m \in Notes /\ d + 1 <= m
        BY <2>1 DEF Due
      <3> HIDE DEF m
      <3> QED BY <1>1, <3>1, SMT
    <2>3. Notices!Opening(d) = {d, m}
      BY <1>4 DEF Notices!Opening
    <2> QED BY <1>2, <2>2, <2>3
  <1> QED BY <1>3, <1>4

\* s counts the notices of a period that ends in n days, f is the flag and o
\* the first notice of the period, if that was the instance's first of all.
Ledger(n, s, f, o) ==
    /\ s \in [Notes -> Nat] /\ f \in Notes \cup {-1} /\ o \in Notes \cup {-1}
    /\ s[0] = 0
    /\ \A d \in Notes :
          /\ s[d] <= IF d = o THEN 2 ELSE 1
          /\ s[d] > 0 => n <= d
          /\ s[d] > 0 /\ Due(n, d) => f = d \/ (o = d /\ s[d] = 1)
    /\ f = -1 => s = None /\ o = -1
    /\ s # None => f \in Notes /\ s[f] > 0

LEMMA LedgerOpens ==
    ASSUME NEW n, NEW f \in Notes \cup {-1}
    PROVE  Ledger(n, None, f, -1)
  BY NoteSets, SMT DEF Ledger

LEMMA LedgerLater ==
    ASSUME NEW n \in Int, NEW m \in Int, m <= n, NEW s, NEW f, NEW o, Ledger(n, s, f, o)
    PROVE  Ledger(m, s, f, o)
  <1>1. ASSUME NEW d \in Notes, s[d] > 0
        PROVE  m <= d /\ (Due(m, d) => Due(n, d))
    <2>1. n <= d /\ d \in Int /\ \A e \in Notes : e \in Int
      BY <1>1, NoteSets DEF Ledger
    <2>2. m <= d /\ \A e \in Notes : n <= e => m <= e
      BY <2>1, SMT
    <2> QED BY <2>1, <2>2 DEF Due
  <1> QED BY <1>1 DEF Ledger

LEMMA BillLedger ==
    ASSUME NEW n \in Nat \ {0}, NEW past, NEW opened, Ledger(n, past, flag, opened),
           Notices!BillingEvent(n, past, opened)
    PROVE  /\ Ledger(n, sent', flag', opening')
           /\ \/ /\ flag' = flag /\ sent' = past /\ opening' = opened
                 /\ \A d : Due(n, d) => d = period \/ d = flag
              \/ /\ sent' # None /\ \A d : Due(n, d) => sent'[d] > 0
  <1> DEFINE A == Notices!Ahead(n)
             m == Notices!Min(A)
  <1>1. n \in Int
    BY SMT
  <1>2. CASE Notices!Flagged(n)
    <2>1. flag' = flag /\ sent' = past /\ opening' = opened
      BY <1>2 DEF Notices!BillingEvent
    <2>2. \A d : Due(n, d) => d = period \/ d = flag
      BY <1>1, <1>2, AheadDue DEF Notices!Flagged
    <2> QED BY <2>1, <2>2
  <1>3. CASE ~Notices!Flagged(n)
    <2> DEFINE days == IF flag = -1 THEN Notices!Opening(m) ELSE {m}
    <2>1. A # {} /\ m # period /\ m # flag
      BY <1>3 DEF Notices!Flagged
    <2>2. Due(n, m) /\ \A d : Due(n, d) => d = m
      BY <1>1, <2>1, AheadDue
    <2>3. /\ sent' = [d \in Notes |-> past[d] + IF d \in days THEN 1 ELSE 0]
          /\ flag' = Notices!Max(days)
          /\ opening' = IF flag = -1 THEN Notices!Min(days) ELSE opened
      BY <1>3 DEF Notices!BillingEvent, Notes
    <2>4. m \in Notes /\ n <= m
      BY <2>2 DEF Due
    <2> HIDE DEF m
    <2>5. PICK e \in Notes : /\ m <= e /\ days = {m, e} /\ (flag # -1 => e = m)
                             /\ Notices!Min({m, e}) = m /\ Notices!Max({m, e}) = e
      <3>1. CASE flag = -1
        BY <2>4, <3>1, OpeningPair
      <3>2. CASE flag # -1
        <4>1. m \in Int /\ {m} \subseteq Int /\ {m, m} = {m} /\ \A y \in {m} : m <= y /\ y <= m
          BY <2>4, NoteSets, SMT
        <4>2. Notices!Min({m}) = m /\ Notices!Max({m}) = m
          BY <4>1, MinIs, MaxIs
        <4> QED BY <2>4, <3>2, <4>1, <4>2
      <3> QED BY <3>1, <3>2
    <2> HIDE DEF days
    <2>6. /\ flag' = e /\ opening' = IF flag = -1 THEN m ELSE opened
          /\ sent' = [d \in Notes |-> past[d] + IF d \in {m, e} THEN 1 ELSE 0]
      BY <2>3, <2>5
    <2>7. /\ past \in [Notes -> Nat] /\ flag \in Notes \cup {-1} /\ opened \in Notes \cup {-1}
          /\ past[0] = 0
          /\ \A d \in Notes :
                /\ past[d] <= IF d = opened THEN 2 ELSE 1
                /\ past[d] > 0 => n <= d
                /\ past[d] > 0 /\ Due(n, d) => flag = d \/ (opened = d /\ past[d] = 1)
          /\ flag = -1 => past = None /\ opened = -1
      BY DEF Ledger
    <2>8. 0 \in Notes /\ m \in Nat /\ e \in Nat /\ m # 0 /\ e # 0 /\ n <= e /\ e # -1
          /\ Notes \subseteq Nat
      <3>1. 0 \in Notes /\ m \in Nat /\ e \in Nat /\ Notes \subseteq Nat
        BY <2>4, <2>5, NoteSets
      <3> QED BY <2>4, <2>5, <3>1, SMT
    <2>9. /\ sent' \in [Notes -> Nat] /\ sent'[0] = 0
          /\ \A d \in Notes : sent'[d] = past[d] + IF d \in {m, e} THEN 1 ELSE 0
      <3>1. \A d \in Notes : sent'[d] = past[d] + IF d \in {m, e} THEN 1 ELSE 0
        BY <2>6
      <3>2. \A d \in Notes : past[d] \in Nat /\ past[d] + (IF d \in {m, e} THEN 1 ELSE 0) \in Nat
        BY <2>7, SMT
      <3>3. sent'[0] = 0
        BY <2>7, <2>8, <3>1, SMT
      <3> QED BY <2>6, <3>1, <3>2, <3>3
    <2>10. ASSUME NEW d \in Notes
           PROVE  /\ sent'[d] <= IF d = opening' THEN 2 ELSE 1
                  /\ sent'[d] > 0 => n <= d
                  /\ sent'[d] > 0 /\ Due(n, d) => flag' = d \/ (opening' = d /\ sent'[d] = 1)
      <3>1. past[d] \in Nat /\ sent'[d] = past[d] + IF d \in {m, e} THEN 1 ELSE 0
        BY <2>7, <2>9
      <3>2. CASE flag = -1
        <4>1. past[d] = 0 /\ opening' = m
          BY <2>6, <2>7, <3>2, NoteSets
        <4> QED BY <2>2, <2>4, <2>8, <3>1, <4>1, SMT
      <3>3. CASE flag # -1
        <4>1. e = m /\ opening' = opened /\ flag' = m
          BY <2>5, <2>6, <3>3
        <4>2. d = m => past[d] = 0 \/ (opened = d /\ past[d] = 1)
          BY <2>1, <2>2, <2>7, <3>1, SMT
        <4>3. past[d] <= IF d = opened THEN 2 ELSE 1
          BY <2>7
        <4>4. past[d] > 0 => n <= d
          BY <2>7
        <4> QED BY <2>2, <2>4, <3>1, <4>1, <4>2, <4>3, <4>4, SMT
      <3> QED BY <3>2, <3>3
    <2>11. sent'[m] > 0 /\ sent'[e] > 0
      BY <2>4, <2>5, <2>7, <2>9, SMT
    <2>12. sent' # None
      <3>1. None[m] = 0 /\ ~(0 > 0)
        BY <2>4, NoteSets, SMT
      <3> QED BY <2>11, <3>1
    <2>13. flag' \in Notes /\ opening' \in Notes \cup {-1}
      BY <2>4, <2>5, <2>6, <2>7
    <2>14. Ledger(n, sent', flag', opening')
      BY <2>6, <2>8, <2>9, <2>10, <2>11, <2>12, <2>13 DEF Ledger
    <2> QED BY <2>2, <2>11, <2>12, <2>14
  <1> QED BY <1>2, <1>3

\* While nothing has been sent in a period, the days that are left are above
\* every notice below its length, but for the one the flag holds back.
Pending ==
    idle < 0 /\ sent = None =>
        \A e \in Notes : 0 < e /\ e < period /\ e # flag =>
                           e <= left /\ (monitored => e < left)

ToldPaid ==
    monitored /\ idle < 0 /\ left > 0 =>
        \A d : Due(left, d) /\ d < period =>
                 \/ sent[d] > 0
                 \/ d = former /\ ~\E e \in Notes : d < e /\ e < period

PaidInv ==
    /\ period \in Nat \ {0} /\ left \in Nat /\ monitored \in BOOLEAN /\ idle \in Int
    /\ Ledger(left, sent, flag, opening)
    /\ sent = None => flag = former
    /\ Pending /\ ToldPaid

LEMMA LedgerFlag ==
    ASSUME NEW n, NEW s, NEW f, NEW o, Ledger(n, s, f, o)
    PROVE  f \in Notes \cup {-1}
  BY DEF Ledger

\* A period has begun, and no round has come to the notices since.
LEMMA FreshPeriod ==
    ASSUME PaidInv, period' = period, left' \in Nat, period <= left',
           idle' \in Int, monitored' \in BOOLEAN, monitored' => left' = period,
           sent' = None, opening' = -1, former' = flag, flag' = flag
    PROVE  PaidInv'
  <1>1. Ledger(left', sent', flag', opening')
    BY LedgerFlag, LedgerOpens DEF PaidInv
  <1>2. period \in Nat \ {0} /\ period \in Int /\ left' \in Int /\ \A e \in Notes : e \in Int
    BY NoteSets, SMT DEF PaidInv
  <1>3. Pending'
    <2>1. \A e \in Notes : e < period => e <= left'
      BY <1>2, SMT
    <2>2. \A e \in Notes : monitored' /\ e < period => e < left'
      OBVIOUS
    <2> QED BY <2>1, <2>2 DEF Pending
  <1>4. ToldPaid'
    <2>1. \A d : monitored' /\ Due(left', d) => ~(d < period)
      <3>1. \A d : Due(left', d) => d \in Int /\ left' <= d
        BY <1>2 DEF Due
      <3> QED BY <1>2, <3>1, SMT
    <2> QED BY <2>1 DEF ToldPaid
  <1>5. (sent = None => flag = former)'
    OBVIOUS
  <1> QED BY <1>1, <1>2, <1>3, <1>4, <1>5 DEF PaidInv

\* The first round of a period comes to the notices as it begins.
LEMMA BilledPeriod ==
    ASSUME PaidInv, period' = period, left' = period, former' = flag,
           idle' \in Int, monitored' \in BOOLEAN,
           Notices!BillingEvent(period, None, -1)
    PROVE  PaidInv'
  <1>1. period \in Nat \ {0} /\ period \in Int /\ \A e \in Notes : e \in Int
    BY NoteSets, SMT DEF PaidInv
  <1>2. Ledger(period, None, flag, -1)
    BY LedgerFlag, LedgerOpens DEF PaidInv
  <1>3. /\ Ledger(period, sent', flag', opening')
        /\ flag' = flag \/ sent' # None
    BY <1>1, <1>2, BillLedger
  <1>4. Pending'
    <2>1. \A e \in Notes : e < period => e <= period
      BY <1>1, SMT
    <2> QED BY <2>1 DEF Pending
  <1>5. ToldPaid'
    <2>1. \A d : Due(period, d) => ~(d < period)
      <3>1. \A d : Due(period, d) => d \in Int /\ period <= d
        BY <1>1 DEF Due
      <3> QED BY <1>1, <3>1, SMT
    <2> QED BY <2>1 DEF ToldPaid
  <1>6. left' \in Nat /\ Ledger(left', sent', flag', opening')
    BY <1>1, <1>3
  <1>7. (sent = None => flag = former)'
    BY <1>3
  <1> QED BY <1>1, <1>4, <1>5, <1>6, <1>7 DEF PaidInv

\* A later round.
LEMMA BilledLater ==
    ASSUME PaidInv, UNCHANGED <<period, left, idle, former>>, left > 0, idle < 0,
           monitored' = TRUE, Notices!BillingEvent(left, sent, opening)
    PROVE  PaidInv'
  <1>1. /\ left \in Nat \ {0} /\ period \in Int /\ \A e \in Notes : e \in Int
        /\ Ledger(left, sent, flag, opening) /\ left \in Int
    BY NoteSets, SMT DEF PaidInv
  <1>2. /\ Ledger(left, sent', flag', opening')
        /\ \/ /\ flag' = flag /\ sent' = sent /\ opening' = opening
              /\ \A d : Due(left, d) => d = period \/ d = flag
           \/ /\ sent' # None /\ \A d : Due(left, d) => sent'[d] > 0
    BY <1>1, BillLedger
  <1>3. CASE sent' # None /\ \A d : Due(left, d) => sent'[d] > 0
    <2>1. Pending' /\ ToldPaid' /\ (sent = None => flag = former)'
      BY <1>3 DEF Pending, ToldPaid
    <2> QED BY <1>2, <2>1 DEF PaidInv
  <1>4. CASE /\ flag' = flag /\ sent' = sent /\ opening' = opening
             /\ \A d : Due(left, d) => d = period \/ d = flag
    <2>1. Pending'
      <3> SUFFICES ASSUME sent = None, NEW e \in Notes, 0 < e, e < period, e # flag
                   PROVE  e <= left /\ e < left
        BY <1>4 DEF Pending
      <3>1. e <= left
        BY DEF PaidInv, Pending
      <3>2. e # left
        <4> SUFFICES ASSUME e = left PROVE FALSE
          OBVIOUS
        <4>1. Due(left, e)
          BY <1>1, SMT DEF Due
        <4>2. e = period
          BY <1>4, <4>1
        <4> QED BY <1>1, <4>2, SMT
      <3> QED BY <1>1, <3>1, <3>2, SMT
    <2>2. ToldPaid'
      <3> SUFFICES ASSUME NEW d, Due(left, d), d < period, ~(sent[d] > 0)
                   PROVE  d = former /\ ~\E e \in Notes : d < e /\ e < period
        BY <1>4 DEF ToldPaid
      <3>1. d = flag /\ d \in Notes /\ left <= d /\ d \in Int
        BY <1>1, <1>4, SMT DEF Due
      <3>2. sent = None /\ d = former
        BY <1>1, <3>1 DEF Ledger, PaidInv
      <3>3. ASSUME NEW e \in Notes, d < e, e < period PROVE FALSE
        <4>1. 0 < e /\ e # flag /\ left < e
          BY <1>1, <3>1, <3>3, NoteSets, SMT
        <4>2. e <= left
          BY <3>2, <3>3, <4>1 DEF PaidInv, Pending
        <4> QED BY <1>1, <4>1, <4>2, SMT
      <3> QED BY <3>2, <3>3
    <2> QED BY <1>2, <1>4, <2>1, <2>2 DEF PaidInv
  <1> QED BY <1>2, <1>3, <1>4

\* A day goes by, or a round does not come to the notices of the period.
LEMMA PaidPasses ==
    ASSUME PaidInv, UNCHANGED <<period, flag, sent, opening, former>>,
           left' \in Nat, left' <= left, idle' \in Int, monitored' \in BOOLEAN,
           idle' < 0 => /\ idle < 0
                        /\ \/ left' = left /\ monitored' = monitored
                           \/ left' = 0 /\ left = 0
                           \/ left - 1 <= left' /\ monitored /\ ~monitored'
    PROVE  PaidInv'
  <1>1. /\ left \in Int /\ left' \in Int /\ \A e \in Notes : e \in Int
        /\ monitored \in BOOLEAN
    BY NoteSets, SMT DEF PaidInv
  <1>2. Ledger(left', sent', flag', opening')
    BY <1>1, LedgerLater DEF PaidInv
  <1>3. Pending'
    <2> SUFFICES ASSUME idle' < 0, sent = None,
                        NEW e \in Notes, 0 < e, e < period, e # flag
                 PROVE  e <= left' /\ (monitored' => e < left')
      BY DEF Pending
    <2>1. e <= left /\ (monitored => e < left)
      BY DEF PaidInv, Pending
    <2> QED BY <1>1, <2>1, SMT
  <1>4. ToldPaid'
    <2> SUFFICES ASSUME monitored', idle' < 0, left' > 0
                 PROVE  ToldPaid'
      BY DEF ToldPaid
    <2>1. left' = left /\ monitored /\ idle < 0 /\ left > 0
      <3>1. left' # 0
        BY <1>1, SMT
      <3>2. left' = left /\ monitored' = monitored /\ idle < 0
        BY <3>1
      <3> QED BY <3>2
    <2>2. \A d : Due(left, d) /\ d < period =>
                    \/ sent[d] > 0
                    \/ d = former /\ ~\E e \in Notes : d < e /\ e < period
      BY <2>1 DEF PaidInv, ToldPaid
    <2>3. \A d : Due(left', d) = Due(left, d)
      BY <2>1
    <2> QED BY <2>2, <2>3 DEF ToldPaid
  <1> QED BY <1>2, <1>3, <1>4 DEF PaidInv

\* d is the reminder of a suspension of n days.
Past(n, d) == d \in Reminders /\ d <= n /\ \A e \in Reminders : e <= n => e <= d

LEMMA BehindPast ==
    ASSUME idle \in Int
    PROVE  /\ Notices!Behind # {} => Past(idle, Notices!Max(Notices!Behind))
           /\ \A d : Past(idle, d) => Notices!Behind # {} /\ Notices!Max(Notices!Behind) = d
  <1> DEFINE B == Notices!Behind
  <1>1. B = {d \in Reminders : d <= idle} /\ B \subseteq Int
    <2>1. B = {d \in Reminders : idle >= d} /\ \A d \in Reminders : d \in Int
      BY NoteSets DEF Notices!Behind, Reminders
    <2> QED BY <2>1, SMT
  <1>2. \A d : Past(idle, d) => B # {} /\ Notices!Max(B) = d
    <2> SUFFICES ASSUME NEW d, Past(idle, d) PROVE B # {} /\ Notices!Max(B) = d
      OBVIOUS
    <2>1. d \in B /\ \A y \in B : y <= d
      BY <1>1 DEF Past
    <2> HIDE DEF B
    <2> QED BY <1>1, <2>1, MaxIs
  <1>3. B # {} => \E d : Past(idle, d)
    <2> SUFFICES ASSUME NEW x \in B PROVE \E d : Past(idle, d)
      OBVIOUS
    <2>1. x \in {1, 2, 3, 7} /\ x <= idle
      BY <1>1, NoteSets
    <2>2. CASE idle >= 7
      <3>1. Past(idle, 7)
        BY <2>2, NoteSets, SMT DEF Past
      <3> QED BY <3>1
    <2>3. CASE idle < 7 /\ idle >= 3
      <3>1. Past(idle, 3)
        BY <2>3, NoteSets, SMT DEF Past
      <3> QED BY <3>1
    <2>4. CASE idle < 3 /\ idle >= 2
      <3>1. Past(idle, 2)
        BY <2>4, NoteSets, SMT DEF Past
      <3> QED BY <3>1
    <2>5. CASE idle < 2
      <3>1. Past(idle, 1)
        BY <2>1, <2>5, NoteSets, SMT DEF Past
      <3> QED BY <3>1
    <2> QED BY <2>2, <2>3, <2>4, <2>5, SMT
  <1> HIDE DEF B
  <1> QED BY <1>2, <1>3 DEF B

ToldSuspended ==
    monitored /\ idle >= 0 =>
        \A d : Past(idle, d) /\ d # kept => ssent[d] > 0

RemindInv ==
    /\ idle \in Int /\ idle >= -1 /\ monitored \in BOOLEAN
    /\ sflag \in Reminders \cup {-1} /\ ssent \in [Notes -> Nat]
    /\ \A d \in Notes :
          /\ ssent[d] <= IF kept = -1 /\ d = 1 THEN 2 ELSE 1
          /\ ssent[d] > 0 /\ idle >= 0 => d <= idle /\ (Past(idle, d) => sflag = d)
    /\ ssent = None => sflag = kept
    /\ ssent # None => sflag \in Reminders /\ ssent[sflag] > 0
    /\ sflag = -1 => idle <= 0 \/ (idle = 1 /\ ~monitored)
    /\ ToldSuspended

LEMMA NonePast == ASSUME NEW n \in Int, n <= 0, NEW d PROVE ~Past(n, d)
  BY NoteSets, SMT DEF Past

\* A suspension begins.
LEMMA RemindBegins ==
    ASSUME RemindInv, idle' = 0, kept' = sflag, ssent' = None, sflag' = sflag,
           monitored' \in BOOLEAN
    PROVE  RemindInv'
  <1>1. idle' \in Int /\ idle' >= -1 /\ idle' <= 0
    BY SMT
  <1>2. \A d \in Notes : ssent'[d] = 0
    BY NoteSets
  <1>3. ToldSuspended'
    BY <1>1, NonePast DEF ToldSuspended
  <1>4. \A d \in Notes :
          /\ ssent'[d] <= IF kept' = -1 /\ d = 1 THEN 2 ELSE 1
          /\ ~(ssent'[d] > 0)
    BY <1>2, SMT
  <1>5. ssent' \in [Notes -> Nat] /\ sflag \in Reminders \cup {-1}
    BY NoteSets DEF RemindInv
  <1> QED BY <1>1, <1>3, <1>4, <1>5 DEF RemindInv

\* The group is not suspended.
LEMMA RemindRests ==
    ASSUME RemindInv, UNCHANGED <<ssent, sflag, kept>>, idle' = -1, monitored' \in BOOLEAN
    PROVE  RemindInv'
  <1>1. idle' \in Int /\ idle' >= -1 /\ idle' <= 0 /\ ~(idle' >= 0)
    BY SMT
  <1>2. ToldSuspended'
    BY <1>1 DEF ToldSuspended
  <1> QED BY <1>1, <1>2 DEF RemindInv

\* A day goes by.
LEMMA RemindPasses ==
    ASSUME RemindInv, UNCHANGED <<ssent, sflag, kept>>, idle' = idle + 1, idle >= 0,
           monitored, ~monitored', monitored' \in BOOLEAN
    PROVE  RemindInv'
  <1>1. idle \in Int /\ idle' \in Int /\ idle' >= -1 /\ idle' >= 0 /\ idle <= idle'
    BY SMT DEF RemindInv
  <1>2. ASSUME NEW d \in Notes, ssent[d] > 0
        PROVE  d <= idle' /\ (Past(idle', d) => sflag = d)
    <2>1. d \in Int /\ d <= idle /\ \A e \in Reminders : e \in Int
      BY <1>1, <1>2, NoteSets DEF RemindInv
    <2>2. \A e \in Reminders : e <= idle => e <= idle'
      BY <1>1, <2>1, SMT
    <2>3. Past(idle', d) => Past(idle, d)
      BY <2>1, <2>2 DEF Past
    <2>4. Past(idle, d) => sflag = d
      BY <1>1, <1>2 DEF RemindInv
    <2> QED BY <1>1, <2>1, <2>3, <2>4, SMT
  <1>3. sflag = -1 => idle' <= 0 \/ idle' = 1
    <2>1. sflag = -1 => idle <= 0
      BY DEF RemindInv
    <2> QED BY <1>1, <2>1, SMT
  <1>4. ToldSuspended'
    BY DEF ToldSuspended
  <1> QED BY <1>1, <1>2, <1>3, <1>4 DEF RemindInv

\* A round of a suspended group.
LEMMA RemindRound ==
    ASSUME RemindInv, UNCHANGED <<idle, kept>>, idle >= 0, monitored' = TRUE,
           Notices!SuspendEvent
    PROVE  RemindInv'
  <1> DEFINE b == Notices!Max(Notices!Behind)
  <1>1. idle \in Int /\ idle >= 0
    BY DEF RemindInv
  <1>2. CASE Notices!Behind = {} \/ b = sflag
    <2>1. UNCHANGED <<sflag, ssent>>
      BY <1>2 DEF Notices!SuspendEvent
    <2>2. \A d : Past(idle, d) => d = sflag
      BY <1>1, <1>2, BehindPast
    <2>3. \A d : Past(idle, d) /\ d # kept => ssent[d] > 0
      BY <2>2 DEF RemindInv
    <2>4. ToldSuspended'
      BY <2>1, <2>3 DEF ToldSuspended
    <2>5. sflag = -1 => idle <= 0
      <3> SUFFICES ASSUME sflag = -1, idle = 1 PROVE FALSE
        BY DEF RemindInv
      <3>1. Past(idle, 1)
        BY NoteSets, SMT DEF Past
      <3>2. sflag = 1
        BY <2>2, <3>1
      <3> QED BY <3>2, SMT
    <2> QED BY <2>1, <2>4, <2>5 DEF RemindInv
  <1>3. CASE ~(Notices!Behind = {} \/ b = sflag)
    <2>1. /\ sflag' = b
          /\ ssent' = [ssent EXCEPT ![b] = @ + IF sflag = -1 THEN 2 ELSE 1]
      BY <1>3 DEF Notices!SuspendEvent
    <2>2. Past(idle, b) /\ \A d : Past(idle, d) => d = b
      BY <1>1, <1>3, BehindPast
    <2>3. b # sflag
      BY <1>3
    <2> HIDE DEF b
    <2>4. b \in Reminders /\ b \in Notes /\ b <= idle /\ b \in Nat /\ b # -1 /\ b # 0
      <3>1. b \in Reminders /\ b <= idle
        BY <2>2 DEF Past
      <3> QED BY <3>1, NoteSets, SMT
    <2>5. ssent \in [Notes -> Nat] /\ ssent[b] = 0
      <3>1. ssent \in [Notes -> Nat] /\ ~(ssent[b] > 0)
        BY <1>1, <2>2, <2>3, <2>4 DEF RemindInv
      <3> QED BY <2>4, <3>1, SMT
    <2>6. /\ ssent' \in [Notes -> Nat]
          /\ ssent'[b] = IF sflag = -1 THEN 2 ELSE 1
          /\ \A d \in Notes : d # b => ssent'[d] = ssent[d]
      BY <2>1, <2>4, <2>5, SMT
    <2>7. sflag = -1 => b = 1 /\ kept = -1
      <3> SUFFICES ASSUME sflag = -1 PROVE b = 1 /\ kept = -1
        OBVIOUS
      <3>1. ssent = None /\ idle <= 1
        <4>1. -1 \notin Reminders
          BY NoteSets, SMT
        <4>2. idle <= 0 \/ idle = 1
          BY DEF RemindInv
        <4> QED BY <4>1, <4>2, <1>1, SMT DEF RemindInv
      <3>2. kept = -1
        BY <3>1 DEF RemindInv
      <3> QED BY <1>1, <2>4, <3>1, <3>2, SMT
    <2>8. ASSUME NEW d \in Notes
          PROVE  /\ ssent'[d] <= IF kept = -1 /\ d = 1 THEN 2 ELSE 1
                 /\ ssent'[d] > 0 => d <= idle /\ (Past(idle, d) => b = d)
      <3>1. CASE d = b
        BY <2>4, <2>6, <2>7, <3>1, SMT
      <3>2. CASE d # b
        BY <1>1, <2>2, <2>6, <3>2 DEF RemindInv
      <3> QED BY <3>1, <3>2
    <2>9. ssent'[b] > 0 /\ ssent' # None
      <3>1. ssent'[b] > 0 /\ None[b] = 0 /\ ~(0 > 0)
        BY <2>4, <2>6, NoteSets, SMT
      <3> QED BY <3>1
    <2>10. ToldSuspended'
      BY <2>2, <2>9 DEF ToldSuspended
    <2> QED BY <1>1, <2>1, <2>4, <2>6, <2>8, <2>9, <2>10 DEF RemindInv
  <1> QED BY <1>2, <1>3

\* The invariant of the notices.
NoticesInv == PaidInv /\ RemindInv

LEMMA NoticesStart == ASSUME Notices!Init PROVE NoticesInv
  <1>1. /\ period \in Nat \ {0} /\ left = period /\ idle = -1 /\ flag = -1 /\ sflag = -1
        /\ monitored = FALSE /\ sent = None /\ ssent = None /\ opening = -1
        /\ former = -1 /\ kept = -1
    BY ComputationsAssumption DEF Notices!Init, None
  <1>2. PaidInv
    <2>1. Ledger(left, sent, flag, opening)
      BY <1>1, LedgerOpens
    <2>2. Pending
      <3>1. \A e \in Notes : e \in Int
        BY NoteSets
      <3> QED BY <1>1, <3>1, SMT DEF Pending
    <2>3. ToldPaid
      BY <1>1 DEF ToldPaid
    <2>4. idle \in Int /\ left \in Nat
      BY <1>1, SMT
    <2> QED BY <1>1, <2>1, <2>2, <2>3, <2>4 DEF PaidInv
  <1>3. RemindInv
    <2>1. idle \in Int /\ idle >= -1 /\ idle <= 0 /\ ~(idle >= 0)
      BY <1>1, SMT
    <2>2. \A d \in Notes : ssent[d] = 0
      BY <1>1, NoteSets
    <2>3. \A d \in Notes :
             /\ ssent[d] <= IF kept = -1 /\ d = 1 THEN 2 ELSE 1
             /\ ~(ssent[d] > 0)
      BY <2>2, SMT
    <2>4. ToldSuspended
      BY <1>1 DEF ToldSuspended
    <2>5. ssent \in [Notes -> Nat]
      BY <1>1, NoteSets
    <2> QED BY <1>1, <2>1, <2>3, <2>4, <2>5 DEF RemindInv
  <1> QED BY <1>2, <1>3 DEF NoticesInv

LEMMA NoticesStep == ASSUME NoticesInv, [Notices!Next]_(Notices!vars) PROVE NoticesInv'
  <1>1. /\ PaidInv /\ RemindInv /\ left \in Nat /\ idle \in Int /\ idle >= -1
        /\ period \in Nat \ {0} /\ monitored \in BOOLEAN
    BY DEF NoticesInv, PaidInv, RemindInv
  <1>2. Notices!Suspended <=> idle >= 0
    BY DEF Notices!Suspended
  <1>3. CASE Notices!Round
    <2>1. /\ idle < 0 /\ idle = -1 /\ monitored' = TRUE
          /\ UNCHANGED <<period, idle, sflag, ssent, kept>>
      BY <1>1, <1>2, <1>3, SMT DEF Notices!Round, Notices!after
    <2>2. RemindInv'
      BY <1>1, <2>1, RemindRests
    <2>3. CASE left > 0 /\ Notices!BillingEvent(left, sent, opening) /\ UNCHANGED <<left, former>>
      BY <1>1, <2>1, <2>2, <2>3, BilledLater DEF NoticesInv
    <2>4. CASE left' = period /\ former' = flag /\ Notices!BillingEvent(period, None, -1)
      BY <1>1, <2>1, <2>2, <2>4, BilledPeriod DEF NoticesInv
    <2>5. CASE left = 0 /\ UNCHANGED <<left, flag, sent, opening, former>>
      <3>1. left' = 0 /\ left' <= left
        BY <1>1, <2>5, SMT
      <3>2. PaidInv'
        BY <1>1, <2>1, <2>5, <3>1, PaidPasses
      <3> QED BY <2>2, <3>2 DEF NoticesInv
    <2> QED BY <1>3, <2>3, <2>4, <2>5 DEF Notices!Round, Notices!before, None
  <1>4. CASE Notices!Suspend
    <2>1. /\ idle' = 0 /\ kept' = sflag /\ ssent' = None /\ sflag' = sflag /\ monitored' = TRUE
          /\ left' = period /\ former' = flag /\ Notices!BillingEvent(period, None, -1)
          /\ period' = period
      BY <1>4 DEF Notices!Suspend, None
    <2>2. idle' \in Int
      BY <2>1, SMT
    <2> QED BY <1>1, <2>1, <2>2, RemindBegins, BilledPeriod DEF NoticesInv
  <1>5. CASE Notices!SuspendedRound
    <2>1. /\ idle >= 0 /\ monitored' = TRUE /\ left' = 0 /\ Notices!SuspendEvent
          /\ UNCHANGED <<period, idle, flag, sent, opening, former, kept>>
      BY <1>2, <1>5 DEF Notices!SuspendedRound, Notices!before
    <2>2. left' \in Nat /\ left' <= left /\ ~(idle' < 0) /\ idle' \in Int
      BY <1>1, <2>1, SMT
    <2>3. PaidInv'
      BY <1>1, <2>1, <2>2, PaidPasses
    <2> QED BY <1>1, <2>1, <2>3, RemindRound DEF NoticesInv
  <1>6. CASE Notices!Resume
    <2>1. /\ idle' = -1 /\ left' = period /\ sent' = None /\ opening' = -1 /\ former' = flag
          /\ UNCHANGED <<period, flag, sflag, ssent, kept, monitored>>
      BY <1>6 DEF Notices!Resume, None
    <2>2. left' \in Nat /\ period <= left' /\ idle' \in Int /\ monitored' \in BOOLEAN
      BY <1>1, <2>1, SMT
    <2> QED BY <1>1, <2>1, <2>2, FreshPeriod, RemindRests DEF NoticesInv
  <1>7. CASE Notices!RenewEarly
    <2>1. /\ idle = -1 /\ left' = left + period /\ sent' = None /\ opening' = -1
          /\ former' = flag /\ monitored' = FALSE
          /\ UNCHANGED <<period, flag, idle, sflag, ssent, kept>>
      BY <1>1, <1>2, <1>7, SMT DEF Notices!RenewEarly, Notices!after, None
    <2>2. left' \in Nat /\ period <= left' /\ idle' \in Int
      BY <1>1, <2>1, SMT
    <2> QED BY <1>1, <2>1, <2>2, FreshPeriod, RemindRests DEF NoticesInv
  <1>8. CASE Notices!Tick
    <2>1. /\ monitored /\ monitored' = FALSE
          /\ left' = Notices!Max({left - 1, 0})
          /\ idle' = IF idle >= 0 THEN idle + 1 ELSE idle
          /\ UNCHANGED <<period, flag, sent, opening, former, sflag, ssent, kept>>
      BY <1>2, <1>8 DEF Notices!Tick, Notices!before
    <2>2. Notices!Max({left - 1, 0}) = IF left = 0 THEN 0 ELSE left - 1
      <3>1. {left - 1, 0} \subseteq Int
        BY <1>1, SMT
      <3>2. CASE left = 0
        <4>1. \A y \in {left - 1, 0} : y <= 0
          BY <3>2, SMT
        <4> QED BY <3>1, <3>2, <4>1, MaxIs
      <3>3. CASE left # 0
        <4>1. \A y \in {left - 1, 0} : y <= left - 1
          BY <1>1, <3>3, SMT
        <4> QED BY <3>1, <3>3, <4>1, MaxIs
      <3> QED BY <3>2, <3>3
    <2>3. /\ left' \in Nat /\ left' <= left /\ left - 1 <= left'
          /\ idle' \in Int /\ (idle' < 0 => idle < 0)
      BY <1>1, <2>1, <2>2, SMT
    <2>4. PaidInv'
      BY <1>1, <2>1, <2>3, PaidPasses
    <2>5. RemindInv'
      <3>1. CASE idle >= 0
        BY <1>1, <2>1, <3>1, RemindPasses
      <3>2. CASE ~(idle >= 0)
        <4>1. idle' = -1
          BY <1>1, <2>1, <3>2, SMT
        <4> QED BY <1>1, <2>1, <4>1, RemindRests
      <3> QED BY <3>1, <3>2
    <2> QED BY <2>4, <2>5 DEF NoticesInv
  <1>9. CASE UNCHANGED Notices!vars
    BY <1>9 DEF Notices!vars, Notices!before, Notices!after, NoticesInv, PaidInv, Pending,
                ToldPaid, RemindInv, ToldSuspended
  <1> QED BY <1>3, <1>4, <1>5, <1>6, <1>7, <1>8, <1>9 DEF Notices!Next

LEMMA NoticesSteps == SpecTask => []NoticesInv
  <1>1. InitTask => NoticesInv
    BY NoticesStart DEF InitTask
  <1>2. NoticesInv /\ [NextTask]_<<task, vars, months, meter, notices>> => NoticesInv'
    <2> SUFFICES ASSUME NoticesInv, [NextTask]_<<task, vars, months, meter, notices>>
                 PROVE  NoticesInv'
      OBVIOUS
    <2>1. CASE Notices!Next
      BY <2>1, NoticesStep
    <2>2. CASE UNCHANGED notices
      <3>1. UNCHANGED Notices!vars
        BY <2>2 DEF notices, Notices!vars, Notices!before, Notices!after
      <3> QED BY <3>1, NoticesStep
    <2> QED BY <2>1, <2>2 DEF NextTask
  <1> QED BY <1>1, <1>2, PTL DEF SpecTask

\* For a period of any length: no notice is repeated, but for the first of its
\* kind that the instance ever gets.
THEOREM NoticesOnce == SpecTask => []NoticeOnce
  <1>1. NoticesInv => NoticeOnce
    <2>1. Notices!Min(Reminders) = 1
      <3>1. Reminders \subseteq Int /\ 1 \in Reminders /\ \A y \in Reminders : 1 <= y
        BY NoteSets, SMT
      <3> QED BY <3>1, MinIs
    <2>2. NoticesInv => \A d \in Notes :
             /\ sent[d] <= IF d = opening THEN 2 ELSE 1
             /\ ssent[d] <= IF kept = -1 /\ d = 1 THEN 2 ELSE 1
      BY DEF NoticesInv, PaidInv, RemindInv, Ledger
    <2> QED BY <2>1, <2>2 DEF NoticeOnce, Notices!NoticeOnce, Notes, Reminders
  <1> QED BY <1>1, NoticesSteps, PTL

\* For a period of any length: after each round the customer was told in this
\* period, or this suspension, but for the two cases that Told names.
THEOREM CustomersTold == SpecTask => []Told
  <1>1. NoticesInv => Told
    <2> SUFFICES ASSUME NoticesInv, monitored PROVE Notices!Told
      BY DEF Told, Notices!Told
    <2>1. /\ PaidInv /\ RemindInv /\ left \in Int /\ idle \in Int
          /\ (Notices!Suspended <=> idle >= 0) /\ (idle < 0 <=> ~(idle >= 0))
      <3>1. PaidInv /\ RemindInv /\ left \in Nat /\ idle \in Int
        BY DEF NoticesInv, PaidInv
      <3> QED BY <3>1, SMT DEF Notices!Suspended
    <2>2. ASSUME NEW d \in Notes, ~Notices!Suspended, left > 0, d < period,
                 Notices!Ahead(left) # {}, d = Notices!Min(Notices!Ahead(left))
          PROVE  \/ sent[d] > 0
                 \/ d = former /\ ~\E e \in Notes : d < e /\ e < period
      <3>1. Due(left, d)
        BY <2>1, <2>2, AheadDue
      <3> QED BY <2>1, <2>2, <3>1 DEF PaidInv, ToldPaid
    <2>3. ASSUME Notices!Suspended, Notices!Behind # {},
                 Notices!Max(Notices!Behind) # kept
          PROVE  ssent[Notices!Max(Notices!Behind)] > 0
      <3>1. Past(idle, Notices!Max(Notices!Behind))
        BY <2>1, <2>3, BehindPast
      <3> QED BY <2>1, <2>3, <3>1 DEF RemindInv, ToldSuspended
    <2> QED BY <2>2, <2>3 DEF Notices!Told, Notes
  <1> QED BY <1>1, NoticesSteps, PTL

-----------------------------------------------------------------------------
(* The meter.  What a round charges is a sum over its records, and          *)
(* MapThenSumSet is a recursive function on the subsets of a set: that      *)
(* there is one, and what it returns, is shown by induction on their sizes. *)

\* h takes each subset s of S to the sum of w over s.
SumUp(h, w, S) ==
    h = [s \in SUBSET S |->
           IF s = {} THEN 0
           ELSE w[CHOOSE x \in s : TRUE] + h[s \ {CHOOSE x \in s : TRUE}]]

\* The subset without the element that is added first is smaller.
LEMMA Smaller ==
    ASSUME NEW S, IsFiniteSet(S), NEW s \in SUBSET S, s # {}
    PROVE  LET x == CHOOSE x \in s : TRUE
           IN  /\ x \in s /\ s \ {x} \in SUBSET S
               /\ Cardinality(s) \in Nat
               /\ Cardinality(s \ {x}) = Cardinality(s) - 1
  <1>1. IsFiniteSet(s)
    BY FS_Subset
  <1> DEFINE x == CHOOSE y \in s : TRUE
  <1>2. x \in s
    OBVIOUS
  <1> HIDE DEF x
  <1>3. Cardinality(s) \in Nat /\ Cardinality(s \ {x}) = Cardinality(s) - 1
    BY <1>1, <1>2, FS_RemoveElement, FS_CardinalityType
  <1> QED BY <1>2, <1>3 DEF x

\* There is such a function: any function becomes right for one size more
\* by one more expansion of the equation.
LEMMA SumExists ==
    ASSUME NEW S, IsFiniteSet(S), NEW w
    PROVE  \E h : SumUp(h, w, S)
  <1> DEFINE c(s) == CHOOSE x \in s : TRUE
             next(h) == [s \in SUBSET S |-> IF s = {} THEN 0 ELSE w[c(s)] + h[s \ {c(s)}]]
             upto(n) == {s \in SUBSET S : Cardinality(s) <= n}
             N == {n \in Nat : \E h : \A s \in upto(n) : h[s] = next(h)[s]}
  <1>1. 0 \in N
    <2>1. \A s \in upto(0) : s = {}
      <3> TAKE s \in upto(0)
      <3>1. IsFiniteSet(s) /\ Cardinality(s) \in Nat
        BY FS_Subset, FS_CardinalityType
      <3> QED BY <3>1, FS_EmptySet, SMT
    <2> DEFINE h == [s \in SUBSET S |-> 0]
    <2>2. \A s \in upto(0) : h[s] = next(h)[s]
      BY <2>1
    <2> QED BY <2>2
  <1>2. ASSUME NEW n \in Nat, n \in N PROVE n + 1 \in N
    <2>1. PICK h : \A s \in upto(n) : h[s] = next(h)[s]
      BY <1>2
    <2> DEFINE k == next(h)
    <2>2. \A s \in upto(n) : k[s] = h[s]
      BY <2>1
    <2>3. ASSUME NEW s \in upto(n + 1) PROVE k[s] = next(k)[s]
      <3>1. CASE s = {}
        BY <3>1
      <3>2. CASE s # {}
        <4>1. s \ {c(s)} \in upto(n)
          BY <3>2, <2>3, Smaller
        <4>2. k[s \ {c(s)}] = h[s \ {c(s)}]
          BY <4>1, <2>2
        <4> QED BY <3>2, <4>2
      <3> QED BY <3>1, <3>2
    <2> HIDE DEF k, next, upto
    <2>4. \E g : \A s \in upto(n + 1) : g[s] = next(g)[s]
      BY <2>3
    <2> QED BY <2>4
  <1>3. Cardinality(S) \in N
    <2> HIDE DEF N
    <2>1. Nat \subseteq N
      BY <1>1, <1>2, Induct
    <2> QED BY <2>1, FS_CardinalityType
  <1>4. PICK h : \A s \in upto(Cardinality(S)) : h[s] = next(h)[s]
    BY <1>3
  <1>5. upto(Cardinality(S)) = SUBSET S
    BY FS_Subset
  <1>6. \A s \in SUBSET S : h[s] = next(h)[s]
    BY <1>4, <1>5
  <1> DEFINE k == [s \in SUBSET S |-> h[s]]
  <1>7. k = next(k)
    <2>1. \A s \in SUBSET S : s # {} => s \ {c(s)} \in SUBSET S
      OBVIOUS
    <2>2. \A s \in SUBSET S : k[s] = next(k)[s]
      BY <1>6, <2>1
    <2> QED BY <2>2
  <1> QED BY <1>7 DEF SumUp

Together(span, S)          == UNION {span[r] : r \in S}
EachOwn(span, S)           == \A r, s \in S : r # s => span[r] \cap span[s] = {}
AtMost(w, p, a, span, S)   == \A r \in S : w[r] * p <= a * Cardinality(span[r])
Exactly(w, p, a, span, S)  == \A r \in S : w[r] * p = a * Cardinality(span[r])

\* The charges w of records, each for times of its own, at the price a of p:
\* what their times are charged together.
LEMMA SumDisjoint ==
    ASSUME NEW S, IsFiniteSet(S), NEW T, IsFiniteSet(T), NEW w \in [S -> Nat],
           NEW span \in [S -> SUBSET T], NEW p \in Nat, NEW a \in Nat, NEW h,
           SumUp(h, w, S), EachOwn(span, S), AtMost(w, p, a, span, S)
    PROVE  /\ h[S] \in Nat
           /\ h[S] * p <= a * Cardinality(Together(span, S))
           /\ Exactly(w, p, a, span, S) => h[S] * p = a * Cardinality(Together(span, S))
  <1> USE DEF Together, EachOwn, AtMost, Exactly
  <1> DEFINE c(s) == CHOOSE x \in s : TRUE
             all(s) == UNION {span[r] : r \in s}
             even == \A r \in S : w[r] * p = a * Cardinality(span[r])
             Good == {s \in SUBSET S : /\ h[s] \in Nat
                                       /\ h[s] * p <= a * Cardinality(all(s))
                                       /\ even => h[s] * p = a * Cardinality(all(s))}
             N == {n \in Nat : \A s \in SUBSET S : Cardinality(s) <= n => s \in Good}
  <1>1. \A s \in SUBSET S : h[s] = IF s = {} THEN 0 ELSE w[c(s)] + h[s \ {c(s)}]
    BY DEF SumUp
  <1>2. ASSUME NEW s \in SUBSET S, s = {} PROVE s \in Good
    <2>1. h[s] = 0
      BY <1>1, <1>2, Zenon
    <2>2. all(s) = {} /\ Cardinality(all(s)) = 0
      BY <1>2, FS_EmptySet
    <2>3. 0 * p = 0 /\ a * 0 = 0
      BY SMT
    <2>4. /\ h[s] \in Nat /\ h[s] * p <= a * Cardinality(all(s))
          /\ h[s] * p = a * Cardinality(all(s))
      <3> HIDE DEF all
      <3> QED BY <2>1, <2>2, <2>3, SMT
    <2> HIDE DEF all, even
    <2> QED BY <2>4
  <1>3. 0 \in N
    <2> SUFFICES ASSUME NEW s \in SUBSET S, Cardinality(s) <= 0 PROVE s \in Good
      OBVIOUS
    <2>1. IsFiniteSet(s) /\ Cardinality(s) \in Nat
      BY FS_Subset, FS_CardinalityType
    <2>2. s = {}
      BY <2>1, FS_EmptySet, SMT
    <2> HIDE DEF Good
    <2> QED BY <1>2, <2>2
  <1>4. ASSUME NEW n \in Nat, n \in N PROVE n + 1 \in N
    <2> SUFFICES ASSUME NEW s \in SUBSET S, Cardinality(s) <= n + 1, s # {}
                 PROVE  s \in Good
      <3> HIDE DEF Good
      <3> QED BY <1>2
    <2> DEFINE x == c(s)
               t == s \ {x}
    <2>1. x \in S /\ x \in s /\ t \in SUBSET S /\ Cardinality(t) <= n
      <3>1. x \in s /\ t \in SUBSET S /\ Cardinality(s) \in Nat /\ Cardinality(t) = Cardinality(s) - 1
        BY Smaller
      <3> HIDE DEF x, t
      <3> QED BY <3>1, SMT
    <2>2. t \in Good
      <3> HIDE DEF Good, x, t
      <3> QED BY <1>4, <2>1
    <2>3. h[s] = w[x] + h[t]
      BY <1>1, Zenon
    <2> HIDE DEF x, c
    <2>4. all(s) = span[x] \cup all(t) /\ span[x] \cap all(t) = {} /\ all(t) \subseteq T
          /\ span[x] \subseteq T
      BY <2>1
    <2>5. /\ IsFiniteSet(span[x]) /\ IsFiniteSet(all(t))
          /\ Cardinality(span[x]) \in Nat /\ Cardinality(all(t)) \in Nat
      <3> HIDE DEF all
      <3> QED BY <2>4, FS_Subset, FS_CardinalityType
    <2>6. Cardinality(all(s)) = Cardinality(span[x]) + Cardinality(all(t))
      <3> HIDE DEF all
      <3>1. Cardinality(span[x] \cup all(t))
              = Cardinality(span[x]) + Cardinality(all(t)) - Cardinality(span[x] \cap all(t))
        BY <2>5, FS_Union
      <3>2. Cardinality(span[x] \cap all(t)) = 0
        BY <2>4, FS_EmptySet
      <3> QED BY <2>4, <2>5, <3>1, <3>2, SMT
    <2> DEFINE wx == w[x]
               ht == h[t]
               cx == Cardinality(span[x])
               ct == Cardinality(all(t))
    <2>7. /\ wx \in Nat /\ ht \in Nat /\ cx \in Nat /\ ct \in Nat
          /\ wx * p <= a * cx /\ ht * p <= a * ct
          /\ even => wx * p = a * cx /\ ht * p = a * ct
      BY <2>1, <2>2, <2>5
    <2> HIDE DEF wx, ht, cx, ct, even
    <2>8. /\ (wx + ht) * p = wx * p + ht * p /\ a * (cx + ct) = a * cx + a * ct
          /\ wx * p \in Nat /\ ht * p \in Nat /\ a * cx \in Nat /\ a * ct \in Nat
      BY <2>7, Z3
    <2>9. /\ wx + ht \in Nat /\ (wx + ht) * p <= a * (cx + ct)
          /\ even => (wx + ht) * p = a * (cx + ct)
      BY <2>7, <2>8, SMT
    <2>10. h[s] = wx + ht /\ Cardinality(all(s)) = cx + ct
      BY <2>3, <2>6 DEF wx, ht, cx, ct
    <2> HIDE DEF all
    <2> QED BY <2>9, <2>10
  <1> HIDE DEF N, Good
  <1>5. Nat \subseteq N
    BY <1>3, <1>4, Induct
  <1>6. Cardinality(S) \in Nat /\ Cardinality(S) <= Cardinality(S)
    BY FS_CardinalityType, SMT
  <1>7. S \in Good
    BY <1>5, <1>6 DEF N
  <1> QED BY <1>7 DEF Good

-----------------------------------------------------------------------------
(* The stretches of a VM and their slices.                                 *)

Billed(state) == (state \in On) # Except

HistoryRecord == [rstime : Nat \ {0}, retime : Nat, etime : Nat, action : {0, 9, 20}]

\* The history h of a VM at time n: its records follow one another, and
\* only the last may go on.
HistInv(h, n) ==
    /\ n \in Nat \ {0} /\ h \in Seq(HistoryRecord) /\ Len(h) >= 1
    /\ h[1].rstime = 1
    /\ \A i \in 1 .. Len(h) :
          /\ h[i].retime = 0 <=> h[i].action = 0
          /\ h[i].retime = 0 => i = Len(h)
          /\ h[i].etime = 0 <=> i = Len(h)
          /\ h[i].rstime <= n /\ h[i].retime <= n /\ h[i].etime <= n
          /\ h[i].retime # 0 => h[i].rstime <= h[i].retime
          /\ h[i].etime # 0 => h[i].retime <= h[i].etime
    /\ \A i, j \in 1 .. Len(h) : i < j => h[i].etime <= h[j].rstime

Stretches == [start : Nat \ {0}, end : Nat, state : {"RUNNING", "SUSPENDED", "STOPPED"}]

Timeline(h) == UNION {Meter!MakeTimelineRecords(h[i]) : i \in DOMAIN h}

Ran(r)    == Meter!Stretch(r.rstime, r.retime, "RUNNING")
Rested(r) == Meter!Stretch(r.retime, r.etime, Meter!StateAfter(r.action))

\* A VM at rest has two stretches per record, a running one has one less.
LEMMA TimelineIs ==
    ASSUME NEW h, NEW n, HistInv(h, n)
    PROVE  /\ \A i \in 1 .. Len(h) :
                /\ Ran(h[i]) \in Timeline(h) /\ Ran(h[i]) \in Stretches
                /\ h[i].retime # 0 => Rested(h[i]) \in Timeline(h) /\ Rested(h[i]) \in Stretches
           /\ \A s \in Timeline(h) : \E i \in 1 .. Len(h) :
                s = Ran(h[i]) \/ (h[i].retime # 0 /\ s = Rested(h[i]))
  <1>1. DOMAIN h = 1 .. Len(h)
    BY SMT DEF HistInv
  <1>2. ASSUME NEW i \in 1 .. Len(h)
        PROVE  /\ Meter!MakeTimelineRecords(h[i])
                    = {Ran(h[i])} \cup (IF h[i].retime # 0 THEN {Rested(h[i])} ELSE {})
               /\ Ran(h[i]) \in Stretches
               /\ h[i].retime # 0 => Rested(h[i]) \in Stretches
    <2> DEFINE r == h[i]
    <2>1. r \in HistoryRecord /\ (r.retime = 0 <=> r.action = 0)
      BY SMT DEF HistInv
    <2> HIDE DEF r
    <2>2. /\ r.rstime \in Nat \ {0} /\ r.retime \in Nat /\ r.etime \in Nat
          /\ r.action \in {0, 9, 20}
      BY <2>1 DEF HistoryRecord
    <2>3. r.retime # 0 <=> r.action \in {9, 10, 20, 27, 28}
      BY <2>1, <2>2, SMT
    <2>4. Meter!MakeTimelineRecords(r)
            = {Ran(r)} \cup (IF r.retime # 0 THEN {Rested(r)} ELSE {})
      BY <2>3, Zenon DEF Meter!MakeTimelineRecords, Ran, Rested
    <2>5. Ran(r) \in Stretches
      BY <2>2, SMT DEF Ran, Meter!Stretch, Stretches
    <2>6. r.retime # 0 => Meter!StateAfter(r.action) \in {"SUSPENDED", "STOPPED"}
      <3>1. 9 \in {9, 10} /\ 20 \notin {9, 10} /\ 20 \notin {27, 28} /\ 9 # 20 /\ 9 \notin {27, 28}
        BY SMT
      <3>2. Meter!StateAfter(9) = "SUSPENDED" /\ Meter!StateAfter(20) = "STOPPED"
        BY <3>1, SMT DEF Meter!StateAfter
      <3> QED BY <2>1, <2>2, <3>2
    <2>7. r.retime # 0 => Rested(r) \in Stretches
      <3> DEFINE st == Meter!StateAfter(r.action)
      <3> HIDE DEF st
      <3>1. r.retime # 0 => Meter!Stretch(r.retime, r.etime, st) \in Stretches
        BY <2>2, <2>6, SMT DEF Meter!Stretch, Stretches, st
      <3> QED BY <3>1 DEF Rested, st
    <2> QED BY <2>4, <2>5, <2>7 DEF r
  <1>3. \A s : s \in Timeline(h) <=>
               \E i \in 1 .. Len(h) : s \in Meter!MakeTimelineRecords(h[i])
    BY <1>1 DEF Timeline
  <1>4. ASSUME NEW i \in 1 .. Len(h)
        PROVE  /\ Ran(h[i]) \in Timeline(h)
               /\ h[i].retime # 0 => Rested(h[i]) \in Timeline(h)
    BY <1>2, <1>3
  <1>5. ASSUME NEW s \in Timeline(h)
        PROVE  \E i \in 1 .. Len(h) : s = Ran(h[i]) \/ (h[i].retime # 0 /\ s = Rested(h[i]))
    <2>1. PICK i \in 1 .. Len(h) : s \in Meter!MakeTimelineRecords(h[i])
      BY <1>3
    <2> QED BY <1>2, <2>1
  <1> QED BY <1>2, <1>4, <1>5

\* A stretch covers the times from its start until its end, if it has one.
Covers(s, t) == s.start <= t /\ (s.end = 0 \/ t < s.end)

\* No two stretches cover a time; none ends before it starts.
LEMMA Apart ==
    ASSUME NEW h, NEW n, HistInv(h, n)
    PROVE  /\ \A s \in Timeline(h) :
                /\ s \in Stretches /\ s.start <= n /\ s.end <= n
                /\ s.end # 0 => s.start <= s.end
           /\ \A s, u \in Timeline(h), t \in Nat : Covers(s, t) /\ Covers(u, t) => s = u
  <1>1. ASSUME NEW i \in 1 .. Len(h)
        PROVE  /\ Ran(h[i]).start = h[i].rstime /\ Ran(h[i]).end = h[i].retime
               /\ Rested(h[i]).start = h[i].retime /\ Rested(h[i]).end = h[i].etime
    BY DEF Ran, Rested, Meter!Stretch
  <1>2. ASSUME NEW i \in 1 .. Len(h)
        PROVE  /\ h[i].rstime \in Nat \ {0} /\ h[i].retime \in Nat /\ h[i].etime \in Nat
               /\ h[i].retime = 0 => i = Len(h)
               /\ h[i].etime = 0 <=> i = Len(h)
               /\ h[i].rstime <= n /\ h[i].retime <= n /\ h[i].etime <= n
               /\ h[i].retime # 0 => h[i].rstime <= h[i].retime
               /\ h[i].etime # 0 => h[i].retime <= h[i].etime
               /\ \A j \in 1 .. Len(h) : i < j => h[i].etime <= h[j].rstime
    <2>1. h[i] \in HistoryRecord
      BY SMT DEF HistInv
    <2>2. h[i].rstime \in Nat \ {0} /\ h[i].retime \in Nat /\ h[i].etime \in Nat
      BY <2>1 DEF HistoryRecord
    <2> QED BY <2>2 DEF HistInv
  <1>3. n \in Nat /\ Len(h) \in Nat
    BY SMT DEF HistInv
  <1>4. ASSUME NEW s \in Timeline(h)
        PROVE  /\ s \in Stretches /\ s.start <= n /\ s.end <= n
               /\ s.end # 0 => s.start <= s.end
    <2>1. PICK i \in 1 .. Len(h) : s = Ran(h[i]) \/ (h[i].retime # 0 /\ s = Rested(h[i]))
      BY TimelineIs
    <2> QED BY <1>1, <1>2, <2>1, TimelineIs
  <1>5. ASSUME NEW i \in 1 .. Len(h), NEW j \in 1 .. Len(h), NEW t \in Nat,
               NEW s, NEW u, i < j, Covers(s, t), Covers(u, t),
               s = Ran(h[i]) \/ (h[i].retime # 0 /\ s = Rested(h[i])),
               u = Ran(h[j]) \/ (h[j].retime # 0 /\ u = Rested(h[j]))
        PROVE  FALSE
    <2>1. s.end # 0 /\ s.end <= h[i].etime /\ s.end \in Nat
      BY <1>1, <1>2, <1>3, <1>5, SMT
    <2>2. h[j].rstime <= u.start /\ u.start \in Nat
      BY <1>1, <1>2, <1>3, <1>5, SMT
    <2>3. t < s.end /\ u.start <= t
      BY <1>5, <2>1 DEF Covers
    <2>4. h[i].etime <= h[j].rstime
      BY <1>2, <1>5
    <2> QED BY <1>2, <2>1, <2>2, <2>3, <2>4, SMT
  <1>6. ASSUME NEW s \in Timeline(h), NEW u \in Timeline(h), NEW t \in Nat,
               Covers(s, t), Covers(u, t)
        PROVE  s = u
    <2>1. PICK i \in 1 .. Len(h) : s = Ran(h[i]) \/ (h[i].retime # 0 /\ s = Rested(h[i]))
      BY TimelineIs
    <2>2. PICK j \in 1 .. Len(h) : u = Ran(h[j]) \/ (h[j].retime # 0 /\ u = Rested(h[j]))
      BY TimelineIs
    <2>3. ~(i < j) /\ ~(j < i)
      BY <1>5, <1>6, <2>1, <2>2
    <2>4. i = j
      BY <2>3, SMT
    <2>5. h[i].retime # 0 => ~(Covers(Ran(h[i]), t) /\ Covers(Rested(h[i]), t))
      BY <1>1, <1>2, SMT DEF Covers
    <2> QED BY <1>6, <2>1, <2>2, <2>4, <2>5
  <1> QED BY <1>4, <1>6

\* The end of a stretch as of time n.
Till(s, n) == IF s.end = 0 THEN n ELSE s.end

CutTo(s, a, b) ==
    [start |-> IF s.start < a THEN a ELSE s.start,
     end   |-> IF Till(s, b) > b THEN b ELSE Till(s, b), state |-> s.state]

Meets(s, a, b) == ~(Till(s, b) < a \/ s.start > b)

LEMMA BothEnds ==
    ASSUME NEW c, NEW st, NEW w, NEW sa, NEW x, NEW y,
           c = [start |-> st, end |-> w, state |-> sa]
    PROVE  [c EXCEPT !.start = x, !.end = y] = [start |-> x, end |-> y, state |-> sa]
  <1> DEFINE d == [c EXCEPT !.start = x]
  <1>1. d = [start |-> x, end |-> w, state |-> sa]
    BY SMT
  <1>2. [c EXCEPT !.start = x, !.end = y] = [d EXCEPT !.end = y]
    OBVIOUS
  <1> HIDE DEF d
  <1>3. [d EXCEPT !.end = y] = [start |-> x, end |-> y, state |-> sa]
    BY <1>1, SMT
  <1> QED BY <1>2, <1>3

\* What FilterTimeline keeps and how it cuts it.
LEMMA FilterIs ==
    ASSUME NEW tl \in SUBSET Stretches, NEW a \in Nat \ {0}, NEW b \in Nat \ {0}
    PROVE  /\ Meter!FilterTimeline(tl, a, b)
                = {CutTo(s, a, b) : s \in {s \in tl : Meets(s, a, b)}}
           /\ \A s \in tl : Meets(s, a, b) =>
                CutTo(s, a, b) \in Stretches /\ CutTo(s, a, b).end # 0
  <1> DEFINE close(r)   == [r EXCEPT !.end = IF @ = 0 THEN b ELSE @]
             cut(r)     == [r EXCEPT !.start = IF @ < a THEN a ELSE @,
                                     !.end   = IF @ > b THEN b ELSE @]
             begun      == {r \in tl : r.end # 0 \/ r.start # 0}
             closed     == {close(r) : r \in begun}
             inside     == {r \in closed : ~(r.end < a \/ r.start > b)}
  <1>1. Meter!FilterTimeline(tl, a, b) = {cut(r) : r \in inside}
    BY DEF Meter!FilterTimeline
  <1>2. begun = tl
    <2>1. \A s \in tl : s.start # 0
      BY SMT DEF Stretches
    <2> QED BY <2>1
  <1>3. ASSUME NEW s \in tl
        PROVE  /\ close(s).end = Till(s, b) /\ close(s).start = s.start
               /\ cut(close(s)) = CutTo(s, a, b)
    <2> DEFINE st == s.start
               en == s.end
               sa == s.state
               w  == Till(s, b)
    <2>1. s = [start |-> st, end |-> en, state |-> sa]
      BY SMT DEF Stretches
    <2>2. close(s) = [start |-> st, end |-> w, state |-> sa]
      <3>1. close(s) = [s EXCEPT !.end = w]
        BY DEF Till
      <3> HIDE DEF st, en, sa, w, close
      <3> QED BY <2>1, <3>1, SMT
    <2> DEFINE c == close(s)
    <2> DEFINE x == IF c.start < a THEN a ELSE c.start
               y == IF c.end > b THEN b ELSE c.end
    <2>3. cut(c) = [c EXCEPT !.start = x, !.end = y]
      <3> HIDE DEF c
      <3> QED OBVIOUS
    <2>4. c = [start |-> st, end |-> w, state |-> sa]
      BY <2>2
    <2> HIDE DEF c, st, sa, w, cut
    <2>5. cut(c) = [start |-> IF st < a THEN a ELSE st,
                    end   |-> IF w > b THEN b ELSE w, state |-> sa]
      <3>1. x = (IF st < a THEN a ELSE st) /\ y = (IF w > b THEN b ELSE w)
        BY <2>4, Zenon
      <3> HIDE DEF x, y
      <3>2. cut(c) = [start |-> x, end |-> y, state |-> sa]
        BY <2>3, <2>4, BothEnds
      <3> QED BY <3>1, <3>2
    <2>6. c.end = w /\ c.start = st
      BY <2>4, SMT
    <2> QED BY <2>5, <2>6 DEF c, st, sa, w, CutTo
  <1>4. \A s \in tl : ~(close(s).end < a \/ close(s).start > b) <=> Meets(s, a, b)
    BY <1>3 DEF Meets
  <1> HIDE DEF close, cut
  <1>5. {cut(r) : r \in inside} = {CutTo(s, a, b) : s \in {s \in tl : Meets(s, a, b)}}
    BY <1>2, <1>3, <1>4
  <1>6. ASSUME NEW s \in tl, Meets(s, a, b)
        PROVE  CutTo(s, a, b) \in Stretches /\ CutTo(s, a, b).end # 0
    <2>1. /\ s.start \in Nat \ {0} /\ s.end \in Nat
          /\ s.state \in {"RUNNING", "SUSPENDED", "STOPPED"}
      BY SMT DEF Stretches
    <2>2. Till(s, b) \in Nat /\ a <= Till(s, b)
      BY <1>6, <2>1, SMT DEF Meets, Till
    <2> HIDE DEF Till
    <2> QED BY <2>1, <2>2, SMT DEF CutTo, Stretches
  <1> QED BY <1>1, <1>5, <1>6

\* The part of a stretch that a window [a, b] has, as of time n.
Piece(s, a, b, n) ==
    [start |-> IF s.start < a THEN a ELSE s.start,
     end   |-> IF Till(s, n) > b THEN b ELSE Till(s, n), state |-> s.state]

Hit(tl, a, b, n) == {s \in tl : a <= Till(s, n) /\ s.start <= b}

\* A second cut within the first is one from the timeline.
LEMMA FilterTwice ==
    ASSUME NEW tl \in SUBSET Stretches, NEW l \in Nat \ {0}, NEW n \in Nat \ {0},
           NEW a \in Nat \ {0}, NEW b \in Nat \ {0}, l <= a, a <= b, b <= n
    PROVE  Meter!FilterTimeline(Meter!FilterTimeline(tl, l, n), a, b)
             = {Piece(s, a, b, n) : s \in Hit(tl, a, b, n)}
  <1> DEFINE cut(s) == Piece(s, a, b, n)
             in == Hit(tl, a, b, n)
             first1 == {s \in tl : Meets(s, l, n)}
             mid == {CutTo(s, l, n) : s \in first1}
  <1>1. Meter!FilterTimeline(tl, l, n) = mid /\ mid \subseteq Stretches
        /\ \A s \in first1 : CutTo(s, l, n).end # 0
    BY FilterIs
  <1>2. Meter!FilterTimeline(mid, a, b) = {CutTo(c, a, b) : c \in {c \in mid : Meets(c, a, b)}}
    <2>1. mid \in SUBSET Stretches
      BY <1>1
    <2> HIDE DEF mid
    <2> QED BY <2>1, FilterIs
  <1>3. ASSUME NEW s \in tl
        PROVE  /\ Meets(s, l, n) /\ Meets(CutTo(s, l, n), a, b) <=> s \in in
               /\ s \in in => CutTo(CutTo(s, l, n), a, b) = cut(s)
    <2> DEFINE st == s.start
               en == s.end
               sa == s.state
               w  == Till(s, n)
               c  == CutTo(s, l, n)
               cs == IF st < l THEN l ELSE st
               ce == IF w > n THEN n ELSE w
    <2>1. st \in Nat \ {0} /\ en \in Nat
      BY SMT DEF Stretches
    <2>2. w = IF en = 0 THEN n ELSE en
      BY DEF Till
    <2>3. c.start = cs /\ c.end = ce /\ c.state = sa
      BY DEF CutTo
    <2>4. Meets(s, l, n) <=> l <= w /\ st <= n
      <3>1. Meets(s, l, n) <=> ~(w < l \/ st > n)
        BY DEF Meets
      <3>2. w \in Nat
        BY <2>1, <2>2, SMT
      <3> HIDE DEF w, st
      <3> QED BY <2>1, <3>1, <3>2, SMT
    <2> HIDE DEF st, en, sa, w, c
    <2>5. w \in Nat \ {0}
      BY <2>1, <2>2, SMT
    <2>6. ce # 0 /\ ce \in Nat /\ cs \in Nat
      BY <2>1, <2>5, SMT
    <2> HIDE DEF cs, ce
    <2>7. Till(c, b) = ce
      BY <2>3, <2>6, SMT DEF Till
    <2>8. Meets(c, a, b) <=> a <= ce /\ cs <= b
      BY <2>3, <2>6, <2>7, SMT DEF Meets
    <2>9. Meets(s, l, n) /\ Meets(c, a, b) <=> a <= w /\ st <= b
      BY <2>1, <2>4, <2>5, <2>8, SMT DEF cs, ce
    <2>10. CutTo(c, a, b) = [start |-> IF cs < a THEN a ELSE cs,
                             end   |-> IF ce > b THEN b ELSE ce, state |-> sa]
      BY <2>3, <2>7 DEF CutTo
    <2>11. /\ (IF cs < a THEN a ELSE cs) = IF st < a THEN a ELSE st
           /\ (IF ce > b THEN b ELSE ce) = IF w > b THEN b ELSE w
      BY <2>1, <2>5, SMT DEF cs, ce
    <2>12. cut(s) = [start |-> IF st < a THEN a ELSE st,
                     end   |-> IF w > b THEN b ELSE w, state |-> sa]
      BY DEF Piece, st, w, sa
    <2>13. s \in in <=> a <= w /\ st <= b
      BY DEF Hit, st, w
    <2> HIDE DEF cut, in
    <2> QED BY <2>9, <2>10, <2>11, <2>12, <2>13 DEF c, st
  <1> HIDE DEF cut
  <1>4. {CutTo(c, a, b) : c \in {c \in mid : Meets(c, a, b)}} = {cut(s) : s \in in}
    <2>1. in \subseteq tl
      BY DEF Hit
    <2> HIDE DEF in
    <2> QED BY <1>3, <2>1
  <1> QED BY <1>1, <1>2, <1>4 DEF cut

\* The periods that are over by n and where the j-th of them begins.
Rounds(l, n) == IF l + Period <= n THEN (n - l) \div Period ELSE 0
From(l, j)   == l + (j - 1) * Period

LEMMA PeriodsOver ==
    ASSUME NEW l \in Nat \ {0}, NEW n \in Nat, l <= n
    PROVE  /\ Rounds(l, n) \in Nat /\ Rounds(l, n) * Period \in Nat
           /\ l + Rounds(l, n) * Period <= n
           /\ \A j \in 1 .. Rounds(l, n) :
                /\ From(l, j) \in Nat \ {0} /\ l <= From(l, j)
                /\ From(l, j) + Period <= l + Rounds(l, n) * Period
           /\ \A i, j \in 1 .. Rounds(l, n) : i < j => From(l, i) + Period <= From(l, j)
           /\ \A t \in Nat : l <= t /\ t < l + Rounds(l, n) * Period =>
                \E j \in 1 .. Rounds(l, n) : From(l, j) <= t /\ t < From(l, j) + Period
  <1> DEFINE k == Rounds(l, n)
  <1>1. Period \in Nat \ {0}
    BY ComputationsAssumption
  <1>2. k \in Nat /\ k * Period \in Nat /\ l + k * Period <= n
    <2>1. CASE l + Period <= n
      <3> DEFINE d == n - l
                 q == d \div Period
                 m == d % Period
      <3>1. d \in Int /\ d >= 0
        BY SMT
      <3>2. q \in Int /\ m \in 0 .. Period - 1 /\ d = Period * q + m
        <4> HIDE DEF d
        <4> QED BY <1>1, <3>1, Divided
      <3>3. k = q
        BY <2>1 DEF Rounds
      <3> HIDE DEF q, m, k
      <3>4. q >= 0
        <4>1. q <= -1 => Period * q <= -Period
          BY <1>1, <3>2, Z3
        <4>2. Period * q \in Int
          BY <1>1, <3>2, SMT
        <4> HIDE DEF d
        <4> QED BY <1>1, <3>1, <3>2, <4>1, <4>2, SMT
      <3>5. q * Period = Period * q /\ q * Period \in Nat
        BY <1>1, <3>2, <3>4, Z3
      <3> QED BY <1>1, <3>2, <3>3, <3>4, <3>5, SMT DEF d
    <2>2. CASE ~(l + Period <= n)
      <3>1. k = 0 /\ 0 * Period = 0
        BY <1>1, <2>2, SMT DEF Rounds
      <3> QED BY <3>1, SMT
    <2> QED BY <2>1, <2>2
  <1> HIDE DEF k
  <1>3. ASSUME NEW j \in 1 .. k
        PROVE  /\ l + (j - 1) * Period \in Nat \ {0} /\ l <= l + (j - 1) * Period
               /\ l + (j - 1) * Period + Period <= l + k * Period
    <2>1. (j - 1) * Period \in Nat /\ (j - 1) * Period + Period = j * Period
      BY <1>1, Z3
    <2>2. j * Period <= k * Period
      BY <1>1, <1>2, Z3
    <2> QED BY <1>1, <1>2, <2>1, <2>2, SMT
  <1>4. ASSUME NEW i \in 1 .. k, NEW j \in 1 .. k, i < j
        PROVE  l + (i - 1) * Period + Period <= l + (j - 1) * Period
    <2>1. /\ (i - 1) * Period \in Nat /\ (i - 1) * Period + Period = i * Period
          /\ (j - 1) * Period \in Nat /\ i * Period \in Nat
      BY <1>1, Z3
    <2>2. i * Period <= (j - 1) * Period
      <3>1. i <= j - 1
        BY <1>4, SMT
      <3> QED BY <1>1, <3>1, Z3
    <2> QED BY <1>1, <2>1, <2>2, SMT
  <1>5. ASSUME NEW t \in Nat, l <= t, t < l + k * Period
        PROVE  \E j \in 1 .. k : l + (j - 1) * Period <= t /\ t < l + (j - 1) * Period + Period
    <2> DEFINE d == t - l
               q == d \div Period
               m == d % Period
    <2>1. d \in Int /\ d >= 0 /\ d < k * Period
      BY <1>2, <1>5, SMT
    <2>2. q \in Int /\ m \in 0 .. Period - 1 /\ d = Period * q + m
      <3> HIDE DEF d
      <3> QED BY <1>1, <2>1, Divided
    <2> HIDE DEF q, m, d
    <2>3. Period * q \in Int /\ q * Period = Period * q
      BY <1>1, <2>2, Z3
    <2>4. q >= 0
      <3>1. q <= -1 => Period * q <= -Period
        BY <1>1, <2>2, Z3
      <3> QED BY <1>1, <2>1, <2>2, <2>3, <3>1, SMT
    <2>5. q < k
      <3>1. q >= k => Period * q >= k * Period
        BY <1>1, <1>2, <2>2, Z3
      <3> QED BY <1>1, <1>2, <2>1, <2>2, <2>3, <3>1, SMT
    <2>6. PICK j \in 1 .. k : j - 1 = q
      <3>1. q + 1 \in 1 .. k /\ (q + 1) - 1 = q
        BY <1>2, <2>2, <2>4, <2>5, SMT
      <3> QED BY <3>1
    <2>7. l + (j - 1) * Period <= t /\ t < l + (j - 1) * Period + Period
      <3>1. t = l + d
        BY SMT DEF d
      <3>2. l + q * Period <= t /\ t < l + q * Period + Period
        BY <1>1, <2>1, <2>2, <2>3, <3>1, SMT
      <3> QED BY <2>6, <3>2
    <2> QED BY <2>6, <2>7
  <1> QED BY <1>2, <1>3, <1>4, <1>5 DEF k, From

\* The slice of stretch s in the period that begins at f.
Slice(s, f, n) ==
    LET a == IF s.start < f THEN f ELSE s.start
        b == IF Till(s, n) > f + Period THEN f + Period ELSE Till(s, n)
    IN [start |-> a, end |-> b, total |-> ((b - a) \div Period) * Amount]

InPeriod(s, f, n) == Billed(s.state) /\ f <= Till(s, n) /\ s.start <= f + Period

\* A slice is a part of its stretch and of its period, and is charged for
\* the whole periods in it: one, if it is all of the period.
LEMMA SliceFacts ==
    ASSUME NEW s \in Stretches, NEW n \in Nat \ {0}, NEW f \in Nat \ {0},
           s.start <= n, s.end # 0 => s.start <= s.end, s.end <= n,
           f + Period <= n, InPeriod(s, f, n)
    PROVE  LET r == Slice(s, f, n)
           IN  /\ r.start \in Nat /\ r.end \in Nat /\ r.total \in Nat
               /\ f <= r.start /\ r.start <= r.end /\ r.end <= f + Period
               /\ r.total * Period <= Amount * (r.end - r.start)
               /\ r.total = ((r.end - r.start) \div Period) * Amount
               /\ \A t \in Nat : r.start <= t /\ t < r.end => Covers(s, t)
               /\ r.start = f /\ r.end = f + Period =>
                    r.total = Amount /\ r.total * Period = Amount * (r.end - r.start)
  <1> DEFINE st == s.start
             en == s.end
             w  == Till(s, n)
             a  == IF st < f THEN f ELSE st
             b  == IF w > f + Period THEN f + Period ELSE w
             d  == b - a
             q  == d \div Period
             m  == d % Period
             v  == q * Amount
             r  == Slice(s, f, n)
  <1>1. r = [start |-> a, end |-> b, total |-> v]
    BY DEF Slice
  <1>2. r.start = a /\ r.end = b /\ r.total = v
    BY <1>1
  <1>3. st \in Nat \ {0} /\ en \in Nat
    BY SMT DEF Stretches
  <1>4. w = (IF en = 0 THEN n ELSE en) /\ f <= w /\ st <= f + Period
    BY DEF InPeriod, Till
  <1>5. Period \in Nat \ {0} /\ Amount \in Nat
    BY ComputationsAssumption
  <1>6. /\ a \in Nat /\ b \in Nat /\ f <= a /\ a <= b /\ b <= f + Period
        /\ d \in Nat /\ d <= Period
    <2>1. st <= n /\ (en # 0 => st <= en) /\ en <= n
      OBVIOUS
    <2> HIDE DEF st, en, w
    <2> QED BY <1>3, <1>4, <1>5, <2>1, SMT
  <1>7. \A t \in Nat : a <= t /\ t < b => Covers(s, t)
    <2> SUFFICES ASSUME NEW t \in Nat, a <= t, t < b PROVE st <= t /\ (en = 0 \/ t < en)
      BY DEF Covers
    <2> HIDE DEF st, en, w
    <2> QED BY <1>3, <1>4, <1>5, SMT
  <1> HIDE DEF a, b, r, st, en, w
  <1>8. q \in Int /\ m \in 0 .. Period - 1 /\ d = Period * q + m
    <2>1. d \in Int
      BY <1>6, SMT
    <2> HIDE DEF d
    <2> QED BY <1>5, <2>1, Divided
  <1> HIDE DEF d, q, m, v
  <1>9. q >= 0 /\ Period * q \in Int
    <2>1. q <= -1 => Period * q <= -Period
      BY <1>5, <1>8, Z3
    <2>2. Period * q \in Int
      BY <1>5, <1>8, SMT
    <2> QED BY <1>5, <1>6, <1>8, <2>1, <2>2, SMT
  <1>10. v \in Nat /\ v * Period = Amount * (Period * q)
    BY <1>5, <1>8, <1>9, Z3 DEF v
  <1>11. v * Period <= Amount * d
    <2>1. Period * q <= d
      BY <1>5, <1>6, <1>8, <1>9, SMT
    <2>2. Amount * (Period * q) <= Amount * d
      BY <1>5, <1>6, <1>9, <2>1, Z3
    <2> QED BY <1>10, <2>2
  <1>12. a = f /\ b = f + Period => v = Amount /\ v * Period = Amount * d
    <2> SUFFICES ASSUME a = f, b = f + Period PROVE v = Amount /\ v * Period = Amount * d
      OBVIOUS
    <2>1. d = Period
      BY <1>5, SMT DEF d
    <2>2. 1 * Period <= Period /\ Period < 1 * Period + Period
      BY <1>5, SMT
    <2>3. q = 1
      BY <1>5, <2>1, <2>2, QuotientIs DEF q
    <2> QED BY <1>5, <2>1, <2>3, SMT DEF v
  <1>13. d = b - a /\ v = ((b - a) \div Period) * Amount
    BY DEF d, v, q
  <1> QED BY <1>2, <1>6, <1>7, <1>10, <1>11, <1>12, <1>13 DEF r

\* What a round publishes: the slices of the billed stretches in the periods
\* that are over.
LEMMA RecordsAre ==
    ASSUME HistInv(history, at), last \in 1 .. at
    PROVE  \A r : r \in Meter!CapacityRecords <=>
             \E j \in 1 .. Rounds(last, at), s \in Timeline(history) :
                InPeriod(s, From(last, j), at) /\ r = Slice(s, From(last, j), at)
  <1> DEFINE k  == Rounds(last, at)
             TL == Timeline(history)
             tl == Meter!FilterTimeline(TL, last, at)
             P(j) == Meter!PeriodRecords(tl, From(last, j))
  <1>1. last \in Nat \ {0} /\ at \in Nat \ {0} /\ last <= at /\ Period \in Nat \ {0}
    <2>1. at \in Nat \ {0} /\ Period \in Nat \ {0}
      BY ComputationsAssumption DEF HistInv
    <2> QED BY <2>1, SMT
  <1>2. TL \in SUBSET Stretches
    BY Apart
  <1>3. \A r : r \in Meter!CapacityRecords <=> \E j \in 1 .. k : r \in P(j)
    <2>1. Meter!MakeTimeline = TL
      BY DEF Meter!MakeTimeline, Timeline
    <2>2. Meter!CapacityRecords = UNION {P(j) : j \in 1 .. k}
      BY <2>1 DEF Meter!CapacityRecords, Rounds, From
    <2> HIDE DEF P, k
    <2> QED BY <2>2
  <1>4. ASSUME NEW j \in 1 .. k, NEW r
        PROVE  r \in P(j) <=> \E s \in TL : /\ InPeriod(s, From(last, j), at)
                                            /\ r = Slice(s, From(last, j), at)
    <2> DEFINE a == From(last, j)
               b == a + Period
               cut(s) == Piece(s, a, b, at)
               in == Hit(TL, a, b, at)
               rec(c) == [start |-> c.start, end |-> c.end, total |-> Meter!Charge(c)]
               K == {cut(s) : s \in in}
    <2>1. a \in Nat \ {0} /\ b \in Nat \ {0} /\ last <= a /\ a <= b /\ b <= at
      <3>1. /\ a \in Nat \ {0} /\ last <= a /\ a + Period <= last + k * Period
            /\ last + k * Period <= at /\ k * Period \in Nat
        BY <1>1, PeriodsOver
      <3> HIDE DEF a, k
      <3> QED BY <1>1, <3>1, SMT
    <2>2. Meter!FilterTimeline(tl, a, b) = K
      <3> HIDE DEF a, b, TL
      <3> QED BY <1>1, <1>2, <2>1, FilterTwice
    <2>3. P(j) = {rec(c) : c \in {c \in K : Billed(c.state)}}
      BY <2>2 DEF Meter!PeriodRecords, Billed
    <2>4. ASSUME NEW s PROVE cut(s).state = s.state /\ rec(cut(s)) = Slice(s, a, at)
      BY DEF Slice, Piece, Meter!Charge
    <2>5. \A s \in TL : InPeriod(s, a, at) <=> s \in in /\ Billed(s.state)
      BY DEF InPeriod, Hit
    <2> HIDE DEF P, TL, a, cut, rec, in
    <2>6. r \in P(j) <=> \E s \in in : Billed(s.state) /\ r = Slice(s, a, at)
      BY <2>3, <2>4
    <2>7. in \subseteq TL
      BY DEF in, Hit
    <2> QED BY <2>5, <2>6, <2>7 DEF a
  <1> HIDE DEF P, k, TL
  <1> QED BY <1>3, <1>4 DEF k, TL

\* The times before n that a VM spent in a billed state.
OnTime(h, n) ==
    {t \in 1 .. n - 1 : \E s \in Timeline(h) : Billed(s.state) /\ Covers(s, t)}

\* The times of a record.
Own(r) == r.start .. r.end - 1

\* A record is charged for whole periods among its times, which are in a
\* billed state, in periods that are over, and of no other record.
LEMMA RecordFacts ==
    ASSUME HistInv(history, at), last \in 1 .. at
    PROVE  /\ \A r \in Meter!CapacityRecords :
                /\ r.start \in 1 .. at /\ r.end \in 1 .. at /\ r.total \in Nat
                /\ r = [start |-> r.start, end |-> r.end,
                        total |-> ((r.end - r.start) \div Period) * Amount]
                /\ Own(r) \subseteq {t \in OnTime(history, at) :
                                        last <= t /\ t < last + Rounds(last, at) * Period}
                /\ r.total * Period <= Amount * Cardinality(Own(r))
           /\ \A r, u \in Meter!CapacityRecords : r # u => Own(r) \cap Own(u) = {}
  <1> DEFINE k  == Rounds(last, at)
             R  == Meter!CapacityRecords
             Of(r, j, s) == /\ InPeriod(s, From(last, j), at)
                            /\ r = Slice(s, From(last, j), at)
  <1>1. last \in Nat \ {0} /\ at \in Nat \ {0} /\ last <= at /\ Period \in Nat \ {0}
    <2>1. at \in Nat \ {0} /\ Period \in Nat \ {0}
      BY ComputationsAssumption DEF HistInv
    <2> QED BY <2>1, SMT
  <1>2. \A r \in R : \E j \in 1 .. k, s \in Timeline(history) : Of(r, j, s)
    BY RecordsAre
  <1>3. ASSUME NEW r \in R, NEW j \in 1 .. k, NEW s \in Timeline(history), Of(r, j, s)
        PROVE  LET f == From(last, j)
               IN  /\ f \in Nat \ {0} /\ last <= f /\ f + Period <= last + k * Period
                   /\ last + k * Period <= at /\ k * Period \in Nat
                   /\ r.start \in Nat /\ r.end \in Nat /\ r.total \in Nat
                   /\ f <= r.start /\ r.start <= r.end /\ r.end <= f + Period
                   /\ r.total * Period <= Amount * (r.end - r.start)
                   /\ r = [start |-> r.start, end |-> r.end,
                           total |-> ((r.end - r.start) \div Period) * Amount]
                   /\ \A t \in Nat : r.start <= t /\ t < r.end => Covers(s, t)
                   /\ Billed(s.state)
    <2> DEFINE f == From(last, j)
    <2>1. /\ f \in Nat \ {0} /\ last <= f /\ f + Period <= last + k * Period
          /\ last + k * Period <= at /\ k * Period \in Nat
      BY <1>1, PeriodsOver
    <2>2. f + Period <= at
      <3> HIDE DEF f, k
      <3> QED BY <1>1, <2>1, SMT
    <2>3. s \in Stretches /\ s.start <= at /\ s.end <= at /\ (s.end # 0 => s.start <= s.end)
      BY Apart
    <2>4. InPeriod(s, f, at) /\ r = Slice(s, f, at) /\ Billed(s.state)
      BY <1>3 DEF InPeriod
    <2> HIDE DEF f, k
    <2>5. /\ r.start \in Nat /\ r.end \in Nat /\ r.total \in Nat
          /\ f <= r.start /\ r.start <= r.end /\ r.end <= f + Period
          /\ r.total * Period <= Amount * (r.end - r.start)
          /\ \A t \in Nat : r.start <= t /\ t < r.end => Covers(s, t)
      BY <1>1, <2>1, <2>2, <2>3, <2>4, SliceFacts
    <2>6. r = [start |-> r.start, end |-> r.end,
               total |-> ((r.end - r.start) \div Period) * Amount]
      BY <2>4 DEF Slice
    <2> QED BY <2>1, <2>4, <2>5, <2>6 DEF f
  <1> HIDE DEF Of, k, R
  <1>4. ASSUME NEW r \in R
        PROVE  /\ r.start \in 1 .. at /\ r.end \in 1 .. at /\ r.total \in Nat
               /\ r = [start |-> r.start, end |-> r.end,
                       total |-> ((r.end - r.start) \div Period) * Amount]
               /\ Own(r) \subseteq {t \in OnTime(history, at) : last <= t /\ t < last + k * Period}
               /\ r.total * Period <= Amount * Cardinality(Own(r))
    <2>1. PICK j \in 1 .. k, s \in Timeline(history) : Of(r, j, s)
      BY <1>2
    <2> DEFINE f  == From(last, j)
               st == r.start
               en == r.end
               e  == k * Period
    <2>2. /\ f \in Nat \ {0} /\ last <= f /\ f + Period <= last + e /\ last + e <= at /\ e \in Nat
          /\ st \in Nat /\ en \in Nat /\ r.total \in Nat
          /\ f <= st /\ st <= en /\ en <= f + Period
          /\ r.total * Period <= Amount * (en - st)
          /\ r = [start |-> st, end |-> en, total |-> ((en - st) \div Period) * Amount]
          /\ \A t \in Nat : st <= t /\ t < en => Covers(s, t)
          /\ Billed(s.state)
      BY <1>3, <2>1
    <2> HIDE DEF f, st, en, e
    <2>3. st \in 1 .. at /\ en \in 1 .. at
      BY <1>1, <2>2, SMT
    <2>4. ASSUME NEW t \in st .. en - 1
          PROVE  t \in OnTime(history, at) /\ last <= t /\ t < last + e
      <3>1. t \in 1 .. at - 1 /\ last <= t /\ t < last + e /\ t \in Nat /\ st <= t /\ t < en
        BY <1>1, <2>2, SMT
      <3>2. Billed(s.state) /\ Covers(s, t)
        BY <2>2, <3>1
      <3> QED BY <3>1, <3>2 DEF OnTime
    <2>5. Cardinality(st .. en - 1) = en - st
      <3>1. en - 1 \in Int /\ st \in Int
        BY <2>2, SMT
      <3>2. Cardinality(st .. en - 1) = IF st > en - 1 THEN 0 ELSE (en - 1) - st + 1
        BY <3>1, FS_Interval
      <3> QED BY <2>2, <3>2, SMT
    <2>6. Own(r) = st .. en - 1
      BY DEF Own, st, en
    <2> QED BY <2>2, <2>3, <2>4, <2>5, <2>6 DEF st, en, e
  <1>5. ASSUME NEW r \in R, NEW u \in R, NEW t, t \in Own(r), t \in Own(u)
        PROVE  r = u
    <2>1. PICK j \in 1 .. k, s \in Timeline(history) : Of(r, j, s)
      BY <1>2
    <2>2. PICK i \in 1 .. k, v \in Timeline(history) : Of(u, i, v)
      BY <1>2
    <2> DEFINE f == From(last, j)
               g == From(last, i)
    <2>3. /\ f \in Nat \ {0} /\ r.start \in Nat /\ r.end \in Nat
          /\ f <= r.start /\ r.end <= f + Period
          /\ \A x \in Nat : r.start <= x /\ x < r.end => Covers(s, x)
      BY <1>3, <2>1
    <2>4. /\ g \in Nat \ {0} /\ u.start \in Nat /\ u.end \in Nat
          /\ g <= u.start /\ u.end <= g + Period
          /\ \A x \in Nat : u.start <= x /\ x < u.end => Covers(v, x)
      BY <1>3, <2>2
    <2>5. i < j => g + Period <= f
      BY <1>1, PeriodsOver DEF k
    <2>6. j < i => f + Period <= g
      BY <1>1, PeriodsOver DEF k
    <2> HIDE DEF f, g
    <2>7. /\ t \in Nat /\ r.start <= t /\ t < r.end /\ u.start <= t /\ t < u.end
      BY <1>5, <2>3, <2>4, SMT DEF Own
    <2>8. Covers(s, t) /\ Covers(v, t)
      BY <2>3, <2>4, <2>7
    <2>9. s = v
      BY <2>7, <2>8, Apart
    <2>10. ~(i < j) /\ ~(j < i)
      BY <1>1, <2>3, <2>4, <2>5, <2>6, <2>7, SMT
    <2>11. i = j
      BY <2>10, SMT
    <2> QED BY <2>1, <2>2, <2>9, <2>11 DEF Of
  <1>6. \A r, u \in R : r # u => Own(r) \cap Own(u) = {}
    BY <1>5
  <1> QED BY <1>4, <1>6 DEF k, R

RoundCharge == Meter!MapThenSumSet(LAMBDA r : r.total, Meter!CapacityRecords)

\* A round takes no more than the times of its records are worth.
LEMMA RoundFacts ==
    ASSUME HistInv(history, at), last \in 1 .. at
    PROVE  LET R == Meter!CapacityRecords
               U == UNION {Own(r) : r \in R}
           IN  /\ RoundCharge \in Nat
               /\ RoundCharge * Period <= Amount * Cardinality(U)
               /\ U \subseteq {t \in OnTime(history, at) :
                                  last <= t /\ t < last + Rounds(last, at) * Period}
               /\ (\A r \in R : r.total * Period = Amount * Cardinality(Own(r)))
                    => RoundCharge * Period = Amount * Cardinality(U)
               /\ R = {} => RoundCharge = 0
  <1> DEFINE R    == Meter!CapacityRecords
             T    == 1 .. at
             w    == [r \in R |-> r.total]
             span == [r \in R |-> Own(r)]
             U    == UNION {Own(r) : r \in R}
             W    == {t \in OnTime(history, at) :
                        last <= t /\ t < last + Rounds(last, at) * Period}
             eq(h) == h = [s \in SUBSET R |->
                 IF s = {} THEN 0
                 ELSE (CHOOSE x \in s : TRUE).total + h[s \ {CHOOSE x \in s : TRUE}]]
  <1>1. /\ \A r \in R :
             /\ r.start \in T /\ r.end \in T /\ r.total \in Nat
             /\ r = [start |-> r.start, end |-> r.end,
                     total |-> ((r.end - r.start) \div Period) * Amount]
             /\ Own(r) \subseteq W /\ r.total * Period <= Amount * Cardinality(Own(r))
        /\ \A r, u \in R : r # u => Own(r) \cap Own(u) = {}
    BY RecordFacts
  <1>2. W \subseteq T /\ IsFiniteSet(T)
    <2>1. at \in Nat \ {0}
      BY DEF HistInv
    <2>2. IsFiniteSet(T)
      BY <2>1, FS_Interval, SMT
    <2>3. OnTime(history, at) \subseteq T
      BY <2>1, SMT DEF OnTime
    <2> QED BY <2>2, <2>3
  <1> HIDE DEF R, T, W
  <1>3. IsFiniteSet(R)
    <2> DEFINE f == [p \in T \X T |-> [start |-> p[1], end |-> p[2],
                        total |-> ((p[2] - p[1]) \div Period) * Amount]]
               F == {f[p] : p \in T \X T}
    <2>1. IsFiniteSet(T \X T)
      BY <1>2, FS_Product
    <2>2. f \in Surjection(T \X T, F)
      BY DEF Surjection
    <2>3. R \subseteq F
      <3> SUFFICES ASSUME NEW r \in R PROVE r \in F
        OBVIOUS
      <3> DEFINE p == <<r.start, r.end>>
      <3>1. p \in T \X T /\ p[1] = r.start /\ p[2] = r.end
        BY <1>1
      <3>2. f[p] = r
        BY <1>1, <3>1
      <3> HIDE DEF f, p
      <3> QED BY <3>1, <3>2
    <2> HIDE DEF f, F
    <2>4. IsFiniteSet(F)
      BY <2>1, <2>2, FS_Surjection
    <2> QED BY <2>3, <2>4, FS_Subset
  <1>4. w \in [R -> Nat] /\ span \in [R -> SUBSET T]
    BY <1>1, <1>2
  <1>5. /\ EachOwn(span, R) /\ AtMost(w, Period, Amount, span, R)
        /\ U = Together(span, R)
    BY <1>1 DEF EachOwn, AtMost, Together
  <1>6. \A h : SumUp(h, w, R) <=> eq(h)
    <2>1. \A s \in SUBSET R : s # {} =>
             w[CHOOSE x \in s : TRUE] = (CHOOSE x \in s : TRUE).total
      OBVIOUS
    <2> HIDE DEF w
    <2> QED BY <2>1 DEF SumUp
  <1>7. RoundCharge = (CHOOSE h : eq(h))[R]
    BY DEF RoundCharge, Meter!MapThenSumSet, Meter!MapThenFoldSet, R
  <1>8. \A r \in R : w[r] = r.total /\ span[r] = Own(r)
    OBVIOUS
  <1> HIDE DEF w, span, U, eq
  <1>9. PICK h : eq(h) /\ RoundCharge = h[R] /\ SumUp(h, w, R)
    <2>1. eq(CHOOSE h : eq(h))
      BY <1>3, <1>6, SumExists
    <2> QED BY <1>6, <1>7, <2>1
  <1>10. Period \in Nat /\ Amount \in Nat
    BY ComputationsAssumption
  <1>11. /\ h[R] \in Nat /\ h[R] * Period <= Amount * Cardinality(U)
         /\ Exactly(w, Period, Amount, span, R) => h[R] * Period = Amount * Cardinality(U)
    BY <1>2, <1>3, <1>4, <1>5, <1>9, <1>10, SumDisjoint
  <1>12. R = {} => h[R] = 0
    BY <1>9, Zenon DEF eq
  <1>13. U \subseteq W
    BY <1>1 DEF U
  <1>14. (\A r \in R : r.total * Period = Amount * Cardinality(Own(r)))
           => Exactly(w, Period, Amount, span, R)
    BY <1>8 DEF Exactly
  <1> QED BY <1>9, <1>11, <1>12, <1>13, <1>14 DEF R, U, W

\* A history that goes on at n as another did has the same past.
LEMMA SamePast ==
    ASSUME NEW h, NEW g, NEW n, HistInv(h, n), HistInv(g, n), Len(h) <= Len(g),
           \A i \in 1 .. Len(h) :
              /\ g[i].rstime = h[i].rstime
              /\ h[i].retime # 0 => g[i].retime = h[i].retime /\ g[i].action = h[i].action
              /\ h[i].retime = 0 => g[i].retime \in {0, n}
              /\ g[i].etime = h[i].etime \/ (h[i].etime = 0 /\ g[i].etime = n),
           \A i \in 1 .. Len(g) : i > Len(h) => g[i].rstime = n /\ g[i].retime = 0
    PROVE  OnTime(g, n) = OnTime(h, n)
  <1> DEFINE B(k, r, t) == IF k THEN Billed("RUNNING") /\ Covers(Ran(r), t)
                           ELSE /\ r.retime # 0 /\ Billed(Meter!StateAfter(r.action))
                                /\ Covers(Rested(r), t)
  <1>1. ASSUME NEW f, HistInv(f, n), NEW t
        PROVE  (\E s \in Timeline(f) : Billed(s.state) /\ Covers(s, t))
                 <=> \E i \in 1 .. Len(f) : B(TRUE, f[i], t) \/ B(FALSE, f[i], t)
    <2>1. \A r : Ran(r).state = "RUNNING" /\ Rested(r).state = Meter!StateAfter(r.action)
      BY DEF Ran, Rested, Meter!Stretch
    <2>2. ASSUME NEW s \in Timeline(f), Billed(s.state), Covers(s, t)
          PROVE  \E i \in 1 .. Len(f) : B(TRUE, f[i], t) \/ B(FALSE, f[i], t)
      <3>1. PICK i \in 1 .. Len(f) : s = Ran(f[i]) \/ (f[i].retime # 0 /\ s = Rested(f[i]))
        BY <1>1, TimelineIs
      <3>2. B(TRUE, f[i], t) \/ B(FALSE, f[i], t)
        BY <2>1, <2>2, <3>1
      <3> HIDE DEF B
      <3> QED BY <3>2
    <2>3. ASSUME NEW i \in 1 .. Len(f), B(TRUE, f[i], t) \/ B(FALSE, f[i], t)
          PROVE  \E s \in Timeline(f) : Billed(s.state) /\ Covers(s, t)
      <3>1. /\ Ran(f[i]) \in Timeline(f)
            /\ f[i].retime # 0 => Rested(f[i]) \in Timeline(f)
        BY <1>1, TimelineIs
      <3> QED BY <2>1, <2>3, <3>1
    <2> HIDE DEF B
    <2> QED BY <2>2, <2>3
  <1>2. /\ \A i \in 1 .. Len(h) : h[i].rstime \in Nat /\ h[i].retime \in Nat /\ h[i].etime \in Nat
        /\ \A i \in 1 .. Len(g) : g[i].rstime \in Nat /\ g[i].retime \in Nat /\ g[i].etime \in Nat
        /\ n \in Nat \ {0} /\ Len(h) \in Nat /\ Len(g) \in Nat
    <2>1. \A i \in 1 .. Len(h) : h[i] \in HistoryRecord
      BY SMT DEF HistInv
    <2>2. \A i \in 1 .. Len(g) : g[i] \in HistoryRecord
      BY SMT DEF HistInv
    <2>3. n \in Nat \ {0} /\ Len(h) \in Nat /\ Len(g) \in Nat
      BY SMT DEF HistInv
    <2> QED BY <2>1, <2>2, <2>3 DEF HistoryRecord
  <1>3. \A r : /\ Ran(r).start = r.rstime /\ Ran(r).end = r.retime
               /\ Rested(r).start = r.retime /\ Rested(r).end = r.etime
    BY DEF Ran, Rested, Meter!Stretch
  <1>4. ASSUME NEW t \in 1 .. n - 1, NEW i \in 1 .. Len(h), NEW k \in BOOLEAN
        PROVE  B(k, h[i], t) <=> B(k, g[i], t)
    <2>1. i \in 1 .. Len(g)
      BY <1>2, SMT
    <2> DEFINE a == h[i].rstime
               b == h[i].retime
               c == h[i].etime
               d == g[i].retime
               e == g[i].etime
               hr == Ran(h[i])
               gr == Ran(g[i])
               ht == Rested(h[i])
               gt == Rested(g[i])
    <2>2. /\ hr.start = a /\ hr.end = b /\ gr.start = a /\ gr.end = d
          /\ ht.start = b /\ ht.end = c /\ gt.start = d /\ gt.end = e
      BY <1>3
    <2>3. /\ a \in Nat /\ b \in Nat /\ c \in Nat /\ d \in Nat /\ e \in Nat
          /\ b # 0 => d = b
          /\ b = 0 => d = 0 \/ d = n
          /\ e = c \/ (c = 0 /\ e = n)
      BY <1>2, <2>1
    <2> HIDE DEF a, b, c, d, e, hr, gr, ht, gt
    <2>4. Covers(hr, t) <=> Covers(gr, t)
      BY <1>2, <2>2, <2>3, SMT DEF Covers
    <2>5. b # 0 => d # 0 /\ (Covers(ht, t) <=> Covers(gt, t))
      BY <1>2, <2>2, <2>3, SMT DEF Covers
    <2>6. b = 0 /\ d # 0 => ~Covers(gt, t)
      BY <1>2, <2>2, <2>3, SMT DEF Covers
    <2>7. b # 0 => g[i].action = h[i].action
      BY DEF b
    <2> QED BY <2>4, <2>5, <2>6, <2>7 DEF b, d, hr, gr, ht, gt
  <1>5. ASSUME NEW t \in 1 .. n - 1, NEW i \in 1 .. Len(g), ~(i \in 1 .. Len(h)), NEW k \in BOOLEAN
        PROVE  ~B(k, g[i], t)
    <2>1. i > Len(h)
      BY <1>2, <1>5, SMT
    <2>2. g[i].rstime = n /\ g[i].retime = 0
      BY <2>1
    <2>3. ~Covers(Ran(g[i]), t)
      <3>1. Ran(g[i]).start = n
        BY <1>3, <2>2
      <3> QED BY <1>2, <3>1, SMT DEF Covers
    <2> QED BY <2>2, <2>3
  <1>6. \A i \in 1 .. Len(h) : i \in 1 .. Len(g)
    BY <1>2, SMT
  <1> HIDE DEF B
  <1>7. ASSUME NEW t \in 1 .. n - 1
        PROVE  (\E s \in Timeline(h) : Billed(s.state) /\ Covers(s, t))
                 <=> \E s \in Timeline(g) : Billed(s.state) /\ Covers(s, t)
    <2>1. (\E i \in 1 .. Len(h) : B(TRUE, h[i], t) \/ B(FALSE, h[i], t))
            <=> \E i \in 1 .. Len(g) : B(TRUE, g[i], t) \/ B(FALSE, g[i], t)
      BY <1>4, <1>5, <1>6
    <2> QED BY <1>1, <2>1
  <1> QED BY <1>7 DEF OnTime

\* The state of the VM is that of the one stretch that covers the present.
LEMMA Present ==
    ASSUME HistInv(history, at)
    PROVE  Billed(Meter!State)
             <=> \E s \in Timeline(history) : Billed(s.state) /\ Covers(s, at)
  <1> DEFINE c == history[Len(history)]
             p == IF c.retime = 0 THEN Ran(c) ELSE Rested(c)
  <1>1. Len(history) \in 1 .. Len(history) /\ at \in Nat
    BY SMT DEF HistInv
  <1>2. c.retime \in Nat /\ c.rstime \in Nat /\ c.rstime <= at /\ c.retime <= at /\ c.etime = 0
    <2>1. c \in HistoryRecord
      BY <1>1, SMT DEF HistInv
    <2> QED BY <1>1, <2>1 DEF HistInv, HistoryRecord
  <1>3. p \in Timeline(history)
    BY <1>1, TimelineIs
  <1>4. Covers(p, at)
    BY <1>1, <1>2, SMT DEF Covers, Ran, Rested, Meter!Stretch
  <1>5. p.state = Meter!State
    BY DEF Meter!State, Meter!Current, Ran, Rested, Meter!Stretch
  <1> HIDE DEF p
  <1>6. \A s \in Timeline(history) : Covers(s, at) => s = p
    BY <1>1, <1>3, <1>4, Apart
  <1> QED BY <1>3, <1>4, <1>5, <1>6

\* A history whose last record becomes e.
LEMMA LastRecord ==
    ASSUME NEW h, NEW n, HistInv(h, n), NEW e \in HistoryRecord
    PROVE  LET m == Len(h)
               g == [h EXCEPT ![m] = e]
           IN  /\ m \in Nat /\ m >= 1 /\ DOMAIN h = 1 .. m
               /\ g \in Seq(HistoryRecord) /\ Len(g) = m
               /\ \A i \in 1 .. m : g[i] = IF i = m THEN e ELSE h[i]
               /\ \A i \in 1 .. m : h[i] \in HistoryRecord
  <1>1. h \in Seq(HistoryRecord) /\ Len(h) >= 1
    BY DEF HistInv
  <1> QED BY <1>1, SMT

\* What a VM does when it stops at n, with action a,
LEMMA StopHistory ==
    ASSUME NEW h, NEW n, HistInv(h, n), NEW a \in {9, 20}, h[Len(h)].retime = 0
    PROVE  LET g == [h EXCEPT ![Len(h)].retime = n, ![Len(h)].action = a]
           IN  HistInv(g, n) /\ OnTime(g, n) = OnTime(h, n) /\ g[1].retime # 0
  <1> DEFINE m == Len(h)
             c == h[m]
             e == [rstime |-> c.rstime, retime |-> n, etime |-> c.etime, action |-> a]
             g == [h EXCEPT ![m] = e]
  <1>1. /\ m \in Nat /\ m >= 1 /\ m \in 1 .. m /\ h \in Seq(HistoryRecord)
        /\ c \in HistoryRecord /\ n \in Nat \ {0}
    BY SMT DEF HistInv
  <1>2. /\ c = [rstime |-> c.rstime, retime |-> c.retime, etime |-> c.etime, action |-> c.action]
        /\ e \in HistoryRecord
    BY <1>1, SMT DEF HistoryRecord
  <1>3. [h EXCEPT ![m].retime = n, ![m].action = a] = g
    <2> DEFINE d == [c EXCEPT !.retime = n]
               f == [h EXCEPT ![m] = d]
    <2>1. d = [rstime |-> c.rstime, retime |-> n, etime |-> c.etime, action |-> c.action]
      <3> HIDE DEF c
      <3> QED BY <1>2, SMT
    <2>2. m \in DOMAIN h
      BY <1>1, SMT
    <2>3. f[m] = d /\ [h EXCEPT ![m].retime = n, ![m].action = a] = [f EXCEPT ![m].action = a]
      BY <2>2
    <2>4. [f EXCEPT ![m].action = a] = [f EXCEPT ![m] = [f[m] EXCEPT !.action = a]]
      OBVIOUS
    <2>5. [d EXCEPT !.action = a] = e
      <3> HIDE DEF d, c
      <3> QED BY <2>1, SMT
    <2>6. [f EXCEPT ![m] = e] = g
      <3> HIDE DEF d, e, m
      <3> QED OBVIOUS
    <2> QED BY <2>3, <2>4, <2>5, <2>6
  <1> DEFINE k == Len(g)
  <1>4. /\ g \in Seq(HistoryRecord) /\ k = m
        /\ \A i \in 1 .. m : g[i] = IF i = m THEN e ELSE h[i]
    <2> HIDE DEF e
    <2> QED BY <1>2, LastRecord
  <1>5. /\ e.rstime = c.rstime /\ e.retime = n /\ e.etime = c.etime /\ e.action = a
    OBVIOUS
  <1>6. /\ h[1].rstime = 1 /\ c.retime = 0 /\ c.etime = 0 /\ c.rstime \in Nat /\ c.rstime <= n
        /\ \A i \in 1 .. m :
              /\ h[i].retime = 0 <=> h[i].action = 0
              /\ h[i].retime = 0 => i = m
              /\ h[i].etime = 0 <=> i = m
              /\ h[i].rstime <= n /\ h[i].retime <= n /\ h[i].etime <= n
              /\ h[i].retime # 0 => h[i].rstime <= h[i].retime
              /\ h[i].etime # 0 => h[i].retime <= h[i].etime
        /\ \A i, j \in 1 .. m : i < j => h[i].etime <= h[j].rstime
    <2>1. c.rstime \in Nat
      BY <1>1 DEF HistoryRecord
    <2> QED BY <1>1, <2>1 DEF HistInv
  <1> HIDE DEF m, c, e, g, k
  <1>7. ASSUME NEW i \in 1 .. m
        PROVE  /\ g[i].rstime = h[i].rstime /\ g[i].etime = h[i].etime
               /\ i = m => g[i].retime = n /\ g[i].action = a
               /\ i # m => g[i].retime = h[i].retime /\ g[i].action = h[i].action
    BY <1>4, <1>5 DEF c
  <1>8. HistInv(g, n)
    <2>1. \A i \in 1 .. m :
             /\ g[i].retime = 0 <=> g[i].action = 0
             /\ g[i].retime = 0 => i = m
             /\ g[i].etime = 0 <=> i = m
             /\ g[i].rstime <= n /\ g[i].retime <= n /\ g[i].etime <= n
             /\ g[i].retime # 0 => g[i].rstime <= g[i].retime
             /\ g[i].etime # 0 => g[i].retime <= g[i].etime
      <3> TAKE i \in 1 .. m
      <3>1. CASE i = m
        <4>1. n # 0 /\ a # 0 /\ n <= n
          BY <1>1, SMT
        <4> QED BY <1>6, <1>7, <3>1, <4>1
      <3>2. CASE i # m
        BY <1>6, <1>7, <3>2
      <3> QED BY <3>1, <3>2
    <2>2. \A i, j \in 1 .. m : i < j => g[i].etime <= g[j].rstime
      BY <1>6, <1>7
    <2>3. 1 \in 1 .. m /\ g[1].rstime = 1
      <3>1. 1 \in 1 .. m
        BY <1>1, SMT
      <3> QED BY <1>6, <1>7, <3>1
    <2> QED BY <1>1, <1>4, <2>1, <2>2, <2>3 DEF HistInv, k
  <1>9. g[1].retime # 0
    <2>1. 1 \in 1 .. m /\ n # 0
      BY <1>1, SMT
    <2>2. CASE 1 = m
      BY <1>7, <2>1, <2>2
    <2>3. CASE 1 # m
      BY <1>6, <1>7, <2>1, <2>3
    <2> QED BY <2>2, <2>3
  <1>10. OnTime(g, n) = OnTime(h, n)
    <2>1. \A i \in 1 .. Len(h) :
              /\ g[i].rstime = h[i].rstime
              /\ h[i].retime # 0 => g[i].retime = h[i].retime /\ g[i].action = h[i].action
              /\ h[i].retime = 0 => g[i].retime \in {0, n}
              /\ g[i].etime = h[i].etime \/ (h[i].etime = 0 /\ g[i].etime = n)
      <3> SUFFICES ASSUME NEW i \in 1 .. m
                   PROVE  /\ g[i].rstime = h[i].rstime
                          /\ h[i].retime # 0 => /\ g[i].retime = h[i].retime
                                                /\ g[i].action = h[i].action
                          /\ h[i].retime = 0 => g[i].retime \in {0, n}
                          /\ g[i].etime = h[i].etime
        BY DEF m
      <3>1. i = m => h[i].retime = 0
        BY <1>6 DEF c
      <3> QED BY <1>6, <1>7, <3>1
    <2>2. Len(h) <= Len(g) /\ \A i \in 1 .. Len(g) : ~(i > Len(h))
      BY <1>1, <1>4, SMT DEF m, k
    <2> QED BY <1>8, <2>1, <2>2, SamePast
  <1> QED BY <1>3, <1>8, <1>9, <1>10 DEF m

\* and when it starts again.
LEMMA StartHistory ==
    ASSUME NEW h, NEW n, HistInv(h, n), h[Len(h)].retime # 0
    PROVE  LET g == Append([h EXCEPT ![Len(h)].etime = n],
                           [rstime |-> n, retime |-> 0, etime |-> 0, action |-> 0])
           IN  HistInv(g, n) /\ OnTime(g, n) = OnTime(h, n) /\ g[1].retime # 0
  <1> DEFINE m == Len(h)
             c == h[m]
             e == [rstime |-> c.rstime, retime |-> c.retime, etime |-> n, action |-> c.action]
             f == [h EXCEPT ![m] = e]
             b == [rstime |-> n, retime |-> 0, etime |-> 0, action |-> 0]
             g == Append(f, b)
             k == Len(g)
  <1>1. /\ m \in Nat /\ m >= 1 /\ m \in 1 .. m /\ h \in Seq(HistoryRecord)
        /\ c \in HistoryRecord /\ n \in Nat \ {0}
    BY SMT DEF HistInv
  <1>2. /\ c = [rstime |-> c.rstime, retime |-> c.retime, etime |-> c.etime, action |-> c.action]
        /\ e \in HistoryRecord /\ b \in HistoryRecord
    BY <1>1, SMT DEF HistoryRecord
  <1>3. [h EXCEPT ![m].etime = n] = f
    <2>1. [c EXCEPT !.etime = n] = e
      <3> HIDE DEF c
      <3> QED BY <1>2, SMT
    <2> QED BY <2>1
  <1>4. /\ f \in Seq(HistoryRecord) /\ Len(f) = m
        /\ \A i \in 1 .. m : f[i] = IF i = m THEN e ELSE h[i]
    <2> HIDE DEF e
    <2> QED BY <1>2, LastRecord
  <1>5. /\ g \in Seq(HistoryRecord) /\ k = m + 1 /\ g[m + 1] = b
        /\ \A i \in 1 .. m : g[i] = IF i = m THEN e ELSE h[i]
    <2> HIDE DEF f, b, e
    <2> QED BY <1>1, <1>2, <1>4, SMT
  <1>6. /\ e.rstime = c.rstime /\ e.retime = c.retime /\ e.etime = n /\ e.action = c.action
        /\ b.rstime = n /\ b.retime = 0 /\ b.etime = 0 /\ b.action = 0
    OBVIOUS
  <1>7. /\ h[1].rstime = 1 /\ c.retime # 0 /\ c.etime = 0
        /\ \A i \in 1 .. m :
              /\ h[i].rstime \in Nat /\ h[i].retime \in Nat /\ h[i].etime \in Nat
              /\ h[i].retime = 0 <=> h[i].action = 0
              /\ h[i].retime = 0 => i = m
              /\ h[i].etime = 0 <=> i = m
              /\ h[i].rstime <= n /\ h[i].retime <= n /\ h[i].etime <= n
              /\ h[i].retime # 0 => h[i].rstime <= h[i].retime
              /\ h[i].etime # 0 => h[i].retime <= h[i].etime
        /\ \A i, j \in 1 .. m : i < j => h[i].etime <= h[j].rstime
    <2>1. \A i \in 1 .. m : h[i] \in HistoryRecord
      BY <1>1, SMT
    <2> QED BY <1>1, <2>1 DEF HistInv, HistoryRecord
  <1> HIDE DEF m, c, e, f, b, g, k
  <1>8. ASSUME NEW i \in 1 .. m
        PROVE  /\ g[i].rstime = h[i].rstime /\ g[i].retime = h[i].retime
               /\ g[i].action = h[i].action /\ g[i].retime # 0
               /\ i = m => g[i].etime = n
               /\ i # m => g[i].etime = h[i].etime
    BY <1>5, <1>6, <1>7 DEF c
  <1>9. \A i \in 1 .. m + 1 : i \in 1 .. m \/ (i = m + 1 /\ g[i] = b)
    BY <1>1, <1>5, SMT
  <1>10. 1 \in 1 .. m /\ m + 1 \notin 1 .. m /\ m + 1 >= 1 /\ n <= n /\ n # 0 /\ 0 <= n
    BY <1>1, SMT
  <1>11. HistInv(g, n)
    <2>1. \A i \in 1 .. m + 1 :
             /\ g[i].retime = 0 <=> g[i].action = 0
             /\ g[i].retime = 0 => i = m + 1
             /\ g[i].etime = 0 <=> i = m + 1
             /\ g[i].rstime <= n /\ g[i].retime <= n /\ g[i].etime <= n
             /\ g[i].retime # 0 => g[i].rstime <= g[i].retime
             /\ g[i].etime # 0 => g[i].retime <= g[i].etime
      <3> TAKE i \in 1 .. m + 1
      <3>1. CASE i = m + 1 /\ g[i] = b
        BY <1>6, <1>10, <3>1
      <3>2. CASE i \in 1 .. m
        <4>1. i # m + 1
          BY <1>10, <3>2
        <4> QED BY <1>7, <1>8, <1>10, <3>2, <4>1
      <3> QED BY <1>9, <3>1, <3>2
    <2>2. ASSUME NEW i \in 1 .. m + 1, NEW j \in 1 .. m + 1, i < j
          PROVE  g[i].etime <= g[j].rstime
      <3>1. i \in 1 .. m /\ g[i].etime <= n
        <4>1. i \in 1 .. m
          BY <1>1, <2>2, SMT
        <4> QED BY <1>7, <1>8, <1>10, <4>1
      <3>2. CASE j = m + 1 /\ g[j] = b
        BY <1>6, <3>1, <3>2
      <3>3. CASE j \in 1 .. m
        <4>1. i # m
          BY <1>1, <2>2, <3>3, SMT
        <4> QED BY <1>7, <1>8, <2>2, <3>1, <3>3, <4>1
      <3> QED BY <1>9, <3>2, <3>3
    <2>3. g[1].rstime = 1
      BY <1>7, <1>8, <1>10
    <2> QED BY <1>1, <1>5, <1>10, <2>1, <2>2, <2>3 DEF HistInv, k
  <1>12. OnTime(g, n) = OnTime(h, n)
    <2>1. \A i \in 1 .. Len(h) :
              /\ g[i].rstime = h[i].rstime
              /\ h[i].retime # 0 => g[i].retime = h[i].retime /\ g[i].action = h[i].action
              /\ h[i].retime = 0 => g[i].retime \in {0, n}
              /\ g[i].etime = h[i].etime \/ (h[i].etime = 0 /\ g[i].etime = n)
      BY <1>7, <1>8 DEF m
    <2>2. /\ Len(h) <= Len(g)
          /\ \A i \in 1 .. Len(g) : i > Len(h) => g[i].rstime = n /\ g[i].retime = 0
      <3>1. Len(h) = m /\ Len(g) = m + 1 /\ m <= m + 1 /\ \A i \in 1 .. m : ~(i > m)
        BY <1>1, <1>5, SMT DEF m, k
      <3> QED BY <1>6, <1>9, <3>1
    <2> QED BY <1>11, <2>1, <2>2, SamePast
  <1>13. g[1].retime # 0
    BY <1>8, <1>10
  <1> QED BY <1>3, <1>11, <1>12, <1>13 DEF m, g, b

\* What is charged is worth no more than the billed time before last; and a VM
\* that ran in a billed state from the start was charged for each period.
Worth(h, n, l, c) == c * Period <= Amount * Cardinality({t \in OnTime(h, n) : t < l})

MeterInv ==
    /\ HistInv(history, at)
    /\ last \in 1 .. at /\ charged \in Nat
    /\ used = Cardinality(OnTime(history, at))
    /\ Worth(history, at, last, charged)
    /\ history[1].retime = 0 /\ used = at - 1 =>
          \E n \in Nat : last = 1 + n * Period /\ charged = Amount * n

LEMMA OnTimeSize ==
    ASSUME NEW h, NEW n \in Nat \ {0}
    PROVE  /\ OnTime(h, n) \subseteq 1 .. n - 1 /\ IsFiniteSet(OnTime(h, n))
           /\ Cardinality(OnTime(h, n)) \in Nat /\ Cardinality(OnTime(h, n)) <= n - 1
           /\ Cardinality(OnTime(h, n)) = n - 1 => OnTime(h, n) = 1 .. n - 1
  <1> DEFINE O == OnTime(h, n)
             T == 1 .. n - 1
  <1>1. O \in SUBSET T
    BY DEF OnTime
  <1>2. IsFiniteSet(T) /\ Cardinality(T) = n - 1
    <2>1. 1 \in Int /\ n - 1 \in Int
      BY SMT
    <2>2. IsFiniteSet(T) /\ Cardinality(T) = IF 1 > n - 1 THEN 0 ELSE (n - 1) - 1 + 1
      BY <2>1, FS_Interval
    <2> QED BY <2>2, SMT
  <1> HIDE DEF O, T
  <1>3. IsFiniteSet(O) /\ Cardinality(O) <= n - 1 /\ (Cardinality(T) = Cardinality(O) => T = O)
    BY <1>1, <1>2, FS_Subset
  <1>4. Cardinality(O) \in Nat
    BY <1>3, FS_CardinalityType
  <1> QED BY <1>1, <1>2, <1>3, <1>4 DEF O, T

LEMMA MeterStart == ASSUME Meter!Init PROVE MeterInv
  <1> DEFINE c == [rstime |-> 1, retime |-> 0, etime |-> 0, action |-> 0]
             h == <<c>>
  <1>1. at = 1 /\ history = h /\ last = 1 /\ charged = 0 /\ used = 0
    BY DEF Meter!Init
  <1>2. HistInv(h, 1)
    <2>1. c \in HistoryRecord /\ c.rstime = 1 /\ c.retime = 0 /\ c.etime = 0 /\ c.action = 0
      BY SMT DEF HistoryRecord
    <2> HIDE DEF c
    <2> QED BY <2>1, SMT DEF HistInv
  <1>3. OnTime(h, 1) = {} /\ {t \in OnTime(h, 1) : t < 1} = {}
    BY SMT DEF OnTime
  <1>4. Cardinality({}) = 0
    BY FS_EmptySet
  <1>5. /\ 0 * Period = 0 /\ Amount * 0 = 0 /\ 0 \in Nat /\ 1 \in 1 .. 1 /\ 0 <= 0 /\ 1 = 1 + 0
    <2>1. Period \in Nat /\ Amount \in Nat
      BY ComputationsAssumption
    <2> QED BY <2>1, SMT
  <1> HIDE DEF h
  <1>6. Worth(h, 1, 1, 0)
    BY <1>3, <1>4, <1>5 DEF Worth
  <1>7. \E n \in Nat : 1 = 1 + n * Period /\ 0 = Amount * n
    BY <1>5
  <1> QED BY <1>1, <1>2, <1>3, <1>4, <1>5, <1>6, <1>7 DEF MeterInv

LEMMA MeterTick == ASSUME MeterInv, Meter!Tick PROVE MeterInv'
  <1> DEFINE n == at + 1
             O == OnTime(history, at)
             B == Billed(Meter!State)
  <1>1. /\ at' = n /\ history' = history /\ last' = last /\ charged' = charged
        /\ used' = IF B THEN used + 1 ELSE used
    BY DEF Meter!Tick, Billed
  <1>2. /\ HistInv(history, at) /\ last \in 1 .. at /\ charged \in Nat /\ at \in Nat \ {0}
        /\ used = Cardinality(O) /\ Worth(history, at, last, charged)
    BY DEF MeterInv, HistInv
  <1>3. /\ O \subseteq 1 .. at - 1 /\ IsFiniteSet(O)
        /\ Cardinality(O) \in Nat /\ Cardinality(O) <= at - 1
    BY <1>2, OnTimeSize
  <1>4. HistInv(history, n)
    <2>1. n \in Nat \ {0} /\ \A x \in Nat : x <= at => x <= n
      BY <1>2, SMT
    <2>2. \A i \in 1 .. Len(history) :
             history[i].rstime \in Nat /\ history[i].retime \in Nat /\ history[i].etime \in Nat
      <3>1. \A i \in 1 .. Len(history) : history[i] \in HistoryRecord
        BY <1>2, SMT DEF HistInv
      <3> QED BY <3>1 DEF HistoryRecord
    <2> HIDE DEF n
    <2> QED BY <1>2, <2>1, <2>2 DEF HistInv
  <1>5. OnTime(history, n) = O \cup (IF B THEN {at} ELSE {})
    <2>1. B <=> \E s \in Timeline(history) : Billed(s.state) /\ Covers(s, at)
      BY <1>2, Present
    <2>2. \A t : t \in 1 .. n - 1 <=> t \in 1 .. at - 1 \/ t = at
      BY <1>2, SMT
    <2> HIDE DEF B, n
    <2> QED BY <2>1, <2>2 DEF OnTime
  <1>6. used' = Cardinality(OnTime(history, n))
    <2>1. at \notin O
      BY <1>2, <1>3, SMT
    <2>2. Cardinality(O \cup {at}) = Cardinality(O) + 1
      BY <1>3, <2>1, FS_AddElement
    <2> HIDE DEF O, B
    <2>3. CASE B
      BY <1>1, <1>2, <1>5, <2>2, <2>3
    <2>4. CASE ~B
      <3>1. OnTime(history, n) = O
        BY <1>5, <2>4
      <3> QED BY <1>1, <1>2, <2>4, <3>1
    <2> QED BY <2>3, <2>4
  <1>7. Worth(history, n, last, charged)
    <2>1. {t \in OnTime(history, n) : t < last} = {t \in O : t < last}
      <3>1. ~(at < last)
        BY <1>2, SMT
      <3> HIDE DEF O, B
      <3> QED BY <1>5, <3>1
    <2> QED BY <1>2, <2>1 DEF Worth
  <1>8. last \in 1 .. n
    BY <1>2, SMT
  <1>9. ASSUME history[1].retime = 0, used' = n - 1
        PROVE  \E i \in Nat : last = 1 + i * Period /\ charged = Amount * i
    <2>1. used = at - 1
      <3> HIDE DEF B, O
      <3> QED BY <1>1, <1>2, <1>3, <1>9, SMT
    <2> QED BY <1>9, <2>1 DEF MeterInv
  <1> HIDE DEF n
  <1> QED BY <1>1, <1>2, <1>4, <1>6, <1>7, <1>8, <1>9 DEF MeterInv

LEMMA MeterStops ==
    ASSUME MeterInv, NEW a \in {9, 20}, Meter!Stop(a) PROVE MeterInv'
  <1> DEFINE g == [history EXCEPT ![Len(history)].retime = at, ![Len(history)].action = a]
  <1>1. /\ history[Len(history)].retime = 0 /\ history' = g
        /\ at' = at /\ last' = last /\ charged' = charged /\ used' = used
    BY DEF Meter!Stop, Meter!Current
  <1>2. HistInv(g, at) /\ OnTime(g, at) = OnTime(history, at) /\ g[1].retime # 0
    BY <1>1, StopHistory DEF MeterInv
  <1> HIDE DEF g
  <1> QED BY <1>1, <1>2 DEF MeterInv, Worth

LEMMA MeterStarts == ASSUME MeterInv, Meter!Start PROVE MeterInv'
  <1> DEFINE g == Append([history EXCEPT ![Len(history)].etime = at],
                         [rstime |-> at, retime |-> 0, etime |-> 0, action |-> 0])
  <1>1. /\ history[Len(history)].retime # 0 /\ history' = g
        /\ at' = at /\ last' = last /\ charged' = charged /\ used' = used
    BY DEF Meter!Start, Meter!Current
  <1>2. HistInv(g, at) /\ OnTime(g, at) = OnTime(history, at) /\ g[1].retime # 0
    BY <1>1, StartHistory DEF MeterInv
  <1> HIDE DEF g
  <1> QED BY <1>1, <1>2 DEF MeterInv, Worth

\* A VM that ran all the time in a billed state has one slice per period,
\* which is all of it.
LEMMA SteadyRound ==
    ASSUME MeterInv, history[1].retime = 0, used = at - 1, Rounds(last, at) # 0
    PROVE  /\ RoundCharge = Amount * Rounds(last, at)
           /\ Meter!CapacityRecords # {}
  <1> DEFINE k == Rounds(last, at)
             R == Meter!CapacityRecords
             U == UNION {Own(r) : r \in R}
             s == Ran(history[1])
             W == last .. last + k * Period - 1
  <1>1. /\ HistInv(history, at) /\ last \in 1 .. at /\ last \in Nat \ {0} /\ at \in Nat \ {0}
        /\ last <= at /\ Period \in Nat \ {0} /\ Amount \in Nat
    <2>1. HistInv(history, at) /\ last \in 1 .. at /\ at \in Nat \ {0}
      BY DEF MeterInv, HistInv
    <2>2. Period \in Nat \ {0} /\ Amount \in Nat
      BY ComputationsAssumption
    <2> QED BY <2>1, <2>2, SMT
  <1>2. /\ k \in Nat /\ k # 0 /\ k * Period \in Nat /\ last + k * Period <= at
        /\ \A j \in 1 .. k : /\ From(last, j) \in Nat \ {0} /\ last <= From(last, j)
                             /\ From(last, j) + Period <= last + k * Period
        /\ \A t \in Nat : last <= t /\ t < last + k * Period =>
             \E j \in 1 .. k : From(last, j) <= t /\ t < From(last, j) + Period
    BY <1>1, PeriodsOver
  <1>3. s \in Timeline(history) /\ s.start = 1 /\ s.end = 0 /\ s.state = "RUNNING"
    <2>1. 1 \in 1 .. Len(history) /\ history[1].rstime = 1
      BY <1>1, SMT DEF HistInv
    <2>2. s \in Timeline(history)
      BY <1>1, <2>1, TimelineIs
    <2> QED BY <2>1, <2>2 DEF Ran, Meter!Stretch
  <1> HIDE DEF s
  <1>4. \A t \in Nat : t >= 1 => Covers(s, t)
    BY <1>3, SMT DEF Covers
  <1>5. \A u \in Timeline(history) : u = s
    <2> SUFFICES ASSUME NEW u \in Timeline(history) PROVE u = s
      OBVIOUS
    <2>1. u \in Stretches /\ u.start \in Nat \ {0} /\ u.end \in Nat /\ (u.end # 0 => u.start <= u.end)
      BY <1>1, Apart DEF Stretches
    <2>2. PICK i \in 1 .. Len(history) :
             u = Ran(history[i]) \/ (history[i].retime # 0 /\ u = Rested(history[i]))
      BY <1>1, TimelineIs
    <2>3. Len(history) = 1
      <3>1. 1 \in 1 .. Len(history)
        BY <1>1, SMT DEF HistInv
      <3> QED BY <1>1, <3>1 DEF HistInv
    <2>4. i = 1
      BY <2>3, SMT
    <2> QED BY <2>2, <2>4 DEF s
  <1>6. Billed(s.state)
    <2>1. OnTime(history, at) = 1 .. at - 1
      <3>1. Cardinality(OnTime(history, at)) = at - 1
        BY DEF MeterInv
      <3> QED BY <1>1, <3>1, OnTimeSize
    <2>2. 1 \in 1 .. at - 1
      <3>1. k * Period >= 1
        BY <1>1, <1>2, Z3
      <3> HIDE DEF k
      <3> QED BY <1>1, <1>2, <3>1, SMT
    <2>3. 1 \in OnTime(history, at)
      BY <2>1, <2>2
    <2> QED BY <1>5, <2>3 DEF OnTime
  <1>7. ASSUME NEW j \in 1 .. k
        PROVE  LET f == From(last, j)
                   r == Slice(s, f, at)
               IN  /\ r \in R /\ r.start = f /\ r.end = f + Period
                   /\ InPeriod(s, f, at)
                   /\ r.total * Period = Amount * Cardinality(Own(r))
    <2> DEFINE f == From(last, j)
               r == Slice(s, f, at)
               st == r.start
               en == r.end
    <2>1. f \in Nat \ {0} /\ f + Period <= at /\ 1 <= f /\ f <= at
      <3>1. f \in Nat \ {0} /\ f + Period <= last + k * Period
        BY <1>2
      <3> HIDE DEF f, k
      <3> QED BY <1>1, <1>2, <3>1, SMT
    <2> HIDE DEF f
    <2>2. Till(s, at) = at
      BY <1>3 DEF Till
    <2>3. InPeriod(s, f, at)
      <3>1. f <= at /\ 1 <= f + Period
        BY <1>1, <2>1, SMT
      <3> QED BY <1>3, <1>6, <2>2, <3>1 DEF InPeriod
    <2>4. st = f /\ en = f + Period
      <3>1. /\ st = (IF 1 < f THEN f ELSE 1)
            /\ en = (IF at > f + Period THEN f + Period ELSE at)
        BY <1>3, <2>2 DEF Slice
      <3> HIDE DEF st, en
      <3> QED BY <1>1, <2>1, <3>1, SMT
    <2>5. r.total * Period = Amount * (en - st)
      <3>1. /\ s \in Stretches /\ s.start <= at /\ s.end <= at
            /\ (s.end # 0 => s.start <= s.end)
        BY <1>1, <1>3, Apart
      <3> QED BY <1>1, <2>1, <2>3, <2>4, <3>1, SliceFacts
    <2>6. Cardinality(Own(r)) = en - st
      <3>1. Own(r) = f .. (f + Period) - 1
        BY <2>4 DEF Own
      <3>2. f \in Int /\ (f + Period) - 1 \in Int
        BY <1>1, <2>1, SMT
      <3>3. Cardinality(f .. (f + Period) - 1)
              = IF f > (f + Period) - 1 THEN 0 ELSE ((f + Period) - 1) - f + 1
        BY <3>2, FS_Interval
      <3>4. Cardinality(f .. (f + Period) - 1) = (f + Period) - f
        BY <1>1, <2>1, <3>3, SMT
      <3> QED BY <2>4, <3>1, <3>4
    <2>7. r \in R
      BY <1>1, <1>3, <2>3, RecordsAre DEF f
    <2> QED BY <2>3, <2>4, <2>5, <2>6, <2>7 DEF f
  <1>8. \A r \in R : \E j \in 1 .. k : r = Slice(s, From(last, j), at)
    BY <1>1, <1>5, RecordsAre
  <1>9. \A r \in R : r.total * Period = Amount * Cardinality(Own(r))
    BY <1>7, <1>8
  <1>10. U = W
    <2>1. ASSUME NEW t \in U PROVE t \in W
      <3>1. PICK r \in R : t \in Own(r)
        OBVIOUS
      <3>2. PICK j \in 1 .. k : r = Slice(s, From(last, j), at)
        BY <1>8
      <3> DEFINE f == From(last, j)
                 e == k * Period
      <3>3. t \in f .. (f + Period) - 1
        BY <1>7, <3>1, <3>2 DEF Own
      <3>4. f \in Nat /\ last <= f /\ f + Period <= last + e /\ e \in Nat
        BY <1>2
      <3> HIDE DEF f, e
      <3>5. t \in last .. last + e - 1
        BY <1>1, <3>3, <3>4, SMT
      <3> QED BY <3>5 DEF e
    <2>2. ASSUME NEW t \in W PROVE t \in U
      <3> DEFINE e == k * Period
      <3>1. e \in Nat
        BY <1>2
      <3>2. t \in last .. last + e - 1
        BY <2>2
      <3> HIDE DEF e
      <3>3. t \in Nat /\ last <= t /\ t < last + e
        BY <1>1, <3>1, <3>2, SMT
      <3>4. PICK j \in 1 .. k : From(last, j) <= t /\ t < From(last, j) + Period
        BY <1>2, <3>3 DEF e
      <3> DEFINE f == From(last, j)
                 r == Slice(s, f, at)
      <3>5. r \in R /\ r.start = f /\ r.end = f + Period /\ f \in Nat
        BY <1>2, <1>7
      <3>6. t \in f .. (f + Period) - 1
        <4>1. f <= t /\ t < f + Period /\ f \in Nat
          BY <3>4, <3>5
        <4> HIDE DEF f
        <4> QED BY <1>1, <3>3, <4>1, SMT
      <3>7. t \in Own(r)
        <4> HIDE DEF f, r
        <4> QED BY <3>5, <3>6 DEF Own
      <3> HIDE DEF r
      <3> QED BY <3>5, <3>7
    <2> HIDE DEF U, W
    <2> QED BY <2>1, <2>2
  <1>11. Cardinality(W) = k * Period
    <2> DEFINE e == k * Period
    <2>1. e \in Nat /\ last \in Int /\ last + e - 1 \in Int /\ e >= 1
      <3>1. e >= 1
        BY <1>1, <1>2, Z3
      <3>2. e \in Nat
        BY <1>2
      <3> HIDE DEF e
      <3> QED BY <1>1, <3>1, <3>2, SMT
    <2>2. W = last .. last + e - 1
      OBVIOUS
    <2> HIDE DEF e, W
    <2>3. Cardinality(W) = IF last > last + e - 1 THEN 0 ELSE (last + e - 1) - last + 1
      BY <2>1, <2>2, FS_Interval
    <2>4. Cardinality(W) = e
      BY <1>1, <2>1, <2>3, SMT
    <2> QED BY <2>4 DEF e
  <1>12. RoundCharge \in Nat /\ RoundCharge * Period = Amount * (k * Period)
    <2>1. RoundCharge \in Nat /\ RoundCharge * Period = Amount * Cardinality(U)
      BY <1>1, <1>9, RoundFacts
    <2> QED BY <1>10, <1>11, <2>1
  <1>13. RoundCharge = Amount * k
    <2> DEFINE x == RoundCharge
    <2>1. x \in Nat /\ x * Period = Amount * (k * Period)
      BY <1>12
    <2> HIDE DEF x, k
    <2>2. Amount * k \in Nat /\ (Amount * k) * Period = Amount * (k * Period)
      BY <1>1, <1>2, Z3
    <2> DEFINE y == Amount * k
    <2>3. y \in Nat /\ x * Period = y * Period
      BY <2>1, <2>2
    <2> HIDE DEF y
    <2>4. x = y
      <3>1. x * Period \in Nat /\ y * Period \in Nat
        BY <1>1, <2>1, <2>3, Z3
      <3>2. x < y => x * Period < y * Period
        BY <1>1, <2>1, <2>3, Z3
      <3>3. y < x => y * Period < x * Period
        BY <1>1, <2>1, <2>3, Z3
      <3> QED BY <2>1, <2>3, <3>1, <3>2, <3>3, SMT
    <2> QED BY <2>4 DEF x, y
  <1>14. R # {}
    <2>1. 1 \in 1 .. k
      BY <1>2, SMT
    <2> QED BY <1>7, <2>1
  <1> QED BY <1>13, <1>14

LEMMA MeterBills == ASSUME MeterInv, Meter!Bill PROVE MeterInv'
  <1> DEFINE k == Rounds(last, at)
             e == k * Period
             R == Meter!CapacityRecords
             c == RoundCharge
             O == OnTime(history, at)
             U == UNION {Own(r) : r \in R}
             L == IF R = {} THEN last ELSE last + e
             Old == {t \in O : t < last}
             New == {t \in O : t < L}
  <1>1. /\ HistInv(history, at) /\ last \in 1 .. at /\ last \in Nat \ {0} /\ at \in Nat \ {0}
        /\ last <= at /\ charged \in Nat /\ used = Cardinality(O)
        /\ charged * Period <= Amount * Cardinality(Old)
        /\ Period \in Nat \ {0} /\ Amount \in Nat
    <2>1. HistInv(history, at) /\ last \in 1 .. at /\ at \in Nat \ {0}
      BY DEF MeterInv, HistInv
    <2>2. Period \in Nat \ {0} /\ Amount \in Nat
      BY ComputationsAssumption
    <2>3. last \in Nat \ {0} /\ last <= at
      BY <2>1, SMT
    <2> QED BY <2>1, <2>2, <2>3 DEF MeterInv, Worth
  <1>2. k \in Nat /\ e \in Nat /\ last + e <= at
    BY <1>1, PeriodsOver
  <1>3. /\ charged' = charged + c /\ last' = L
        /\ at' = at /\ history' = history /\ used' = used
    <2>1. Meter!CapacityEnd = last + e
      <3>1. 0 * Period = 0 /\ last + 0 = last
        BY <1>1, SMT
      <3> QED BY <3>1 DEF Meter!CapacityEnd, Rounds
    <2> QED BY <2>1 DEF Meter!Bill, RoundCharge
  <1>4. /\ c \in Nat /\ c * Period <= Amount * Cardinality(U)
        /\ U \subseteq {t \in O : last <= t /\ t < last + e}
        /\ R = {} => c = 0
    BY <1>1, RoundFacts
  <1>5. L \in 1 .. at /\ last <= L
    <2> HIDE DEF R, e
    <2> QED BY <1>1, <1>2, SMT
  <1>6. Cardinality(Old) + Cardinality(U) <= Cardinality(New)
        /\ Cardinality(Old) \in Nat /\ Cardinality(U) \in Nat /\ Cardinality(New) \in Nat
    <2>1. O \subseteq 1 .. at - 1 /\ IsFiniteSet(O)
      BY <1>1, OnTimeSize
    <2>2. O \subseteq Int
      <3>1. 1 .. at - 1 \subseteq Int
        BY SMT
      <3> QED BY <2>1, <3>1
    <2>3. U \subseteq New
      <3>1. R = {} => U = {}
        OBVIOUS
      <3>2. R # {} => U \subseteq New
        BY <1>4
      <3> QED BY <3>1, <3>2
    <2> HIDE DEF U
    <2>4. Old \subseteq New
      <3>1. \A t \in O : t < last => t < L
        <4> HIDE DEF L, O
        <4> QED BY <1>1, <1>5, <2>2, SMT
      <3> QED BY <3>1
    <2>5. Old \cap U = {}
      <3>1. \A t \in O : ~(t < last /\ last <= t)
        <4> HIDE DEF O
        <4> QED BY <1>1, <2>2, SMT
      <3> QED BY <1>4, <3>1
    <2>6. Old \subseteq O /\ New \subseteq O
      OBVIOUS
    <2> HIDE DEF Old, New, O, L
    <2>7. /\ IsFiniteSet(New) /\ IsFiniteSet(Old) /\ IsFiniteSet(U)
          /\ IsFiniteSet(Old \cup U)
      BY <2>1, <2>3, <2>6, FS_Subset, FS_Union
    <2>8. /\ Cardinality(New) \in Nat /\ Cardinality(Old) \in Nat /\ Cardinality(U) \in Nat
      BY <2>7, FS_CardinalityType
    <2>9. Cardinality(Old \cup U) = Cardinality(Old) + Cardinality(U)
      <3>1. Cardinality(Old \cup U) = Cardinality(Old) + Cardinality(U) - Cardinality(Old \cap U)
        BY <2>7, FS_Union
      <3>2. Cardinality(Old \cap U) = 0
        BY <2>5, FS_EmptySet
      <3> QED BY <2>8, <3>1, <3>2, SMT
    <2>10. Cardinality(Old \cup U) <= Cardinality(New)
      <3>1. Old \cup U \in SUBSET New
        BY <2>3, <2>4
      <3> QED BY <2>7, <3>1, FS_Subset
    <2> QED BY <2>8, <2>9, <2>10
  <1>7. Worth(history, at, L, charged + c)
    <2> DEFINE x == Cardinality(Old)
               y == Cardinality(U)
               z == Cardinality(New)
               v == charged
    <2>1. /\ x + y <= z /\ x \in Nat /\ y \in Nat /\ z \in Nat
          /\ v * Period <= Amount * x /\ c * Period <= Amount * y /\ v \in Nat /\ c \in Nat
      BY <1>1, <1>4, <1>6
    <2> HIDE DEF x, y, z, v, c
    <2>2. /\ (v + c) * Period = v * Period + c * Period
          /\ v * Period \in Nat /\ c * Period \in Nat
          /\ Amount * (x + y) = Amount * x + Amount * y
          /\ Amount * x \in Nat /\ Amount * y \in Nat /\ Amount * z \in Nat
      BY <1>1, <2>1, Z3
    <2>3. Amount * (x + y) <= Amount * z
      BY <1>1, <2>1, Z3
    <2>4. (v + c) * Period <= Amount * z
      BY <2>1, <2>2, <2>3, SMT
    <2> QED BY <2>4 DEF Worth, z, v
  <1>8. ASSUME history[1].retime = 0, used = at - 1
        PROVE  \E n \in Nat : L = 1 + n * Period /\ charged + c = Amount * n
    <2>1. PICK n \in Nat : last = 1 + n * Period /\ charged = Amount * n
      BY <1>8 DEF MeterInv
    <2>2. CASE k = 0
      <3>1. e = 0 /\ last + 0 = last /\ charged + 0 = charged
        BY <1>1, <2>2, SMT
      <3>2. R = {}
        <4>1. 1 .. k = {}
          BY <2>2, SMT
        <4> QED BY <1>1, <4>1, RecordsAre
      <3>3. c = 0 /\ L = last
        BY <1>4, <3>2
      <3> QED BY <2>1, <3>1, <3>3
    <2>3. CASE k # 0
      <3>1. c = Amount * k /\ L = last + e
        BY <1>8, <2>3, SteadyRound
      <3> HIDE DEF c, L, k
      <3>2. /\ 1 + (n + k) * Period = (1 + n * Period) + k * Period
            /\ Amount * (n + k) = Amount * n + Amount * k /\ n + k \in Nat
        BY <1>1, <1>2, Z3
      <3> QED BY <2>1, <3>1, <3>2
    <2> QED BY <2>2, <2>3
  <1>9. charged + c \in Nat
    <2> HIDE DEF c
    <2> QED BY <1>1, <1>4, SMT
  <1> HIDE DEF c, L, O
  <1> QED BY <1>1, <1>3, <1>5, <1>7, <1>8, <1>9 DEF MeterInv, O

LEMMA MeterStep == ASSUME MeterInv, [Meter!Next]_(Meter!vars) PROVE MeterInv'
  <1>1. CASE Meter!Tick
    BY <1>1, MeterTick
  <1>2. CASE Meter!Stop(9) \/ Meter!Stop(20)
    BY <1>2, MeterStops
  <1>3. CASE Meter!Start
    BY <1>3, MeterStarts
  <1>4. CASE Meter!Bill
    BY <1>4, MeterBills
  <1>5. CASE UNCHANGED Meter!vars
    BY <1>5 DEF Meter!vars, MeterInv, Worth
  <1> QED BY <1>1, <1>2, <1>3, <1>4, <1>5
        DEF Meter!Next, Meter!SuspendAction, Meter!PoweroffAction

LEMMA MeterSteps == SpecTask => []MeterInv
  <1>1. InitTask => MeterInv
    BY MeterStart DEF InitTask
  <1>2. MeterInv /\ [NextTask]_<<task, vars, months, meter, notices>> => MeterInv'
    <2> SUFFICES ASSUME MeterInv, [NextTask]_<<task, vars, months, meter, notices>>
                 PROVE  MeterInv'
      OBVIOUS
    <2>1. CASE Meter!Next
      BY <2>1, MeterStep
    <2>2. CASE UNCHANGED meter
      BY <2>2, MeterStep DEF meter, Meter!vars
    <2> QED BY <2>1, <2>2 DEF NextTask
  <1> QED BY <1>1, <1>2, PTL DEF SpecTask

\* However often the VM is stopped and started, and whenever the rounds come,
\* for any amount, period and list of billed states: the customer never pays
\* for more time than the VM spent in a billed state.
THEOREM NeverOvercharges == SpecTask => []NeverOvercharged
  <1>1. MeterInv => NeverOvercharged
    <2> SUFFICES ASSUME MeterInv PROVE charged * Period <= Amount * used
      BY DEF NeverOvercharged, Meter!NeverOvercharged
    <2> DEFINE O == OnTime(history, at)
               Old == {t \in O : t < last}
               x == Cardinality(Old)
    <2>1. at \in Nat \ {0} /\ used = Cardinality(O) /\ charged * Period <= Amount * x
          /\ charged \in Nat
      BY DEF MeterInv, HistInv, Worth
    <2>2. IsFiniteSet(O) /\ used \in Nat
      BY <2>1, OnTimeSize
    <2>3. x \in Nat /\ x <= used
      <3>1. Old \in SUBSET O
        OBVIOUS
      <3> HIDE DEF Old, O
      <3> QED BY <2>1, <2>2, <3>1, FS_Subset, FS_CardinalityType
    <2>4. Period \in Nat /\ Amount \in Nat
      BY ComputationsAssumption
    <2> HIDE DEF x
    <2>5. Amount * x <= Amount * used /\ Amount * x \in Nat /\ Amount * used \in Nat
          /\ charged * Period \in Nat
      BY <2>1, <2>2, <2>3, <2>4, Z3
    <2> QED BY <2>1, <2>5, SMT
  <1> QED BY <1>1, MeterSteps, PTL

\* For any amount and period: a VM that has run in a billed state without a
\* stop pays for every period that ended by its last_monitoring, and once.
THEOREM SteadyUseCharges == SpecTask => []SteadyUseCharged
  <1>1. MeterInv => SteadyUseCharged
    <2> SUFFICES ASSUME MeterInv, history[1].retime = 0, used = at - 1
                 PROVE  charged = Amount * ((last - 1) \div Period)
      BY DEF SteadyUseCharged, Meter!SteadyUseCharged
    <2>1. PICK n \in Nat : last = 1 + n * Period /\ charged = Amount * n
      BY DEF MeterInv
    <2>2. Period \in Nat \ {0}
      BY ComputationsAssumption
    <2> DEFINE d == last - 1
    <2>3. d \in Nat /\ d = n * Period
      <3>1. n * Period \in Nat
        BY <2>2, Z3
      <3> QED BY <2>1, <3>1, SMT
    <2> HIDE DEF d
    <2>4. n * Period <= d /\ d < n * Period + Period
      BY <2>2, <2>3, SMT
    <2>5. d \div Period = n
      BY <2>2, <2>3, <2>4, QuotientIs
    <2> QED BY <2>1, <2>5 DEF d
  <1> QED BY <1>1, MeterSteps, PTL

=============================================================================
