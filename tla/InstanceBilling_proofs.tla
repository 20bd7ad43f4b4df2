----------------------- MODULE InstanceBilling_proofs -----------------------
(***************************************************************************)
(* Theorems about InstanceBilling for every billing plan, every creation   *)
(* time and every bound: its billing loops, the invariants of the books,   *)
(* the sums over the items and the funds, and that the billing of prepaid  *)
(* items implements PrepaidAccount.                                        *)
(*                                                                         *)
(* NoDoubleCharge is not inductive: that the records are in order says     *)
(* nothing of the next one.  The invariant adds that they end by           *)
(* last_monitoring, where the next record starts, and that an item without *)
(* a last_monitoring has no records.  PaidExactly needs besides that every *)
(* prepaid resource has been billed by the time the product has, because   *)
(* manual_renew would otherwise bill it from 0.                            *)
(***************************************************************************)
EXTENDS InstanceBilling, FiniteSetTheorems, SequenceTheorems, WellFoundedInduction,
        TLAPS

-----------------------------------------------------------------------------
(* The record-producing loops, for every last, now and p.                  *)

\* Whole periods: the quotient leaves less than one period over.
LEMMA Quotient ==
    ASSUME NEW n \in Nat, NEW p \in Nat \ {0}
    PROVE  /\ n \div p \in Nat
           /\ (n \div p) * p <= n
           /\ n < (n \div p) * p + p
  <1>1. n \div p \in Int /\ n % p \in 0 .. p - 1 /\ n = p * (n \div p) + (n % p)
    BY Z3
  <1>2. n \div p >= 0
    BY SMT
  <1> QED BY <1>1, <1>2, SMT

\* n whole periods laid end to end: they start at last, end n periods later
\* and each begins where the one before it ends.
LEMMA TilesFacts ==
    ASSUME NEW last \in Int, NEW n \in Nat, NEW p \in Nat \ {0}
    PROVE  /\ Tiles(last, n, p) \in Seq([start : Int, end : Int])
           /\ Len(Tiles(last, n, p)) = n
           /\ n > 0 => /\ Tiles(last, n, p)[1].start = last
                       /\ Tiles(last, n, p)[n].end = last + n * p
           /\ \A i \in 1 .. n - 1 :
                 Tiles(last, n, p)[i].end = Tiles(last, n, p)[i + 1].start
           /\ \A i \in 1 .. n : /\ last <= Tiles(last, n, p)[i].start
                               /\ Tiles(last, n, p)[i].end <= last + n * p
           /\ \A i, j \in 1 .. n :
                 i < j => Tiles(last, n, p)[i].end <= Tiles(last, n, p)[j].start
  <1> DEFINE T == Tiles(last, n, p)
  <1>1. \A i \in 1 .. n : i * p \in Int /\ (i - 1) * p \in Int
    BY SMT
  <1>2. /\ T \in Seq([start : Int, end : Int])
        /\ Len(T) = n
    BY <1>1, SMT DEF Tiles, Span
  <1>3. \A i \in 1 .. n : T[i].start = last + (i - 1) * p /\ T[i].end = last + i * p
    BY SMT DEF Tiles, Span
  <1>4. \A i \in 1 .. n - 1 : T[i].end = T[i + 1].start
    <2> TAKE i \in 1 .. n - 1
    <2>1. i + 1 \in 1 .. n /\ (i + 1) - 1 = i
      OBVIOUS
    <2> QED BY <1>3, <2>1
  <1>5. \A i, j \in Nat : i <= j => i * p <= j * p
    BY Z3
  <1>6. \A i \in 1 .. n : last <= T[i].start /\ T[i].end <= last + n * p
    <2> TAKE i \in 1 .. n
    <2>1. i - 1 \in Nat /\ i \in Nat /\ i <= n
      OBVIOUS
    <2>2. 0 <= (i - 1) * p /\ i * p <= n * p
      BY <1>5, <2>1, SMT
    <2> QED BY <1>1, <1>3, <2>2, SMT
  <1>7. \A i, j \in 1 .. n : i < j => T[i].end <= T[j].start
    <2> SUFFICES ASSUME NEW i \in 1 .. n, NEW j \in 1 .. n, i < j
                 PROVE  T[i].end <= T[j].start
      OBVIOUS
    <2>1. i \in Nat /\ j - 1 \in Nat /\ i <= j - 1
      BY SMT
    <2>2. i * p <= (j - 1) * p
      BY <1>5, <2>1
    <2> QED BY <1>1, <1>3, <2>2, SMT
  <1>8. n > 0 => T[1].start = last /\ T[n].end = last + n * p
    <2> SUFFICES ASSUME n > 0 PROVE T[1].start = last /\ T[n].end = last + n * p
      OBVIOUS
    <2>1. 1 \in 1 .. n /\ n \in 1 .. n /\ (1 - 1) * p = 0
      BY SMT
    <2> QED BY <1>3, <2>1, SMT
  <1> HIDE DEF T
  <1>9. QED BY <1>2, <1>4, <1>6, <1>7, <1>8 DEF T

\* The PREPAID loops bill if and only if the last period has begun, and then
\* leave last beyond the present by at most one period: the next round at
\* the same instant bills nothing.
THEOREM PrepaidEndsAhead ==
    ASSUME NEW last \in Int, NEW t \in Int, NEW p \in Nat \ {0}
    PROVE  /\ Begun(last, t, p) \in Nat
           /\ last <= t => /\ Begun(last, t, p) > 0
                          /\ t < PrepaidLast(last, t, p)
                          /\ PrepaidLast(last, t, p) <= t + p
           /\ last > t => Begun(last, t, p) = 0
  <1>1. CASE last > t
    BY <1>1 DEF Begun
  <1>2. CASE last <= t
    <2> DEFINE q == (t - last) \div p
    <2>1. t - last \in Nat
      BY <1>2, SMT
    <2>2. q \in Nat /\ q * p <= t - last /\ t - last < q * p + p
      BY <2>1, Quotient
    <2>3. Begun(last, t, p) = q + 1
      BY <1>2 DEF Begun
    <2> HIDE DEF q
    <2>4. (q + 1) * p = q * p + p /\ q * p \in Int
      BY <2>2, Z3
    <2>5. PrepaidLast(last, t, p) = last + (q * p + p)
      BY <2>3, <2>4 DEF PrepaidLast
    <2> QED BY <1>2, <2>2, <2>3, <2>4, <2>5, SMT
  <1> QED BY <1>1, <1>2, SMT

\* The POSTPAID loop of a resource bills finished periods only, and all of
\* them: what is left over is less than one period.
THEOREM CapacityStaysBehind ==
    ASSUME NEW last \in Int, NEW t \in Int, NEW p \in Nat \ {0}, last <= t
    PROVE  /\ Elapsed(last, t, p) \in Nat
           /\ CapacityLast(last, t, p) <= t
           /\ t < CapacityLast(last, t, p) + p
  <1> DEFINE q == (t - last) \div p
  <1>1. t - last \in Nat
    BY SMT
  <1>2. q \in Nat /\ q * p <= t - last /\ t - last < q * p + p
    BY <1>1, Quotient
  <1>3. CASE last + p <= t
    <2>1. Elapsed(last, t, p) = q /\ CapacityLast(last, t, p) = last + q * p
      BY <1>3 DEF Elapsed, CapacityLast
    <2> HIDE DEF q
    <2>2. q * p \in Int
      BY <1>2, SMT
    <2> QED BY <1>2, <2>1, <2>2, SMT
  <1>4. CASE ~(last + p <= t)
    <2>1. Elapsed(last, t, p) = 0 /\ CapacityLast(last, t, p) = last + 0 * p
      BY <1>4 DEF Elapsed, CapacityLast
    <2> QED BY <1>4, <2>1, SMT
  <1> QED BY <1>3, <1>4

-----------------------------------------------------------------------------
(* Sums over a set of items.  MapThenSumSet is a recursive function on the  *)
(* subsets of the set; that there is one, and what it returns, is shown by  *)
(* induction on their sizes, which WFMin of the library gives for sets.     *)

\* A set of naturals has a least element.
LEMMA Least ==
    ASSUME NEW T \in SUBSET Nat, T # {}
    PROVE  \E x \in T : \A y \in T : x <= y
  <1> DEFINE R == OpToRel(<, Nat)
  <1>1. IsWellFoundedOn(R, Nat)
    BY NatLessThanWellFounded
  <1>2. \A x, y \in Nat : x < y => <<x, y>> \in R
    BY DEF OpToRel
  <1> HIDE DEF R
  <1>3. PICK x \in T : \A y \in T : <<y, x>> \notin R
    BY <1>1, WFMin
  <1>4. \A y \in T : x <= y
    <2> TAKE y \in T
    <2>1. x \in Nat /\ y \in Nat /\ ~(y < x)
      BY <1>2, <1>3
    <2> QED BY <2>1, SMT
  <1> QED BY <1>4

\* Induction, for a set S in the place of a predicate.
LEMMA Induct ==
    ASSUME NEW S, 0 \in S, \A n \in Nat : n \in S => n + 1 \in S
    PROVE  Nat \subseteq S
  <1> SUFFICES ASSUME Nat \ S # {} PROVE FALSE
    OBVIOUS
  <1>1. PICK x \in Nat \ S : \A y \in Nat \ S : x <= y
    <2> DEFINE T == Nat \ S
    <2>1. T \in SUBSET Nat /\ T # {}
      OBVIOUS
    <2> HIDE DEF T
    <2>2. \E x \in T : \A y \in T : x <= y
      BY <2>1, Least
    <2> QED BY <2>2 DEF T
  <1>2. x # 0 /\ x - 1 \in Nat /\ x - 1 \notin Nat \ S
    BY <1>1, SMT
  <1>3. x - 1 + 1 \in S
    BY <1>2
  <1> QED BY <1>1, <1>3, SMT


\* h takes each subset s of S to the sum of w over s.
SumUp(h, w, S) ==
    h = [s \in SUBSET S |->
           IF s = {} THEN 0
           ELSE w[CHOOSE x \in s : TRUE] + h[s \ {CHOOSE x \in s : TRUE}]]

\* The subset without the element that is added first is smaller.
LEMMA Smaller ==
    ASSUME NEW S, IsFiniteSet(S), NEW s \in SUBSET S, s # {}
    PROVE  LET x == CHOOSE x \in s : TRUE
           IN  /\ x \in s /\ s \ {x} \in SUBSET S
               /\ Cardinality(s) \in Nat
               /\ Cardinality(s \ {x}) = Cardinality(s) - 1
  <1>1. IsFiniteSet(s)
    BY FS_Subset
  <1> DEFINE x == CHOOSE y \in s : TRUE
  <1>2. x \in s
    OBVIOUS
  <1> HIDE DEF x
  <1>3. Cardinality(s) \in Nat /\ Cardinality(s \ {x}) = Cardinality(s) - 1
    BY <1>1, <1>2, FS_RemoveElement, FS_CardinalityType
  <1> QED BY <1>2, <1>3 DEF x

\* There is such a function: any function becomes right for one size more
\* by one more expansion of the equation.
LEMMA SumExists ==
    ASSUME NEW S, IsFiniteSet(S), NEW w
    PROVE  \E h : SumUp(h, w, S)
  <1> DEFINE c(s) == CHOOSE x \in s : TRUE
             next(h) == [s \in SUBSET S |-> IF s = {} THEN 0 ELSE w[c(s)] + h[s \ {c(s)}]]
             upto(n) == {s \in SUBSET S : Cardinality(s) <= n}
             N == {n \in Nat : \E h : \A s \in upto(n) : h[s] = next(h)[s]}
  <1>1. 0 \in N
    <2>1. \A s \in upto(0) : s = {}
      <3> TAKE s \in upto(0)
      <3>1. IsFiniteSet(s) /\ Cardinality(s) \in Nat
        BY FS_Subset, FS_CardinalityType
      <3> QED BY <3>1, FS_EmptySet, SMT
    <2> DEFINE h == [s \in SUBSET S |-> 0]
    <2>2. \A s \in upto(0) : h[s] = next(h)[s]
      BY <2>1
    <2> QED BY <2>2
  <1>2. ASSUME NEW n \in Nat, n \in N PROVE n + 1 \in N
    <2>1. PICK h : \A s \in upto(n) : h[s] = next(h)[s]
      BY <1>2
    <2> DEFINE k == next(h)
    <2>2. \A s \in upto(n) : k[s] = h[s]
      BY <2>1
    <2>3. ASSUME NEW s \in upto(n + 1) PROVE k[s] = next(k)[s]
      <3>1. CASE s = {}
        BY <3>1
      <3>2. CASE s # {}
        <4>1. s \ {c(s)} \in upto(n)
          BY <3>2, <2>3, Smaller
        <4>2. k[s \ {c(s)}] = h[s \ {c(s)}]
          BY <4>1, <2>2
        <4> QED BY <3>2, <4>2
      <3> QED BY <3>1, <3>2
    <2> HIDE DEF k, next, upto
    <2>4. \E g : \A s \in upto(n + 1) : g[s] = next(g)[s]
      BY <2>3
    <2> QED BY <2>4
  <1>3. Cardinality(S) \in N
    <2> HIDE DEF N
    <2>1. Nat \subseteq N
      BY <1>1, <1>2, Induct
    <2> QED BY <2>1, FS_CardinalityType
  <1>4. PICK h : \A s \in upto(Cardinality(S)) : h[s] = next(h)[s]
    BY <1>3
  <1>5. upto(Cardinality(S)) = SUBSET S
    BY FS_Subset
  <1>6. \A s \in SUBSET S : h[s] = next(h)[s]
    BY <1>4, <1>5
  <1> DEFINE k == [s \in SUBSET S |-> h[s]]
  <1>7. k = next(k)
    <2>1. \A s \in SUBSET S : s # {} => s \ {c(s)} \in SUBSET S
      OBVIOUS
    <2>2. \A s \in SUBSET S : k[s] = next(k)[s]
      BY <1>6, <2>1
    <2> QED BY <2>2
  <1> QED BY <1>7 DEF SumUp

\* What is summed up over naturals is one.
LEMMA SumType ==
    ASSUME NEW S, IsFiniteSet(S), NEW w \in [S -> Nat], NEW h, SumUp(h, w, S)
    PROVE  h[S] \in Nat
  <1> DEFINE c(s) == CHOOSE x \in s : TRUE
             N == {n \in Nat : \A s \in SUBSET S : Cardinality(s) <= n => h[s] \in Nat}
  <1>1. \A s \in SUBSET S : h[s] = IF s = {} THEN 0 ELSE w[c(s)] + h[s \ {c(s)}]
    BY DEF SumUp
  <1>2. 0 \in N
    <2> SUFFICES ASSUME NEW s \in SUBSET S, Cardinality(s) <= 0 PROVE h[s] \in Nat
      OBVIOUS
    <2>1. IsFiniteSet(s) /\ Cardinality(s) \in Nat
      BY FS_Subset, FS_CardinalityType
    <2>2. s = {}
      BY <2>1, FS_EmptySet, SMT
    <2>3. h[s] = 0
      BY <1>1, <2>2, Zenon
    <2> QED BY <2>3
  <1>3. ASSUME NEW n \in Nat, n \in N PROVE n + 1 \in N
    <2> SUFFICES ASSUME NEW s \in SUBSET S, Cardinality(s) <= n + 1, s # {} PROVE h[s] \in Nat
      BY <1>1
    <2>1. c(s) \in S /\ s \ {c(s)} \in SUBSET S /\ Cardinality(s \ {c(s)}) <= n
      BY Smaller
    <2>2. h[s \ {c(s)}] \in Nat /\ w[c(s)] \in Nat
      BY <1>3, <2>1
    <2>3. h[s] = w[c(s)] + h[s \ {c(s)}]
      BY <1>1, Zenon
    <2> HIDE DEF c
    <2> QED BY <2>2, <2>3
  <1> HIDE DEF N
  <1>4. Cardinality(S) \in N
    BY <1>2, <1>3, Induct, FS_CardinalityType
  <1> QED BY <1>4 DEF N

-----------------------------------------------------------------------------
(* The books.                                                              *)

Within(recs, to) == \A i \in 1 .. Len(recs) : recs[i].end <= to

\* The records of an item whose last_monitoring is lm, present or not.
InOrder(recs, present, lm) ==
    /\ ~present => recs = << >>
    /\ Within(recs, lm)
    /\ Ordered(recs)

Exact(recs, present, lm) ==
    IF present THEN Created <= lm /\ Covers(recs, Created, lm) ELSE recs = << >>

OrderInv ==
    \A it \in Items : Tracked(it) /\ ~clawed[it] =>
        InOrder(ledger[it], it \in data.keys, data.lm[it])

ExactInv ==
    \A it \in Items : Prepaid(it) /\ ~clawed[it] /\ ~skewed[it] =>
        Exact(ledger[it], it \in data.keys, data.lm[it])

\* manual_renew renews a resource without a last_monitoring from 0.  There
\* is none once the product has one, since a round bills all prepaid items.
KeysInv ==
    Product \in data.keys =>
        \A it \in Resources : Prepaid(it) => it \in data.keys

IInv ==
    /\ BooksTypeOK
    /\ Created <= now
    /\ OrderInv
    /\ ExactInv
    /\ KeysInv

-----------------------------------------------------------------------------
(* Records and batches of records.                                         *)

\* The state after one more batch of records: kept apart from the variables
\* so that it can be stated once for every action that adds records.
LEMMA OrderedConcat ==
    ASSUME NEW s \in Seq(Record), NEW t \in Seq(Record),
           NEW a \in Int, NEW b \in Int, a <= b,
           Ordered(s), Within(s, a), Ordered(t), Within(t, b),
           \A i \in 1 .. Len(t) : a <= t[i].start
    PROVE  Ordered(s \o t) /\ Within(s \o t, b)
  <1>1. /\ Len(s \o t) = Len(s) + Len(t)
        /\ Len(s) \in Nat /\ Len(t) \in Nat
        /\ \A i \in 1 .. Len(s) : (s \o t)[i] = s[i]
        /\ \A i \in Len(s) + 1 .. Len(s) + Len(t) :
             /\ (s \o t)[i] = t[i - Len(s)]
             /\ i - Len(s) \in 1 .. Len(t)
    BY SMT
  <1>2. /\ \A i \in 1 .. Len(s) : s[i] \in Record
        /\ \A i \in 1 .. Len(t) : t[i] \in Record
    BY SMT
  <1>3. \A r \in Record : r.start \in Int /\ r.end \in Int
    BY DEF Record
  <1>4. Within(s \o t, b)
    <2> SUFFICES ASSUME NEW i \in 1 .. Len(s) + Len(t)
                 PROVE  (s \o t)[i].end <= b
      BY <1>1 DEF Within
    <2>1. CASE i \in 1 .. Len(s)
      <3>1. s[i].end <= a /\ s[i].end \in Int
        BY <2>1, <1>2, <1>3 DEF Within
      <3> QED BY <3>1, <2>1, <1>1, SMT
    <2>2. CASE i \in Len(s) + 1 .. Len(s) + Len(t)
      BY <2>2, <1>1 DEF Within
    <2> QED BY <2>1, <2>2, <1>1, SMT
  <1>5. Ordered(s \o t)
    <2> SUFFICES ASSUME NEW i \in 1 .. Len(s) + Len(t),
                        NEW j \in 1 .. Len(s) + Len(t), i < j
                 PROVE  (s \o t)[i].end <= (s \o t)[j].start
      BY <1>1 DEF Ordered
    <2>1. CASE j \in 1 .. Len(s)
      <3>1. i \in 1 .. Len(s)
        BY <2>1, <1>1, SMT
      <3> QED BY <3>1, <2>1, <1>1 DEF Ordered
    <2>2. CASE i \in 1 .. Len(s) /\ j \in Len(s) + 1 .. Len(s) + Len(t)
      <3>1. s[i].end <= a /\ s[i].end \in Int
        BY <2>2, <1>2, <1>3 DEF Within
      <3>2. a <= t[j - Len(s)].start /\ t[j - Len(s)].start \in Int
        BY <2>2, <1>1, <1>2, <1>3
      <3> QED BY <3>1, <3>2, <2>2, <1>1, SMT
    <2>3. CASE i \in Len(s) + 1 .. Len(s) + Len(t)
               /\ j \in Len(s) + 1 .. Len(s) + Len(t)
      <3>1. i - Len(s) < j - Len(s)
        BY <2>3, <1>1, SMT
      <3> QED BY <3>1, <2>3, <1>1 DEF Ordered
    <2> QED BY <2>1, <2>2, <2>3, <1>1, SMT
  <1> QED BY <1>4, <1>5

\* Two batches that cover adjacent times cover both.
LEMMA CoversConcat ==
    ASSUME NEW s \in Seq(Record), NEW t \in Seq(Record),
           NEW from \in Int, NEW a \in Int, NEW b \in Int,
           Covers(s, from, a), Covers(t, a, b)
    PROVE  Covers(s \o t, from, b)
  <1>1. /\ Len(s \o t) = Len(s) + Len(t)
        /\ Len(s) \in Nat \ {0} /\ Len(t) \in Nat \ {0}
        /\ \A i \in 1 .. Len(s) : (s \o t)[i] = s[i]
        /\ \A i \in Len(s) + 1 .. Len(s) + Len(t) :
             /\ (s \o t)[i] = t[i - Len(s)]
             /\ i - Len(s) \in 1 .. Len(t)
    BY SMT DEF Covers
  <1>2. (s \o t) # << >>
    BY <1>1, SMT
  <1>3. (s \o t)[1].start = from
    BY <1>1 DEF Covers
  <1>4. (s \o t)[Len(s \o t)].end = b
    <2>1. Len(s) + Len(t) \in Len(s) + 1 .. Len(s) + Len(t)
          /\ (Len(s) + Len(t)) - Len(s) = Len(t)
      BY <1>1, SMT
    <2> QED BY <2>1, <1>1 DEF Covers
  <1>5. \A i \in 1 .. Len(s \o t) - 1 : (s \o t)[i].end = (s \o t)[i + 1].start
    <2> SUFFICES ASSUME NEW i \in 1 .. Len(s) + Len(t) - 1
                 PROVE  (s \o t)[i].end = (s \o t)[i + 1].start
      BY <1>1
    <2>1. CASE i \in 1 .. Len(s) - 1
      <3>1. i \in 1 .. Len(s) /\ i + 1 \in 1 .. Len(s)
        BY <2>1, <1>1, SMT
      <3> QED BY <3>1, <2>1, <1>1 DEF Covers
    <2>2. CASE i = Len(s)
      <3>1. /\ i \in 1 .. Len(s)
            /\ i + 1 \in Len(s) + 1 .. Len(s) + Len(t)
            /\ (i + 1) - Len(s) = 1
        BY <2>2, <1>1, SMT
      <3> QED BY <3>1, <2>2, <1>1 DEF Covers
    <2>3. CASE i \in Len(s) + 1 .. Len(s) + Len(t) - 1
      <3>1. /\ i \in Len(s) + 1 .. Len(s) + Len(t)
            /\ i + 1 \in Len(s) + 1 .. Len(s) + Len(t)
            /\ (i + 1) - Len(s) = (i - Len(s)) + 1
            /\ i - Len(s) \in 1 .. Len(t) - 1
        BY <2>3, <1>1, SMT
      <3> QED BY <3>1, <1>1 DEF Covers
    <2> QED BY <2>1, <2>2, <2>3, <1>1, SMT
  <1> QED BY <1>2, <1>3, <1>4, <1>5 DEF Covers

\* Pricing a batch of spans keeps their times.
LEMMA PricedTiles ==
    ASSUME NEW last \in Int, NEW n \in Nat, NEW p \in Nat \ {0}, NEW c \in Nat
    PROVE  LET recs == Priced(Tiles(last, n, p), c) IN
           /\ recs \in Seq(Record)
           /\ n = 0 => recs = << >>
           /\ Ordered(recs)
           /\ Within(recs, last + n * p)
           /\ \A i \in 1 .. Len(recs) : last <= recs[i].start
           /\ n > 0 => Covers(recs, last, last + n * p)
  <1> DEFINE T == Tiles(last, n, p)
             recs == Priced(T, c)
  <1>1. /\ T \in Seq([start : Int, end : Int])
        /\ Len(T) = n
        /\ n > 0 => T[1].start = last /\ T[n].end = last + n * p
        /\ \A i \in 1 .. n - 1 : T[i].end = T[i + 1].start
        /\ \A i \in 1 .. n : last <= T[i].start /\ T[i].end <= last + n * p
        /\ \A i, j \in 1 .. n : i < j => T[i].end <= T[j].start
    BY TilesFacts
  <1> HIDE DEF T
  <1>2. /\ Len(recs) = n
        /\ \A i \in 1 .. n : /\ recs[i].start = T[i].start
                            /\ recs[i].end = T[i].end
    BY <1>1, SMT DEF Priced
  <1>3. recs \in Seq(Record)
    <2>1. \A i \in 1 .. n : T[i].start \in Int /\ T[i].end \in Int
      <3>0. T \in Seq([start : Int, end : Int]) /\ Len(T) = n
        BY <1>1
      <3>1. \A i \in 1 .. n : T[i] \in [start : Int, end : Int]
        BY <3>0, ElementOfSeq, Zenon
      <3>2. \A r \in [start : Int, end : Int] : r.start \in Int /\ r.end \in Int
        OBVIOUS
      <3> QED BY <3>1, <3>2
    <2> QED BY <2>1, <1>1, SMT DEF Priced, Record
  <1>4. n = 0 => recs = << >>
    BY <1>2, <1>3, SMT
  <1>5. n > 0 => recs # << >>
    BY <1>2, SMT
  <1> HIDE DEF recs
  <1>6. Ordered(recs) /\ Within(recs, last + n * p)
    BY <1>1, <1>2 DEF Ordered, Within
  <1>7. \A i \in 1 .. Len(recs) : last <= recs[i].start
    BY <1>1, <1>2
  <1>8. n > 0 => Covers(recs, last, last + n * p)
    <2> SUFFICES ASSUME n > 0 PROVE Covers(recs, last, last + n * p)
      OBVIOUS
    <2>1. 1 \in 1 .. n /\ n \in 1 .. n
      BY SMT
    <2>2. \A i \in 1 .. n - 1 : i \in 1 .. n /\ i + 1 \in 1 .. n
      BY SMT
    <2> QED BY <1>1, <1>2, <1>5, <2>1, <2>2 DEF Covers
  <1> QED BY <1>3, <1>4, <1>6, <1>7, <1>8 DEF recs, T

\* What the plan says of an item.
LEMMA PlanFacts ==
    ASSUME NEW it \in Items
    PROVE  /\ PeriodOf(it) \in Nat
           /\ Kind[it] \in {"PREPAID", "POSTPAID"}
           /\ Price[it] \in Nat
           /\ Created \in Int
           /\ Product \in Items /\ Product \notin Resources
  <1>1. Product \in Items /\ Product \notin Resources
    BY PlanAssumption DEF Items
  <1>2. CASE it \in Resources
    BY <1>1, <1>2, PlanAssumption DEF PeriodOf
  <1>3. CASE it \notin Resources
    BY <1>1, <1>3, PlanAssumption DEF PeriodOf
  <1> QED BY <1>1, <1>2, <1>3

\* A round bills a tracked item for n whole periods from Last and moves its
\* last_monitoring to their end; a prepaid item that is due is billed.
LEMMA TrackedRound ==
    ASSUME NEW it \in Items, Tracked(it), data \in Data, now \in Nat,
           NEW usage, NEW zeroRes
    PROVE  \E n \in Nat :
             /\ Spans(it, usage, zeroRes) = Tiles(Last(it), n, PeriodOf(it))
             /\ (Written(it, usage, zeroRes) <=> n > 0)
             /\ Renewed(it, usage, zeroRes) =
                  IF n > 0 THEN Last(it) + n * PeriodOf(it) ELSE data.lm[it]
             /\ (Prepaid(it) /\ it \in Walked /\ Last(it) <= now => n > 0)
             /\ (Prepaid(it) /\ n > 0 => now < Renewed(it, usage, zeroRes))
  <1> DEFINE p == PeriodOf(it)
             S == Spans(it, usage, zeroRes)
  <1>1. p \in Nat \ {0} /\ Kind[it] \in {"PREPAID", "POSTPAID"}
    BY PlanFacts DEF Tracked
  <1>2. data.lm[it] \in Int /\ Last(it) \in Int /\ now \in Int
    BY PlanFacts DEF Data, Last
  <1>3. Tiles(Last(it), 0, p) = << >> /\ Last(it) + 0 * p \in Int
    BY <1>1, <1>2, SMT DEF Tiles
  <1>4. \A n \in Nat : n > 0 => Tiles(Last(it), n, p) # << >>
    BY SMT DEF Tiles
  <1>5. CASE it \notin Walked
    <2>1. S = << >>
      BY <1>5 DEF Spans
    <2>2. ~Written(it, usage, zeroRes)
      BY <2>1 DEF Written
    <2>3. Renewed(it, usage, zeroRes) = data.lm[it]
      BY <2>2 DEF Renewed
    <2> QED BY <1>3, <1>5, <2>1, <2>2, <2>3, SMT DEF Prepaid
  <1>6. CASE it \in Walked /\ Kind[it] = "PREPAID"
    <2> DEFINE n == Begun(Last(it), now, p)
    <2>1. n \in Nat /\ (Last(it) <= now => n > 0)
      BY <1>1, <1>2, PrepaidEndsAhead
    <2>5. n > 0 => now < Last(it) + n * p
      <3>1. CASE Last(it) <= now
        BY <3>1, <1>1, <1>2, PrepaidEndsAhead DEF PrepaidLast
      <3>2. CASE Last(it) > now
        <4>1. n = 0
          BY <3>2, <1>1, <1>2, PrepaidEndsAhead
        <4> QED BY <4>1, SMT
      <3> QED BY <3>1, <3>2, <1>2, SMT
    <2>2. S = Tiles(Last(it), n, p)
      BY <1>1, <1>6 DEF Spans, PeriodicSpans, PrepaidSpans
    <2>3. Written(it, usage, zeroRes) <=> n > 0
      BY <1>1, <1>3, <1>4, <2>1, <2>2, SMT DEF Written
    <2>4. Renewed(it, usage, zeroRes) =
            IF n > 0 THEN Last(it) + n * p ELSE data.lm[it]
      BY <1>1, <1>6, <2>3 DEF Renewed, PrepaidLast
    <2> HIDE DEF n
    <2> QED BY <2>1, <2>2, <2>3, <2>4, <2>5
  <1>7. CASE it \in Walked /\ Kind[it] = "POSTPAID"
    <2> DEFINE e == Elapsed(Last(it), now, p)
               n == IF usage[it] = "off" THEN 0 ELSE e
    <2>0. it \in Resources /\ ~Prepaid(it)
      BY <1>7 DEF Tracked, Prepaid
    <2>1. e \in Nat
      <3>1. CASE Last(it) <= now
        BY <3>1, <1>1, <1>2, CapacityStaysBehind
      <3>2. CASE ~(Last(it) <= now)
        BY <3>2, <1>1, <1>2, SMT DEF Elapsed
      <3> QED BY <3>1, <3>2
    <2>2. S = Tiles(Last(it), n, p)
      BY <1>1, <1>3, <1>7, <2>0 DEF Spans, PeriodicSpans, CapacitySpans
    <2>3. Written(it, usage, zeroRes) <=> n > 0
      BY <1>1, <1>3, <1>4, <2>1, <2>2, SMT DEF Written
    <2>4. Renewed(it, usage, zeroRes) =
            IF n > 0 THEN Last(it) + n * p ELSE data.lm[it]
      <3>1. CASE n > 0
        <4>1. n = e
          BY <3>1
        <4> QED BY <3>1, <4>1, <1>1, <1>7, <2>0, <2>3 DEF Renewed, CapacityLast
      <3>2. CASE ~(n > 0)
        BY <3>2, <2>3 DEF Renewed
      <3> QED BY <3>1, <3>2
    <2>5. n \in Nat
      BY <2>1
    <2> HIDE DEF n
    <2> QED BY <2>0, <2>2, <2>3, <2>4, <2>5
  <1> QED BY <1>1, <1>5, <1>6, <1>7

-----------------------------------------------------------------------------
(* Types.                                                                  *)

\* Whatever a round bills an item for is a batch of records, and what it
\* leaves in last_monitoring is a time.
LEMMA BillType ==
    ASSUME NEW it \in Items, data \in Data, now \in Nat, NEW usage, NEW zeroRes
    PROVE  /\ Bill(it, usage, zeroRes) \in Seq(Record)
           /\ Renewed(it, usage, zeroRes) \in Int
  <1> DEFINE S == Spans(it, usage, zeroRes)
             p == PeriodOf(it)
             Times == [start : Int, end : Int]
  <1>1. p \in Nat /\ Kind[it] \in {"PREPAID", "POSTPAID"} /\ Price[it] \in Nat
    BY PlanFacts
  <1>2. data.lm[it] \in Int /\ Last(it) \in Int /\ now \in Int
    BY PlanFacts DEF Data, Last
  <1>3. CASE Tracked(it)
    <2>1. PICK n \in Nat :
            /\ S = Tiles(Last(it), n, p)
            /\ Renewed(it, usage, zeroRes) =
                 IF n > 0 THEN Last(it) + n * p ELSE data.lm[it]
      BY <1>3, TrackedRound
    <2>2. p \in Nat \ {0} /\ Cost(it, usage) \in Nat
      BY <1>1, <1>3 DEF Tracked, Cost
    <2>3. Priced(S, Cost(it, usage)) \in Seq(Record)
      BY <1>2, <2>1, <2>2, PricedTiles
    <2>4. << >> \in Seq(Record)
      BY SMT
    <2>5. Renewed(it, usage, zeroRes) \in Int
      BY <1>1, <1>2, <2>1, SMT
    <2> QED BY <2>3, <2>4, <2>5 DEF Bill
  <1>4. CASE ~Tracked(it)
    <2>1. p = 0 \/ (it \notin Resources /\ Kind[it] = "POSTPAID")
      BY <1>1, <1>4 DEF Tracked
    <2>2. Renewed(it, usage, zeroRes) \in Int
      <3>1. CASE p = 0
        BY <3>1, <1>2 DEF Renewed
      <3>2. CASE p # 0 /\ it \notin Resources /\ Kind[it] = "POSTPAID"
        BY <3>2, <1>2 DEF Renewed, FlatLast
      <3> QED BY <2>1, <3>1, <3>2
    <2>3. S \in Seq(Times)
      <3>1. << >> \in Seq(Times)
        BY SMT
      <3>2. OneTimeSpans(it) \in Seq(Times)
        <4>1. /\ Span(now, now + 1) \in Times
              /\ Span(Last(it), Last(it) + 1) \in Times
          BY <1>2, SMT DEF Span
        <4> HIDE DEF Times
        <4>2. /\ << Span(now, now + 1) >> \in Seq(Times)
              /\ << Span(Last(it), Last(it) + 1) >> \in Seq(Times)
          BY <4>1, SMT
        <4> QED BY <3>1, <4>2 DEF OneTimeSpans
      <3>3. CASE p # 0 /\ it \notin Resources /\ Kind[it] = "POSTPAID"
        <4> DEFINE e == Elapsed(Last(it), now, p)
        <4>1. e \in Nat
          <5>1. CASE Last(it) <= now
            BY <5>1, <3>3, <1>1, <1>2, CapacityStaysBehind
          <5>2. CASE ~(Last(it) <= now)
            BY <5>2, <1>1, <1>2, SMT DEF Elapsed
          <5> QED BY <5>1, <5>2
        <4>2. FlatSpans(Last(it), now, p) = [j \in 1 .. e |-> Span(Last(it), Last(it) + j * p)]
          BY DEF FlatSpans
        <4>3. \A j \in 1 .. e : Span(Last(it), Last(it) + j * p) \in Times
          BY <1>1, <1>2, <4>1, SMT DEF Span
        <4> HIDE DEF e, Times
        <4>4. FlatSpans(Last(it), now, p) \in Seq(Times)
          BY <4>1, <4>2, <4>3, SMT
        <4> QED BY <3>1, <3>3, <4>4 DEF Spans, PeriodicSpans
      <3>4. CASE p = 0
        BY <3>1, <3>2, <3>4 DEF Spans
      <3> QED BY <2>1, <3>3, <3>4
    <2>4. Cost(it, usage) \in Nat
      BY <1>1, SMT DEF Cost
    <2>5. Priced(S, Cost(it, usage)) \in Seq(Record)
      <3>1. Len(S) \in Nat /\ \A j \in 1 .. Len(S) : S[j] \in Times
        <4> HIDE DEF S, Times
        <4> QED BY <2>3, ElementOfSeq, SMT
      <3>2. \A r \in Times : r.start \in Int /\ r.end \in Int
        OBVIOUS
      <3>3. \A j \in 1 .. Len(S) : S[j].start \in Int /\ S[j].end \in Int
        BY <3>1, <3>2
      <3> HIDE DEF S
      <3>4. \A j \in 1 .. Len(S) :
              [start |-> S[j].start, end |-> S[j].end, cost |-> Cost(it, usage)]
                \in Record
        BY <2>4, <3>3 DEF Record
      <3> QED BY <3>1, <3>4, SMT DEF Priced
    <2>6. << >> \in Seq(Record)
      BY SMT
    <2> QED BY <2>2, <2>5, <2>6 DEF Bill
  <1> QED BY <1>3, <1>4

\* Writing last_monitoring into the data map.
LEMMA DataExceptLm ==
    ASSUME NEW d \in Data, NEW L \in [Items -> Int]
    PROVE  /\ [d EXCEPT !.lm = L] \in Data
           /\ [d EXCEPT !.lm = L].keys = d.keys
           /\ [d EXCEPT !.lm = L].lm = L
           /\ [d EXCEPT !.lm = L].manual = d.manual
  BY SMT DEF Data

\* Writing last_monitoring leaves the other fields of the data as they were.
LEMMA DataExceptKeys ==
    ASSUME NEW d \in Data, NEW K \in SUBSET Items
    PROVE  /\ [d EXCEPT !.keys = K] \in Data
           /\ [d EXCEPT !.keys = K].keys = K
           /\ [d EXCEPT !.keys = K].lm = d.lm
           /\ [d EXCEPT !.keys = K].manual = d.manual
  BY SMT DEF Data

\* The data map after the handlers, field by field.
LEMMA RenewalType ==
    ASSUME data \in Data, now \in Nat, NEW usage, NEW zeroRes
    PROVE  LET r == Renewal(usage, zeroRes) IN
           /\ r \in Data
           /\ r.lm = [it \in Items |-> Renewed(it, usage, zeroRes)]
           /\ \A it \in Items :
                it \in r.keys <=> it \in data.keys \/ Written(it, usage, zeroRes)
           /\ data.keys \subseteq r.keys
           /\ r.manual = data.manual
  <1> DEFINE K == data.keys \cup {it \in Items : Written(it, usage, zeroRes)}
             L == [it \in Items |-> Renewed(it, usage, zeroRes)]
  <1>1. K \in SUBSET Items /\ data.keys \subseteq K
    BY DEF Data
  <1>2. L \in [Items -> Int]
    BY BillType
  <1>3. Renewal(usage, zeroRes) = [data EXCEPT !.keys = K, !.lm = L]
    BY DEF Renewal
  <1>4. \A it \in Items :
          it \in K <=> it \in data.keys \/ Written(it, usage, zeroRes)
    OBVIOUS
  <1> HIDE DEF K, L
  <1> DEFINE D == [data EXCEPT !.keys = K]
             R == [D EXCEPT !.lm = L]
  <1>5. R \in Data /\ R.keys = K /\ R.lm = L /\ R.manual = data.manual
    <2>1. D \in Data /\ D.keys = K /\ D.manual = data.manual
      BY <1>1, DataExceptKeys
    <2> HIDE DEF D
    <2>2. R \in Data /\ R.keys = D.keys /\ R.lm = L /\ R.manual = D.manual
      BY <1>2, <2>1, DataExceptLm
    <2> QED BY <2>1, <2>2
  <1>6. L = [it \in Items |-> Renewed(it, usage, zeroRes)]
    BY DEF L
  <1> HIDE DEF R
  <1>7. Renewal(usage, zeroRes) = R
    BY <1>3 DEF R
  <1> QED BY <1>1, <1>4, <1>5, <1>6, <1>7

\* What a round leaves of an item: its old records and the new ones, up to
\* the last_monitoring the handlers return.
LEMMA BilledItem ==
    ASSUME IInv, NEW it \in Items, NEW usage, NEW zeroRes
    PROVE  LET recs == ledger[it] \o Bill(it, usage, zeroRes)
               r    == Renewal(usage, zeroRes)
           IN
           /\ recs \in Seq(Record)
           /\ Tracked(it) /\ ~clawed[it] =>
                InOrder(recs, it \in r.keys, r.lm[it])
           /\ Prepaid(it) /\ ~clawed[it] /\ ~skewed[it]
                /\ ~Dropped(it, usage, zeroRes) =>
                Exact(recs, it \in r.keys, r.lm[it])
           /\ it \in Resources /\ Prepaid(it) => it \in r.keys
  <1> DEFINE B    == Bill(it, usage, zeroRes)
             old  == ledger[it]
             recs == old \o B
             r    == Renewal(usage, zeroRes)
             p    == PeriodOf(it)
             c    == Cost(it, usage)
             T(n) == Priced(Tiles(Last(it), n, p), c)
  <1>1. /\ data \in Data /\ now \in Nat /\ now \in Int /\ old \in Seq(Record)
        /\ data.lm[it] \in Int /\ Created \in Int /\ Created <= now
    BY PlanFacts DEF IInv, BooksTypeOK, Data
  <1>2. Last(it) \in Int /\ c \in Nat
    BY <1>1, PlanFacts DEF Last, Cost
  <1>3. B \in Seq(Record)
    BY <1>1, BillType
  <1>4. recs \in Seq(Record)
    BY <1>1, <1>3, SMT
  <1>5. /\ r.lm[it] = Renewed(it, usage, zeroRes)
        /\ (it \in r.keys <=> it \in data.keys \/ Written(it, usage, zeroRes))
    <2>1. /\ r.lm = [i \in Items |-> Renewed(i, usage, zeroRes)]
          /\ \A i \in Items :
               i \in r.keys <=> i \in data.keys \/ Written(i, usage, zeroRes)
      BY <1>1, RenewalType
    <2> HIDE DEF r
    <2> QED BY <2>1
  <1>6. ASSUME Tracked(it)
        PROVE  /\ ~clawed[it] => InOrder(recs, it \in r.keys, r.lm[it])
               /\ Prepaid(it) /\ ~clawed[it] /\ ~skewed[it]
                    /\ ~Dropped(it, usage, zeroRes) =>
                    Exact(recs, it \in r.keys, r.lm[it])
               /\ it \in Resources /\ Prepaid(it) => it \in r.keys
    <2>1. PICK n \in Nat :
            /\ Spans(it, usage, zeroRes) = Tiles(Last(it), n, p)
            /\ (Written(it, usage, zeroRes) <=> n > 0)
            /\ Renewed(it, usage, zeroRes) =
                 IF n > 0 THEN Last(it) + n * p ELSE data.lm[it]
            /\ (Prepaid(it) /\ it \in Walked /\ Last(it) <= now => n > 0)
      BY <1>1, <1>6, TrackedRound
    <2>2. p \in Nat \ {0}
      BY <1>6, PlanFacts DEF Tracked
    <2>3. /\ T(n) \in Seq(Record)
          /\ n = 0 => T(n) = << >>
          /\ Ordered(T(n))
          /\ Within(T(n), Last(it) + n * p)
          /\ \A i \in 1 .. Len(T(n)) : Last(it) <= T(n)[i].start
          /\ n > 0 => Covers(T(n), Last(it), Last(it) + n * p)
      BY <1>2, <2>2, PricedTiles
    <2>4. B = IF Kept(it) THEN T(n) ELSE << >>
      BY <2>1 DEF Bill
    <2>5. Last(it) + n * p \in Int /\ Last(it) <= Last(it) + n * p
      BY <1>2, <2>2, SMT
    <2> HIDE DEF B, T
    <2>6. ASSUME ~clawed[it]
          PROVE  InOrder(recs, it \in r.keys, r.lm[it])
      <3>1. InOrder(old, it \in data.keys, data.lm[it])
        BY <1>6, <2>6 DEF IInv, OrderInv
      <3>2. CASE n = 0
        <4>1. B = << >>
          <5>1. T(n) = << >>
            BY <3>2, <2>3
          <5> QED BY <5>1, <2>4
        <4>2. recs = old
          BY <4>1, <1>1, SMT
        <4> HIDE DEF recs, r, old
        <4> QED BY <3>1, <3>2, <4>2, <2>1, <1>5
      <3>3. CASE n > 0
        <4>1. it \in r.keys /\ r.lm[it] = Last(it) + n * p
          BY <3>3, <2>1, <1>5
        <4>2. Within(old, Last(it)) /\ Ordered(old)
          <5>1. CASE it \in data.keys
            BY <5>1, <3>1 DEF InOrder, Last
          <5>2. CASE it \notin data.keys
            <6>1. old = << >>
              BY <5>2, <3>1 DEF InOrder
            <6>2. Len(old) = 0
              BY <6>1, SMT
            <6> QED BY <6>2, <3>1, SMT DEF InOrder, Within
          <5> QED BY <5>1, <5>2
        <4>3. Ordered(B) /\ Within(B, Last(it) + n * p)
              /\ \A i \in 1 .. Len(B) : Last(it) <= B[i].start
          <5>1. CASE Kept(it)
            BY <5>1, <2>3, <2>4
          <5>2. CASE ~Kept(it)
            <6>1. B = << >> /\ Len(B) = 0
              BY <5>2, <2>4, SMT
            <6> QED BY <6>1, SMT DEF Ordered, Within
          <5> QED BY <5>1, <5>2
        <4>4. Ordered(recs) /\ Within(recs, Last(it) + n * p)
          BY <1>1, <1>2, <1>3, <2>5, <4>2, <4>3, OrderedConcat
        <4> QED BY <4>1, <4>4 DEF InOrder
      <3> QED BY <3>2, <3>3, SMT
    <2>7. ASSUME Prepaid(it), ~clawed[it], ~skewed[it],
                 ~Dropped(it, usage, zeroRes)
          PROVE  Exact(recs, it \in r.keys, r.lm[it])
      <3>1. Exact(old, it \in data.keys, data.lm[it])
        BY <2>7 DEF IInv, ExactInv
      <3>2. CASE n = 0
        <4>1. B = << >>
          <5>1. T(n) = << >>
            BY <3>2, <2>3
          <5> QED BY <5>1, <2>4
        <4>2. recs = old
          BY <4>1, <1>1, SMT
        <4> HIDE DEF recs, r, old
        <4> QED BY <3>1, <3>2, <4>2, <2>1, <1>5
      <3>3. CASE n > 0
        <4>1. it \in r.keys /\ r.lm[it] = Last(it) + n * p
          BY <3>3, <2>1, <1>5
        <4>2. B = T(n)
          BY <3>3, <2>1, <2>4, <2>7 DEF Dropped
        <4>3. Covers(B, Last(it), Last(it) + n * p)
          BY <3>3, <4>2, <2>3
        <4>4. CASE it \in data.keys
          <5>1. Last(it) = data.lm[it] /\ Created <= Last(it)
                /\ Covers(old, Created, Last(it))
            BY <4>4, <3>1 DEF Last, Exact
          <5>2. Covers(recs, Created, Last(it) + n * p)
            BY <5>1, <4>3, <1>1, <1>2, <1>3, <2>5, CoversConcat
          <5>3. Created <= Last(it) + n * p
            BY <5>1, <1>1, <1>2, <2>5, SMT
          <5> QED BY <4>1, <5>2, <5>3 DEF Exact
        <4>5. CASE it \notin data.keys
          <5>1. old = << >> /\ Last(it) = Created
            BY <4>5, <3>1 DEF Last, Exact
          <5>2. recs = B
            BY <5>1, <1>3, SMT
          <5> QED BY <4>1, <4>3, <5>1, <5>2, <2>5 DEF Exact
        <4> QED BY <4>4, <4>5
      <3> QED BY <3>2, <3>3, SMT
    <2>8. ASSUME it \in Resources, Prepaid(it)
          PROVE  it \in r.keys
      <3>1. it \in Walked
        BY <2>8, PlanFacts DEF Walked
      <3>2. it \in data.keys \/ n > 0
        BY <3>1, <2>1, <2>8, <1>1 DEF Last
      <3> QED BY <3>2, <2>1, <1>5
    <2> QED BY <2>6, <2>7, <2>8
  <1>7. Prepaid(it) => Tracked(it)
    BY DEF Prepaid, Tracked
  <1> QED BY <1>4, <1>6, <1>7

-----------------------------------------------------------------------------
(* The rounds that bill.                                                   *)

\* The data map of a held or detached round: the product's last_monitoring
\* is the present.
LEMMA RebasedData ==
    ASSUME NEW r \in Data, now \in Nat
    PROVE  LET d == [r EXCEPT !.keys = @ \cup {Product}, !.lm[Product] = now] IN
           /\ d \in Data
           /\ d.keys = r.keys \cup {Product}
           /\ d.lm = [r.lm EXCEPT ![Product] = now]
           /\ d.manual = r.manual
  <1> DEFINE K == r.keys \cup {Product}
             L == [r.lm EXCEPT ![Product] = now]
             D == [r EXCEPT !.keys = K]
             R == [D EXCEPT !.lm = L]
             d == [r EXCEPT !.keys = @ \cup {Product}, !.lm[Product] = now]
  <1>1. K \in SUBSET Items
    BY PlanFacts, PlanAssumption DEF Data, Items
  <1>2. L \in [Items -> Int]
    <2>1. r.lm \in [Items -> Int] /\ now \in Int
      BY DEF Data
    <2> QED BY <2>1
  <1> HIDE DEF K, L
  <1>3. D \in Data /\ D.keys = K /\ D.lm = r.lm /\ D.manual = r.manual
    BY <1>1, SMT DEF Data
  <1>4. d = [D EXCEPT !.lm[Product] = now]
    BY DEF K
  <1> HIDE DEF D
  <1>5. [D EXCEPT !.lm[Product] = now] = R
    BY <1>3, SMT DEF Data, L
  <1>6. R \in Data /\ R.keys = D.keys /\ R.lm = L /\ R.manual = D.manual
    BY <1>2, <1>3, SMT DEF Data
  <1> HIDE DEF R, d
  <1>7. d \in Data /\ d.keys = K /\ d.lm = L /\ d.manual = r.manual
    BY <1>3, <1>4, <1>5, <1>6
  <1> QED BY <1>7 DEF K, L, d

\* A paid round of an auto-renewed instance.
LEMMA AutoPaidStep ==
    ASSUME IInv, NEW seen, NEW ok, NEW usage, NEW balance,
           AutoPaid(seen, ok, usage, balance)
    PROVE  IInv'
  <1> DEFINE r       == Renewal(usage, TRUE)
             rebased == Rebased(seen, r)
             B(it)   == Bill(it, usage, TRUE)
             d       == [r EXCEPT !.keys = @ \cup {Product}, !.lm[Product] = now]
  <1>1. /\ data \in Data /\ now \in Nat /\ Created \in Int /\ Product \in Items
        /\ ledger \in [Items -> Seq(Record)]
    BY PlanFacts, PlanAssumption DEF IInv, BooksTypeOK, Items
  <1>2. r \in Data /\ data.keys \subseteq r.keys
    BY <1>1, RenewalType
  <1>3. /\ d \in Data
        /\ d.keys = r.keys \cup {Product}
        /\ d.lm = [r.lm EXCEPT ![Product] = now]
    <2> HIDE DEF r
    <2> QED BY <1>1, <1>2, RebasedData
  <1>4. data' = IF rebased THEN d ELSE r
    BY DEF AutoPaid
  <1>5. \A it \in Items : ledger'[it] = ledger[it] \o B(it)
    BY DEF AutoPaid, Publish
  <1>6. \A it \in Items :
          /\ ~clawed'[it] =>
               ~clawed[it] /\ ~(it = Product /\ rebased /\ now < r.lm[it])
          /\ ~skewed'[it] =>
               /\ ~skewed[it] /\ ~Dropped(it, usage, TRUE)
               /\ ~(it = Product /\ rebased
                      /\ (Product \notin r.keys \/ now > r.lm[it]))
    BY DEF AutoPaid
  <1>7. \A it \in Items :
          /\ ledger[it] \o B(it) \in Seq(Record)
          /\ Tracked(it) /\ ~clawed[it] =>
               InOrder(ledger[it] \o B(it), it \in r.keys, r.lm[it])
          /\ Prepaid(it) /\ ~clawed[it] /\ ~skewed[it]
               /\ ~Dropped(it, usage, TRUE) =>
               Exact(ledger[it] \o B(it), it \in r.keys, r.lm[it])
          /\ it \in Resources /\ Prepaid(it) => it \in r.keys
    BY BilledItem
  <1>8. now' = now /\ (data'.keys = r.keys \/ data'.keys = r.keys \cup {Product})
    BY <1>3, <1>4 DEF AutoPaid
  <1>9. \A it \in Items :
          \/ /\ data'.lm[it] = r.lm[it]
             /\ it \in data'.keys <=> it \in r.keys
          \/ it = Product /\ rebased /\ data'.lm[it] = now /\ it \in data'.keys
    <2> HIDE DEF r, d, rebased
    <2> QED BY <1>1, <1>2, <1>3, <1>4 DEF Data
  <1>10. \A it \in Items : r.lm[it] \in Int
    <2> HIDE DEF r
    <2> QED BY <1>2 DEF Data
  <1>11. BooksTypeOK'
    <2>1. vm' \in VMStates /\ posted' \in VMStates
      BY DEF AutoPaid, AfterPayment, AfterSuspend, AfterResume, PostState,
             IInv, BooksTypeOK, VMStates
    <2>2. deleted' \in BOOLEAN
      BY DEF AutoPaid, Canceled
    <2>3. data' \in Data
      BY <1>2, <1>3, <1>4
    <2>4. ledger' \in [Items -> Seq(Record)]
      <3>1. ledger' = [it \in Items |-> ledger[it] \o B(it)]
        BY DEF AutoPaid, Publish
      <3> HIDE DEF B
      <3> QED BY <3>1, <1>7
    <2>5. skewed' \in [Items -> BOOLEAN] /\ clawed' \in [Items -> BOOLEAN]
      BY DEF AutoPaid
    <2> QED BY <2>1, <2>2, <2>3, <2>4, <2>5 DEF AutoPaid, IInv, BooksTypeOK
  <1> HIDE DEF r, rebased, B, d
  <1>12. OrderInv'
    <2> SUFFICES ASSUME NEW it \in Items, Tracked(it), ~clawed'[it]
                 PROVE  InOrder(ledger'[it], it \in data'.keys, data'.lm[it])
      BY DEF OrderInv, Tracked, PeriodOf
    <2> DEFINE recs == ledger[it] \o B(it)
    <2>1. /\ recs \in Seq(Record) /\ ledger'[it] = recs
          /\ InOrder(recs, it \in r.keys, r.lm[it])
      BY <1>5, <1>6, <1>7
    <2> HIDE DEF recs
    <2>2. CASE data'.lm[it] = r.lm[it] /\ (it \in data'.keys <=> it \in r.keys)
      BY <2>1, <2>2 DEF InOrder
    <2>3. CASE it = Product /\ rebased /\ data'.lm[it] = now /\ it \in data'.keys
      <3>1. r.lm[it] <= now
        <4>1. ~(now < r.lm[it])
          BY <2>3, <1>6
        <4>2. r.lm[it] \in Int
          BY <1>10
        <4> QED BY <4>1, <4>2, <1>1, SMT
      <3>2. \A i \in 1 .. Len(recs) : recs[i].end \in Int
        <4>1. \A i \in 1 .. Len(recs) : recs[i] \in Record
          BY <2>1, ElementOfSeq
        <4> QED BY <4>1 DEF Record
      <3>3. Within(recs, now)
        BY <3>1, <3>2, <2>1, <1>1, <1>10, SMT DEF InOrder, Within
      <3> QED BY <2>1, <2>3, <3>3 DEF InOrder
    <2> QED BY <1>9, <2>2, <2>3
  <1>13. ExactInv'
    <2> SUFFICES ASSUME NEW it \in Items, Prepaid(it), ~clawed'[it], ~skewed'[it]
                 PROVE  Exact(ledger'[it], it \in data'.keys, data'.lm[it])
      BY DEF ExactInv, Prepaid, PeriodOf
    <2>1. Exact(ledger'[it], it \in r.keys, r.lm[it])
      BY <1>5, <1>6, <1>7
    <2>2. CASE data'.lm[it] = r.lm[it] /\ (it \in data'.keys <=> it \in r.keys)
      BY <2>1, <2>2 DEF Exact
    <2>3. CASE it = Product /\ rebased /\ data'.lm[it] = now /\ it \in data'.keys
      <3>1. ~(now < r.lm[it]) /\ it \in r.keys /\ ~(now > r.lm[it])
        BY <2>3, <1>6
      <3>2. r.lm[it] \in Int
        BY <1>10
      <3>3. r.lm[it] = now
        BY <3>1, <3>2, <1>1, SMT
      <3> QED BY <2>1, <2>3, <3>1, <3>3 DEF Exact
    <2> QED BY <1>9, <2>2, <2>3
  <1>14. KeysInv'
    <2>1. \A it \in Resources : it \in Items
      BY DEF Items
    <2> QED BY <2>1, <1>7, <1>8 DEF KeysInv, Prepaid, PeriodOf
  <1> QED BY <1>8, <1>11, <1>12, <1>13, <1>14 DEF IInv

\* The first payment of an instance without auto-renewal.
LEMMA FirstPaymentStep ==
    ASSUME IInv, NEW seen, NEW usage, FirstPayment(seen, usage)
    PROVE  IInv'
  <1> DEFINE r     == Renewal(usage, FALSE)
             B(it) == Bill(it, usage, FALSE)
  <1>1. data \in Data /\ now \in Nat
    BY DEF IInv, BooksTypeOK
  <1>2. r \in Data
    BY <1>1, RenewalType
  <1>3. data' = r /\ now' = now /\ clawed' = clawed
    BY DEF FirstPayment
  <1>4. \A it \in Items : ledger'[it] = ledger[it] \o B(it)
    BY DEF FirstPayment, Publish
  <1>5. \A it \in Items :
          ~skewed'[it] => ~skewed[it] /\ ~Dropped(it, usage, FALSE)
    BY DEF FirstPayment
  <1>6. \A it \in Items :
          /\ ledger[it] \o B(it) \in Seq(Record)
          /\ Tracked(it) /\ ~clawed[it] =>
               InOrder(ledger[it] \o B(it), it \in r.keys, r.lm[it])
          /\ Prepaid(it) /\ ~clawed[it] /\ ~skewed[it]
               /\ ~Dropped(it, usage, FALSE) =>
               Exact(ledger[it] \o B(it), it \in r.keys, r.lm[it])
          /\ it \in Resources /\ Prepaid(it) => it \in r.keys
    BY BilledItem
  <1>7. BooksTypeOK'
    <2>1. posted' \in VMStates
      BY DEF FirstPayment, PostState, IInv, BooksTypeOK
    <2>2. ledger' \in [Items -> Seq(Record)]
      <3>1. ledger' = [it \in Items |-> ledger[it] \o B(it)]
        BY DEF FirstPayment, Publish
      <3> HIDE DEF B
      <3> QED BY <3>1, <1>6
    <2>3. skewed' \in [Items -> BOOLEAN]
      BY DEF FirstPayment
    <2> QED BY <1>2, <1>3, <2>1, <2>2, <2>3 DEF FirstPayment, IInv, BooksTypeOK
  <1> HIDE DEF r, B
  <1>8. OrderInv'
    BY <1>3, <1>4, <1>6 DEF OrderInv, Tracked, PeriodOf
  <1>9. ExactInv'
    BY <1>3, <1>4, <1>5, <1>6 DEF ExactInv, Prepaid, PeriodOf
  <1>10. KeysInv'
    <2>1. \A it \in Resources : it \in Items
      BY DEF Items
    <2> QED BY <2>1, <1>3, <1>6 DEF KeysInv, Prepaid, PeriodOf
  <1> QED BY <1>3, <1>7, <1>8, <1>9, <1>10 DEF IInv

-----------------------------------------------------------------------------
(* The renewals.                                                           *)

\* One more period, for every item that has one.
LEMMA ManualRenewStep ==
    ASSUME IInv, ManualRenew
    PROVE  IInv'
  <1> DEFINE R     == {it \in Items : ManuallyRenewed(it)}
             to(it) == data.lm[it] + PeriodOf(it)
             rec(it) == [start |-> data.lm[it], end |-> to(it), cost |-> Price[it]]
             K     == data.keys \cup R
             L     == [it \in Items |-> IF it \in R THEN to(it) ELSE data.lm[it]]
  <1>1. /\ data \in Data /\ ledger \in [Items -> Seq(Record)] /\ now \in Nat
        /\ data.keys \in SUBSET Items /\ data.lm \in [Items -> Int]
        /\ Created \in Int /\ changes \in Nat
    BY PlanFacts, PlanAssumption DEF IInv, BooksTypeOK, Data
  <1>2. \A it \in Items : PeriodOf(it) \in Nat /\ Price[it] \in Nat
    BY PlanFacts
  <1>3. \A it \in Items :
          /\ to(it) \in Int
          /\ rec(it) \in Record
          /\ rec(it).start = data.lm[it] /\ rec(it).end = to(it)
    BY <1>1, <1>2, SMT DEF Record
  <1>4. \A it \in R : PeriodOf(it) # 0 /\ (it \in Addons => it \in data.keys)
    BY DEF ManuallyRenewed
  <1>5. ledger' = [it \in Items |->
                     IF it \in R THEN Append(ledger[it], rec(it)) ELSE ledger[it]]
    BY DEF ManualRenew, RenewFrom
  <1>6. data' = [data EXCEPT !.keys = K, !.lm = L]
    BY DEF ManualRenew, RenewFrom
  <1>7. /\ now' = now /\ clawed' = clawed
        /\ skewed' = [it \in Items |->
                        \/ skewed[it]
                        \/ it \in R \ data.keys /\ Product \notin data.keys]
    BY DEF ManualRenew
  <1>8. data' \in Data /\ data'.keys = K /\ data'.lm = L
    <2>1. K \in SUBSET Items
      BY <1>1
    <2>2. L \in [Items -> Int]
      BY <1>1, <1>3
    <2> HIDE DEF K, L
    <2> DEFINE D == [data EXCEPT !.keys = K]
    <2>3. D \in Data /\ D.keys = K
      BY <1>1, <2>1, DataExceptKeys
    <2>4. data' = [D EXCEPT !.lm = L]
      BY <1>6
    <2> HIDE DEF D
    <2> QED BY <2>2, <2>3, <2>4, DataExceptLm
  <1>9. BooksTypeOK'
    <2>1. ledger' \in [Items -> Seq(Record)]
      <3> HIDE DEF rec, R
      <3>1. \A it \in Items : Append(ledger[it], rec(it)) \in Seq(Record)
        BY <1>1, <1>3, SMT
      <3> QED BY <1>1, <1>5, <3>1
    <2>2. changes' \in Nat
      BY <1>1 DEF ManualRenew, Outside
    <2>3. skewed' \in [Items -> BOOLEAN]
      BY <1>7
    <2> QED BY <1>7, <1>8, <2>1, <2>2, <2>3 DEF ManualRenew, IInv, BooksTypeOK
  <1> HIDE DEF R, rec, to
  <1>10. ASSUME NEW it \in Items, it \in R
         PROVE  LET one == << rec(it) >> IN
                /\ one \in Seq(Record)
                /\ ledger'[it] = ledger[it] \o one
                /\ data'.lm[it] = to(it) /\ it \in data'.keys
                /\ data.lm[it] <= to(it)
                /\ Ordered(one) /\ Within(one, to(it))
                /\ \A i \in 1 .. Len(one) : data.lm[it] <= one[i].start
                /\ Covers(one, data.lm[it], to(it))
    <2> DEFINE one == << rec(it) >>
    <2>1. one \in Seq(Record) /\ Len(one) = 1 /\ one[1] = rec(it) /\ one # << >>
      BY <1>3, SMT
    <2>2. ledger'[it] = ledger[it] \o one
      <3>1. Append(ledger[it], rec(it)) = ledger[it] \o << rec(it) >>
        BY <1>1, <1>3, SMT
      <3> QED BY <3>1, <1>5, <1>10
    <2>3. data'.lm[it] = to(it) /\ it \in data'.keys
      BY <1>8, <1>10
    <2>4. data.lm[it] \in Int /\ PeriodOf(it) \in Nat
      BY <1>1, <1>2
    <2>5. data.lm[it] <= to(it) /\ to(it) \in Int
      BY <2>4, SMT DEF to
    <2> HIDE DEF one
    <2>6. Ordered(one)
      BY <2>1, SMT DEF Ordered
    <2>7. Within(one, to(it))
      BY <1>3, <2>1, <2>5, SMT DEF Within
    <2>8. \A i \in 1 .. Len(one) : data.lm[it] <= one[i].start
      BY <1>3, <2>1, <2>4, SMT
    <2>9. Covers(one, data.lm[it], to(it))
      BY <1>3, <2>1, SMT DEF Covers
    <2> QED BY <2>1, <2>2, <2>3, <2>5, <2>6, <2>7, <2>8, <2>9 DEF one
  <1>11. ASSUME NEW it \in Items, it \notin R
         PROVE  /\ ledger'[it] = ledger[it] /\ data'.lm[it] = data.lm[it]
                /\ it \in data'.keys <=> it \in data.keys
    BY <1>5, <1>8, <1>11
  <1> HIDE DEF K, L
  <1>12. OrderInv'
    <2> SUFFICES ASSUME NEW it \in Items, Tracked(it), ~clawed[it]
                 PROVE  InOrder(ledger'[it], it \in data'.keys, data'.lm[it])
      BY <1>7 DEF OrderInv, Tracked, PeriodOf
    <2>1. InOrder(ledger[it], it \in data.keys, data.lm[it])
      BY DEF IInv, OrderInv
    <2>2. CASE it \in R
      <3>1. ledger[it] \in Seq(Record) /\ data.lm[it] \in Int /\ to(it) \in Int
        BY <1>1, <1>3
      <3>2. Within(ledger[it], data.lm[it]) /\ Ordered(ledger[it])
        BY <2>1 DEF InOrder
      <3> DEFINE one == << rec(it) >>
      <3>3. /\ one \in Seq(Record)
            /\ ledger'[it] = ledger[it] \o one
            /\ data'.lm[it] = to(it) /\ it \in data'.keys
            /\ data.lm[it] <= to(it)
            /\ Ordered(one) /\ Within(one, to(it))
            /\ \A i \in 1 .. Len(one) : data.lm[it] <= one[i].start
        BY <2>2, <1>10
      <3> HIDE DEF one
      <3>4. Ordered(ledger[it] \o one) /\ Within(ledger[it] \o one, to(it))
        BY <3>1, <3>2, <3>3, OrderedConcat
      <3> QED BY <3>3, <3>4 DEF InOrder
    <2>3. CASE it \notin R
      BY <2>1, <2>3, <1>11 DEF InOrder
    <2> QED BY <2>2, <2>3
  <1>13. ExactInv'
    <2> SUFFICES ASSUME NEW it \in Items, Prepaid(it), ~clawed[it], ~skewed'[it]
                 PROVE  Exact(ledger'[it], it \in data'.keys, data'.lm[it])
      BY <1>7 DEF ExactInv, Prepaid, PeriodOf
    <2>0. ~skewed[it] /\ ~(it \in R \ data.keys /\ Product \notin data.keys)
      BY <1>7
    <2>1. Exact(ledger[it], it \in data.keys, data.lm[it])
      BY <2>0 DEF IInv, ExactInv
    <2>2. CASE it \in R
      <3>1. it \in data.keys
        <4>1. CASE it \in Resources
          BY <4>1, <2>0, <2>2 DEF IInv, KeysInv
        <4>2. CASE it \in Addons
          BY <4>2, <2>2, <1>4
        <4>3. CASE it = Product
          BY <4>3, <2>0, <2>2
        <4> QED BY <4>1, <4>2, <4>3 DEF Items
      <3>2. ledger[it] \in Seq(Record) /\ data.lm[it] \in Int /\ to(it) \in Int
        BY <1>1, <1>3
      <3>3. Created <= data.lm[it] /\ Covers(ledger[it], Created, data.lm[it])
        BY <2>1, <3>1 DEF Exact
      <3> DEFINE one == << rec(it) >>
      <3>4. /\ one \in Seq(Record)
            /\ ledger'[it] = ledger[it] \o one
            /\ data'.lm[it] = to(it) /\ it \in data'.keys
            /\ data.lm[it] <= to(it)
            /\ Covers(one, data.lm[it], to(it))
        BY <2>2, <1>10
      <3> HIDE DEF one
      <3>5. Covers(ledger[it] \o one, Created, to(it))
        BY <3>2, <3>3, <3>4, <1>1, CoversConcat
      <3>6. Created <= to(it)
        BY <3>2, <3>3, <3>4, <1>1, SMT
      <3> QED BY <3>4, <3>5, <3>6 DEF Exact
    <2>3. CASE it \notin R
      BY <2>1, <2>3, <1>11 DEF Exact
    <2> QED BY <2>2, <2>3
  <1>14. KeysInv'
    <2>1. data.keys \subseteq data'.keys /\ R \subseteq data'.keys
      BY <1>8 DEF K
    <2>2. \A it \in Resources : Prepaid(it) => it \in R
      BY PlanAssumption DEF Prepaid, ManuallyRenewed, Items, R
    <2> QED BY <2>1, <2>2 DEF KeysInv, Prepaid, PeriodOf
  <1> QED BY <1>7, <1>9, <1>12, <1>13, <1>14 DEF IInv

\* A free renewal moves last_monitoring ahead of the records it leaves alone.
LEMMA FreeRenewStep ==
    ASSUME IInv, FreeRenew
    PROVE  IInv'
  <1> DEFINE L == [it \in Items |->
                     IF Movable(it) THEN data.lm[it] + PeriodOf(it) ELSE data.lm[it]]
  <1>1. /\ data \in Data /\ ledger \in [Items -> Seq(Record)]
        /\ data.lm \in [Items -> Int] /\ changes \in Nat
    BY DEF IInv, BooksTypeOK, Data
  <1>2. \A it \in Items : PeriodOf(it) \in Nat
    BY PlanFacts
  <1>3. L \in [Items -> Int] /\ \A it \in Items : data.lm[it] <= L[it]
    BY <1>1, <1>2, SMT
  <1>4. /\ data' = [data EXCEPT !.lm = L]
        /\ skewed' = [it \in Items |-> skewed[it] \/ L[it] > data.lm[it]]
        /\ ledger' = ledger /\ now' = now /\ clawed' = clawed
    BY DEF FreeRenew
  <1> HIDE DEF L
  <1>5. data' \in Data /\ data'.keys = data.keys /\ data'.lm = L
    BY <1>1, <1>3, <1>4, DataExceptLm
  <1>6. BooksTypeOK'
    <2>1. changes' \in Nat
      BY <1>1 DEF FreeRenew, Outside
    <2>2. skewed' \in [Items -> BOOLEAN]
      BY <1>4
    <2> QED BY <1>4, <1>5, <2>1, <2>2 DEF FreeRenew, IInv, BooksTypeOK
  <1>7. OrderInv'
    <2> SUFFICES ASSUME NEW it \in Items, Tracked(it), ~clawed[it]
                 PROVE  InOrder(ledger[it], it \in data.keys, L[it])
      BY <1>4, <1>5 DEF OrderInv, Tracked, PeriodOf
    <2>1. InOrder(ledger[it], it \in data.keys, data.lm[it])
      BY DEF IInv, OrderInv
    <2>2. \A i \in 1 .. Len(ledger[it]) : ledger[it][i] \in Record
      BY <1>1, ElementOfSeq
    <2>3. \A i \in 1 .. Len(ledger[it]) : ledger[it][i].end \in Int
      BY <2>2 DEF Record
    <2>4. data.lm[it] \in Int /\ L[it] \in Int /\ data.lm[it] <= L[it]
      BY <1>1, <1>3
    <2>5. Within(ledger[it], L[it])
      BY <2>1, <2>3, <2>4, SMT DEF InOrder, Within
    <2> QED BY <2>1, <2>5 DEF InOrder
  <1>8. ExactInv'
    <2> SUFFICES ASSUME NEW it \in Items, Prepaid(it), ~clawed[it], ~skewed'[it]
                 PROVE  Exact(ledger[it], it \in data.keys, L[it])
      BY <1>4, <1>5 DEF ExactInv, Prepaid, PeriodOf
    <2>1. ~skewed[it] /\ ~(L[it] > data.lm[it])
      BY <1>4
    <2>2. L[it] = data.lm[it]
      <3>1. data.lm[it] \in Int /\ L[it] \in Int /\ data.lm[it] <= L[it]
        BY <1>1, <1>3
      <3> QED BY <2>1, <3>1, SMT
    <2> QED BY <2>1, <2>2 DEF IInv, ExactInv
  <1>9. KeysInv'
    BY <1>5 DEF IInv, KeysInv, Prepaid, PeriodOf
  <1> QED BY <1>4, <1>6, <1>7, <1>8, <1>9 DEF IInv

\* A canceled renewal moves last_monitoring back, and then nothing is
\* claimed of the item any more; one that it clamps may even move ahead.
LEMMA CancelRenewStep ==
    ASSUME IInv, CancelRenew
    PROVE  IInv'
  <1> DEFINE back(it) == data.lm[it] - PeriodOf(it)
             L == [it \in Items |->
                     IF ~Movable(it) THEN data.lm[it]
                     ELSE IF it \in Addons \/ back(it) >= InstCreated THEN back(it)
                     ELSE InstCreated]
  <1>1. /\ data \in Data /\ ledger \in [Items -> Seq(Record)]
        /\ data.lm \in [Items -> Int] /\ changes \in Nat /\ Created \in Int
        /\ InstCreated \in Int /\ InstCreated <= Created
    BY PlanFacts, PlanAssumption DEF IInv, BooksTypeOK, Data
  <1>2. \A it \in Items : PeriodOf(it) \in Nat
    BY PlanFacts
  <1>3. L \in [Items -> Int]
    BY <1>1, <1>2, SMT
  <1>4. /\ data' = [data EXCEPT !.lm = L]
        /\ clawed' = [it \in Items |-> clawed[it] \/ L[it] < data.lm[it]]
        /\ ledger' = ledger /\ now' = now /\ skewed' = skewed
    BY DEF CancelRenew
  <1>5. \A it \in Items :
          Created <= data.lm[it] /\ L[it] >= data.lm[it] => L[it] = data.lm[it]
    BY <1>1, <1>2, SMT
  <1> HIDE DEF L
  <1>6. data' \in Data /\ data'.keys = data.keys /\ data'.lm = L
    BY <1>1, <1>3, <1>4, DataExceptLm
  <1>7. \A it \in Items :
          ~clawed'[it] => ~clawed[it] /\ L[it] >= data.lm[it]
    <2> SUFFICES ASSUME NEW it \in Items, ~clawed'[it]
                 PROVE  ~clawed[it] /\ L[it] >= data.lm[it]
      OBVIOUS
    <2>1. ~clawed[it] /\ ~(L[it] < data.lm[it])
      BY <1>4
    <2>2. L[it] \in Int /\ data.lm[it] \in Int
      BY <1>1, <1>3
    <2>3. L[it] >= data.lm[it]
      BY <2>1, <2>2, SMT
    <2> QED BY <2>1, <2>3
  <1>8. BooksTypeOK'
    <2>1. changes' \in Nat
      BY <1>1 DEF CancelRenew, Outside
    <2>2. clawed' \in [Items -> BOOLEAN]
      BY <1>4
    <2> QED BY <1>4, <1>6, <2>1, <2>2 DEF CancelRenew, IInv, BooksTypeOK
  <1>9. OrderInv'
    <2> SUFFICES ASSUME NEW it \in Items, Tracked(it), ~clawed'[it]
                 PROVE  InOrder(ledger[it], it \in data.keys, L[it])
      BY <1>4, <1>6 DEF OrderInv, Tracked, PeriodOf
    <2>1. InOrder(ledger[it], it \in data.keys, data.lm[it])
      BY <1>7 DEF IInv, OrderInv
    <2>2. \A i \in 1 .. Len(ledger[it]) : ledger[it][i] \in Record
      BY <1>1, ElementOfSeq
    <2>3. \A i \in 1 .. Len(ledger[it]) : ledger[it][i].end \in Int
      BY <2>2 DEF Record
    <2>4. data.lm[it] \in Int /\ L[it] \in Int /\ L[it] >= data.lm[it]
      BY <1>1, <1>3, <1>7
    <2>5. Within(ledger[it], L[it])
      BY <2>1, <2>3, <2>4, SMT DEF InOrder, Within
    <2> QED BY <2>1, <2>5 DEF InOrder
  <1>10. ExactInv'
    <2> SUFFICES ASSUME NEW it \in Items, Prepaid(it), ~clawed'[it], ~skewed[it]
                 PROVE  Exact(ledger[it], it \in data.keys, L[it])
      BY <1>4, <1>6 DEF ExactInv, Prepaid, PeriodOf
    <2>1. Exact(ledger[it], it \in data.keys, data.lm[it])
      BY <1>7 DEF IInv, ExactInv
    <2>2. CASE it \in data.keys
      <3>1. Created <= data.lm[it] /\ L[it] >= data.lm[it]
        BY <2>1, <2>2, <1>7 DEF Exact
      <3>2. L[it] = data.lm[it]
        BY <3>1, <1>5
      <3> QED BY <2>1, <3>2
    <2>3. CASE it \notin data.keys
      BY <2>1, <2>3 DEF Exact
    <2> QED BY <2>2, <2>3
  <1>11. KeysInv'
    BY <1>6 DEF IInv, KeysInv, Prepaid, PeriodOf
  <1> QED BY <1>4, <1>8, <1>9, <1>10, <1>11 DEF IInv

-----------------------------------------------------------------------------
(* Everything else leaves the books alone.                                 *)

\* A step that touches neither the data, the ledger nor the clock's past keeps
\* the invariant.
LEMMA QuietStep ==
    ASSUME IInv, BooksTypeOK', now <= now',
           ledger' = ledger, skewed' = skewed, clawed' = clawed,
           data'.keys = data.keys, data'.lm = data.lm
    PROVE  IInv'
  <1>1. Created <= now'
    <2>1. Created \in Int /\ now \in Int /\ now' \in Int /\ Created <= now
      BY PlanAssumption DEF IInv, BooksTypeOK
    <2> QED BY <2>1, SMT
  <1>2. OrderInv'
    BY DEF IInv, OrderInv, Tracked, PeriodOf
  <1>3. ExactInv'
    BY DEF IInv, ExactInv, Prepaid, PeriodOf
  <1>4. KeysInv'
    BY DEF IInv, KeysInv, Prepaid, PeriodOf
  <1> QED BY <1>1, <1>2, <1>3, <1>4 DEF IInv

\* The rounds that publish nothing.
LEMMA QuietRoundStep ==
    ASSUME IInv, NEW seen, NEW ok, NEW usage, NEW balance,
           AutoUnderfunded(seen, ok, usage, balance) \/ ExpiryCheck(seen, ok)
    PROVE  IInv'
  <1>1. /\ now' = now /\ now \in Nat /\ data' = data /\ ledger' = ledger
        /\ skewed' = skewed /\ clawed' = clawed
    BY DEF AutoUnderfunded, ExpiryCheck, IInv, BooksTypeOK
  <1>2. vm' \in VMStates /\ posted' \in VMStates
    BY DEF AutoUnderfunded, ExpiryCheck, AfterSuspend, AfterResume, PostState,
           IInv, BooksTypeOK, VMStates
  <1>3. BooksTypeOK'
    BY <1>1, <1>2 DEF AutoUnderfunded, ExpiryCheck, IInv, BooksTypeOK
  <1>4. now <= now'
    BY <1>1, SMT
  <1> QED BY <1>1, <1>3, <1>4, QuietStep

\* Setting suspended_manually leaves last_monitoring as it was.
LEMMA DataExceptManual ==
    ASSUME NEW d \in Data, NEW b \in BOOLEAN
    PROVE  /\ [d EXCEPT !.manual = b] \in Data
           /\ [d EXCEPT !.manual = b].keys = d.keys
           /\ [d EXCEPT !.manual = b].lm = d.lm
  BY SMT DEF Data

\* suspend, resume, poweroff, freeze and unfreeze.
LEMMA ControlStep ==
    ASSUME IInv, Suspend \/ Resume \/ Poweroff \/ Freeze
    PROVE  IInv'
  <1>1. /\ data \in Data /\ now \in Nat /\ changes \in Nat
        /\ vm \in VMStates /\ MaxTime \in Nat
    BY BoundAssumption DEF IInv, BooksTypeOK
  <1>2. /\ data' \in Data
        /\ data'.keys = data.keys /\ data'.lm = data.lm
    <2>1. CASE Suspend
      <3>1. data' = [data EXCEPT !.manual = TRUE]
        BY <2>1 DEF Suspend
      <3> QED BY <3>1, <1>1, DataExceptManual, Zenon
    <2>2. CASE Resume
      <3>1. PICK date \in {data.immune} \cup now .. MaxTime :
              data' = [data EXCEPT !.manual = FALSE, !.immune = date]
        BY <2>2 DEF Resume
      <3>2. date \in Int
        <4>1. data.immune \in Int
          BY <1>1 DEF Data
        <4> QED BY <4>1, <1>1, SMT
      <3> DEFINE D == [data EXCEPT !.manual = FALSE]
      <3>3. D \in Data /\ D.keys = data.keys /\ D.lm = data.lm
        BY <1>1, DataExceptManual, Zenon
      <3>4. data' = [D EXCEPT !.immune = date]
        BY <3>1
      <3> HIDE DEF D
      <3>5. /\ [D EXCEPT !.immune = date] \in Data
            /\ [D EXCEPT !.immune = date].keys = D.keys
            /\ [D EXCEPT !.immune = date].lm = D.lm
        BY <3>2, <3>3, SMT DEF Data
      <3> QED BY <3>3, <3>4, <3>5
    <2>3. CASE Poweroff
      BY <2>3, <1>1 DEF Poweroff
    <2>4. CASE Freeze
      <3>1. PICK f \in BOOLEAN : data' = [data EXCEPT !.freeze = f]
        BY <2>4 DEF Freeze
      <3> QED BY <3>1, <1>1, SMT DEF Data
    <2> QED BY <2>1, <2>2, <2>3, <2>4
  <1>3. /\ now' = now /\ ledger' = ledger /\ skewed' = skewed
        /\ clawed' = clawed
    BY DEF Suspend, Resume, Poweroff, Freeze, Controlled
  <1>4. vm' \in VMStates /\ posted' \in VMStates
    BY <1>1 DEF Suspend, Resume, Poweroff, Freeze, Controlled, VMStates
  <1>5. changes' \in Nat
    <2>1. changes' = changes + 1
      BY DEF Suspend, Resume, Poweroff, Freeze, Controlled, Outside
    <2> QED BY <2>1, <1>1
  <1>6. igStatus' = igStatus /\ deleted' = deleted /\ autoRenew' = autoRenew
    BY DEF Suspend, Resume, Poweroff, Freeze, Controlled
  <1>7. BooksTypeOK'
    BY <1>2, <1>3, <1>4, <1>5, <1>6 DEF IInv, BooksTypeOK
  <1>8. now <= now'
    BY <1>1, <1>3, SMT
  <1> QED BY <1>2, <1>3, <1>7, <1>8, QuietStep

\* The clock and the core.
LEMMA SurroundingsStep ==
    ASSUME IInv, Tick \/ Core
    PROVE  IInv'
  <1>1. data \in Data /\ now \in Nat /\ changes \in Nat
    BY DEF IInv, BooksTypeOK
  <1>2. ledger' = ledger /\ skewed' = skewed /\ clawed' = clawed
        /\ vm' = vm /\ posted' = posted
    BY DEF Tick, Core, TopUp, SetGroupStatus, SetAutoRenew, SetCanceled, Delete
  <1>3. data' \in Data /\ data'.keys = data.keys /\ data'.lm = data.lm
    <2>1. CASE SetCanceled
      <3>1. PICK c \in {"no", "yes"} : data' = [data EXCEPT !.canceled = c]
        BY <2>1 DEF SetCanceled
      <3> QED BY <3>1, <1>1, SMT DEF Data
    <2>2. CASE ~SetCanceled
      BY <2>2, <1>1 DEF Tick, Core, TopUp, SetGroupStatus, SetAutoRenew, Delete
    <2> QED BY <2>1, <2>2
  <1>4. now' \in Nat /\ now <= now' /\ changes' \in Nat
    <2>1. now' = now \/ now' = now + 1
      BY DEF Tick, Core, TopUp, SetGroupStatus, SetAutoRenew, SetCanceled, Delete
    <2>2. changes' = changes \/ changes' = changes + 1
      BY DEF Tick, Core, TopUp, SetGroupStatus, SetAutoRenew, SetCanceled,
             Delete, Outside
    <2> QED BY <2>1, <2>2, <1>1, SMT
  <1>5. /\ igStatus' \in {"ACTIVE", "SUS", "DETACHED"} /\ deleted' \in BOOLEAN
        /\ autoRenew' \in BOOLEAN
    BY DEF Tick, Core, TopUp, SetGroupStatus, SetAutoRenew, SetCanceled, Delete,
           IInv, BooksTypeOK
  <1>6. BooksTypeOK'
    BY <1>2, <1>3, <1>4, <1>5 DEF IInv, BooksTypeOK
  <1> QED BY <1>2, <1>3, <1>4, <1>6, QuietStep

-----------------------------------------------------------------------------
(* The invariant.                                                          *)

\* The invariant holds when the VM has just been created.
LEMMA InitInv == Init => IInv
  <1> SUFFICES ASSUME Init PROVE IInv
    OBVIOUS
  <1>1. \A it \in Items : ledger[it] = << >> /\ it \notin data.keys
    BY DEF Init
  <1>2. data \in Data
    <2>1. [it \in Items |-> 0] \in [Items -> Int]
      OBVIOUS
    <2> QED BY <2>1, SMT DEF Init, Data
  <1>3. BooksTypeOK
    <2>1. ledger \in [Items -> Seq(Record)]
      <3>1. << >> \in Seq(Record)
        BY SMT
      <3> QED BY <3>1 DEF Init
    <2>2. skewed \in [Items -> BOOLEAN] /\ clawed \in [Items -> BOOLEAN]
      BY DEF Init
    <2> QED BY <1>2, <2>1, <2>2, PlanAssumption DEF Init, BooksTypeOK, VMStates
  <1>4. Created <= now
    <2>1. now = Created /\ Created \in Int
      BY PlanAssumption DEF Init
    <2> QED BY <2>1, SMT
  <1>5. OrderInv
    <2>1. Len(<< >>) = 0
      BY SMT
    <2>2. \A x : Within(<< >>, x) /\ Ordered(<< >>)
      BY SMT DEF Within, Ordered
    <2> QED BY <1>1, <2>2 DEF OrderInv, InOrder
  <1>6. ExactInv
    BY <1>1 DEF ExactInv, Exact
  <1>7. KeysInv
    BY DEF Init, KeysInv
  <1> QED BY <1>3, <1>4, <1>5, <1>6, <1>7 DEF IInv

\* Rounds, Invoke actions, the core and the clock preserve the invariant.
LEMMA NextInv == IInv /\ [Next]_vars => IInv'
  <1> SUFFICES ASSUME IInv, [Next]_vars PROVE IInv'
    OBVIOUS
  <1>1. CASE Round
    <2>1. CASE DeletedRound
      BY <2>1 DEF DeletedRound, vars, IInv, BooksTypeOK, OrderInv, ExactInv,
                  KeysInv, Tracked, Prepaid, PeriodOf
    <2>2. ASSUME NEW seen \in Seen, NEW ok \in BOOLEAN, ExpiryCheck(seen, ok)
          PROVE  IInv'
      BY <2>2, QuietRoundStep
    <2>3. ASSUME NEW seen \in Seen, NEW ok \in BOOLEAN,
                 NEW usage \in [Metered -> Usages], NEW balance,
                 \/ AutoUnderfunded(seen, ok, usage, balance)
                 \/ AutoPaid(seen, ok, usage, balance)
                 \/ FirstPayment(seen, usage)
          PROVE  IInv'
      BY <2>3, QuietRoundStep, AutoPaidStep, FirstPaymentStep
    <2> QED BY <1>1, <2>1, <2>2, <2>3 DEF Round
  <1>2. CASE Invoke
    BY <1>2, ManualRenewStep, FreeRenewStep, CancelRenewStep, ControlStep
       DEF Invoke
  <1>3. CASE Core \/ Tick
    BY <1>3, SurroundingsStep
  <1>4. CASE UNCHANGED vars
    BY <1>4 DEF vars, IInv, BooksTypeOK, OrderInv, ExactInv, KeysInv, Tracked,
                Prepaid, PeriodOf
  <1> QED BY <1>1, <1>2, <1>3, <1>4 DEF Next

\* The inductive invariant: the books have their types, records lie within
\* what last_monitoring says is billed, follow one another, and tile the time
\* of an item nobody moved by hand; suspended_manually means a stopped VM.
THEOREM Invariance == Spec => []IInv
  BY InitInv, NextInv, PTL DEF Spec

\* No instant of a prepaid item or a metered resource is billed twice, as
\* long as nothing moves its last_monitoring back.
THEOREM ChargedOnce == Spec => []NoDoubleCharge
  <1>1. IInv => NoDoubleCharge
    BY DEF IInv, OrderInv, InOrder, NoDoubleCharge
  <1> QED BY <1>1, Invariance, PTL

\* The records of a prepaid item and its last_monitoring tell the same story.
THEOREM BooksAgree == Spec => []PaidExactly
  <1>1. IInv => PaidExactly
    BY DEF IInv, ExactInv, Exact, PaidExactly
  <1> QED BY <1>1, Invariance, PTL

-----------------------------------------------------------------------------
(* What a step may not do.                                                 *)

\* An item with new records is paid beyond the present.
LEMMA BilledAhead ==
    ASSUME data \in Data, now \in Nat, NEW it \in Items, Prepaid(it),
           NEW usage, NEW zeroRes, Bill(it, usage, zeroRes) # << >>
    PROVE  now < Renewed(it, usage, zeroRes)
  <1>1. Tracked(it) /\ PeriodOf(it) \in Nat \ {0}
    BY PlanFacts DEF Prepaid, Tracked
  <1>2. PICK n \in Nat :
          /\ Spans(it, usage, zeroRes) = Tiles(Last(it), n, PeriodOf(it))
          /\ (Prepaid(it) /\ n > 0 => now < Renewed(it, usage, zeroRes))
    BY <1>1, TrackedRound
  <1>3. Last(it) \in Int /\ Cost(it, usage) \in Nat
    BY PlanFacts DEF Last, Cost, Data
  <1>4. n # 0
    <2>1. n = 0 => Priced(Tiles(Last(it), n, PeriodOf(it)), Cost(it, usage)) = << >>
      BY <1>1, <1>3, PricedTiles
    <2> QED BY <2>1, <1>2 DEF Bill
  <1> QED BY <1>2, <1>4, SMT

\* A round of an active group leaves every prepaid item it billed paid beyond
\* the present, so the next round bills nothing more.
THEOREM RoundsPayAhead == Spec => PaidAhead
  <1> DEFINE A == Round /\ igStatus = "ACTIVE" =>
                    \A it \in Items : Prepaid(it) /\ ledger'[it] # ledger[it] =>
                        data'.lm[it] > now
  <1>1. IInv /\ [Next]_vars => [A]_vars
    <2> SUFFICES ASSUME IInv, Round, igStatus = "ACTIVE", NEW it \in Items,
                        Prepaid(it), ledger'[it] # ledger[it]
                 PROVE  data'.lm[it] > now
      OBVIOUS
    <2>1. /\ data \in Data /\ now \in Nat
          /\ ledger \in [Items -> Seq(Record)]
      BY DEF IInv, BooksTypeOK
    <2>2. ASSUME NEW usage, NEW zeroRes,
                 data' = Renewal(usage, zeroRes),
                 ledger'[it] = ledger[it] \o Bill(it, usage, zeroRes)
          PROVE  data'.lm[it] > now
      <3>1. Bill(it, usage, zeroRes) # << >>
        <4>1. ledger[it] \o << >> = ledger[it]
          BY <2>1, SMT
        <4> QED BY <4>1, <2>2
      <3>2. now < Renewed(it, usage, zeroRes)
        BY <3>1, <2>1, BilledAhead
      <3>3. Renewed(it, usage, zeroRes) \in Int
        BY <2>1, BillType
      <3>4. data'.lm[it] = Renewed(it, usage, zeroRes)
        <4>1. Renewal(usage, zeroRes).lm = [i \in Items |-> Renewed(i, usage, zeroRes)]
          BY <2>1, RenewalType
        <4> QED BY <4>1, <2>2
      <3> QED BY <3>2, <3>3, <3>4, <2>1, SMT
    <2>3. ASSUME NEW seen, NEW ok, NEW usage, NEW balance,
                 AutoPaid(seen, ok, usage, balance)
          PROVE  data'.lm[it] > now
      <3>1. ~Rebased(seen, Renewal(usage, TRUE))
        BY DEF Rebased, Held
      <3>2. data' = Renewal(usage, TRUE)
        BY <2>3, <3>1 DEF AutoPaid
      <3>3. ledger'[it] = ledger[it] \o Bill(it, usage, TRUE)
        BY <2>3 DEF AutoPaid, Publish
      <3> QED BY <2>2, <3>2, <3>3
    <2>4. ASSUME NEW seen, NEW usage, FirstPayment(seen, usage)
          PROVE  data'.lm[it] > now
      <3>1. /\ data' = Renewal(usage, FALSE)
            /\ ledger'[it] = ledger[it] \o Bill(it, usage, FALSE)
        BY <2>4 DEF FirstPayment, Publish
      <3> QED BY <2>2, <3>1
    <2>5. ~DeletedRound /\ \A seen, ok : ~ExpiryCheck(seen, ok)
      BY DEF DeletedRound, vars, ExpiryCheck
    <2>6. \A seen, ok, usage, balance : ~AutoUnderfunded(seen, ok, usage, balance)
      BY DEF AutoUnderfunded
    <2> QED BY <2>3, <2>4, <2>5, <2>6 DEF Round
  <1>2. [][A]_vars <=> PaidAhead
    BY DEF PaidAhead
  <1> HIDE DEF A
  <1> QED BY <1>1, <1>2, Invariance, PTL DEF Spec

\* No round starts an instance an administrator suspended: it stays so until
\* resume is invoked.
THEOREM HeldByHand == Spec => []ManualHold
  <1>1. Init => ManualHold
    BY DEF Init, ManualHold
  <1>2. IInv /\ ManualHold /\ [Next]_vars => ManualHold'
    <2> SUFFICES ASSUME IInv, ManualHold, [Next]_vars, data'.manual
                 PROVE  vm' = "SUSPENDED"
      BY DEF ManualHold
    <2>1. data \in Data /\ now \in Nat
      BY DEF IInv, BooksTypeOK
    <2>2. ASSUME NEW seen \in Seen, NEW ok \in BOOLEAN, NEW usage, NEW balance,
                 AutoPaid(seen, ok, usage, balance)
          PROVE  vm' = "SUSPENDED"
      <3> DEFINE r == Renewal(usage, TRUE)
                 d == [r EXCEPT !.keys = @ \cup {Product}, !.lm[Product] = now]
      <3>1. r \in Data /\ r.manual = data.manual
        BY <2>1, RenewalType
      <3>2. data' = r \/ data' = d
        BY <2>2 DEF AutoPaid
      <3> HIDE DEF r
      <3>3. d.manual = r.manual
        BY <2>1, <3>1, RebasedData
      <3> HIDE DEF d
      <3>4. data.manual
        BY <3>1, <3>2, <3>3
      <3>5. vm = "SUSPENDED"
        BY <3>4 DEF ManualHold
      <3> QED BY <2>2, <3>4, <3>5 DEF AutoPaid, AfterPayment, AfterSuspend
    <2>3. ASSUME NEW seen \in Seen, NEW ok \in BOOLEAN, NEW usage, NEW balance,
                 AutoUnderfunded(seen, ok, usage, balance) \/ ExpiryCheck(seen, ok)
                   \/ FirstPayment(seen, usage)
          PROVE  vm' = "SUSPENDED"
      <3>1. Renewal(usage, FALSE).manual = data.manual
        BY <2>1, RenewalType
      <3>2. data.manual
        BY <2>3, <3>1 DEF AutoUnderfunded, ExpiryCheck, FirstPayment
      <3>3. vm = "SUSPENDED"
        BY <3>2 DEF ManualHold
      <3> QED BY <2>3, <3>2, <3>3 DEF AutoUnderfunded, ExpiryCheck, FirstPayment,
                                      AfterSuspend
    <2>4. CASE DeletedRound \/ UNCHANGED vars
      BY <2>4 DEF DeletedRound, vars, ManualHold
    <2>5. CASE ManualRenew \/ FreeRenew \/ CancelRenew
      <3>1. data'.manual = data.manual /\ vm' = vm
        BY <2>1, <2>5 DEF ManualRenew, FreeRenew, CancelRenew, Data
      <3> QED BY <3>1 DEF ManualHold
    <2>6. CASE Suspend \/ Resume \/ Poweroff \/ Freeze
      <3>1. CASE Suspend
        BY <3>1 DEF Suspend, Controlled
      <3>2. CASE Resume
        <4>1. ~data'.manual
          BY <2>1, <3>2 DEF Resume, Data
        <4> QED BY <4>1
      <3>3. CASE Poweroff
        BY <3>3 DEF Poweroff, Controlled, ManualHold
      <3>4. CASE Freeze
        <4>1. data'.manual = data.manual /\ vm' = vm
          BY <2>1, <3>4 DEF Freeze, Data
        <4> QED BY <4>1 DEF ManualHold
      <3> QED BY <2>6, <3>1, <3>2, <3>3, <3>4
    <2>7. CASE Tick \/ Core
      <3>1. data'.manual = data.manual /\ vm' = vm
        BY <2>1, <2>7 DEF Tick, Core, TopUp, SetGroupStatus, SetAutoRenew,
                          SetCanceled, Delete, Data
      <3> QED BY <3>1 DEF ManualHold
    <2> QED BY <2>2, <2>3, <2>4, <2>5, <2>6, <2>7 DEF Next, Round, Invoke
  <1> QED BY <1>1, <1>2, Invariance, PTL DEF Spec

-----------------------------------------------------------------------------
(* What is paid once.                                                      *)

\* It is known by its last_monitoring, which it has from its only record on.
OnceInv ==
    \A it \in Items \ Resources : PeriodOf(it) = 0 =>
        /\ it \notin data.keys => ledger[it] = << >>
        /\ Len(ledger[it]) <= 1

\* A round that bills such an item enters it into the data.
LEMMA BilledOnce ==
    ASSUME IInv, OnceInv, NEW usage, NEW zeroRes,
           \A it \in Items : ledger'[it] = ledger[it] \o Bill(it, usage, zeroRes),
           Renewal(usage, zeroRes).keys \subseteq data'.keys
    PROVE  OnceInv'
  <1> SUFFICES ASSUME NEW it \in Items \ Resources, PeriodOf(it) = 0
               PROVE  /\ it \notin data'.keys => ledger'[it] = << >>
                      /\ Len(ledger'[it]) <= 1
    BY DEF OnceInv, PeriodOf
  <1>1. data \in Data /\ now \in Nat /\ ledger[it] \in Seq(Record)
    BY DEF IInv, BooksTypeOK
  <1>2. it \in data'.keys \/ (it \notin data.keys /\ ~Written(it, usage, zeroRes))
    BY <1>1, RenewalType
  <1>3. Bill(it, usage, zeroRes) = Priced(Spans(it, usage, zeroRes), Cost(it, usage))
    BY DEF Bill, Kept
  <1>4. CASE Spans(it, usage, zeroRes) = << >>
    <2>1. Bill(it, usage, zeroRes) = << >>
      BY <1>3, <1>4, SMT DEF Priced
    <2>2. ledger'[it] = ledger[it]
      BY <1>1, <2>1, SMT
    <2> QED BY <1>2, <2>2 DEF OnceInv
  <1>5. CASE Spans(it, usage, zeroRes) # << >>
    <2>1. Written(it, usage, zeroRes) /\ it \in data'.keys
      BY <1>2, <1>5 DEF Written
    <2>2. it \notin data.keys
          /\ Spans(it, usage, zeroRes) = << Span(Last(it), Last(it) + 1) >>
      BY <1>5 DEF Spans, OneTimeSpans
    <2>3. ledger[it] = << >>
      BY <2>2 DEF OnceInv
    <2>4. Len(Bill(it, usage, zeroRes)) = 1 /\ Bill(it, usage, zeroRes) \in Seq(Record)
      <3>1. Bill(it, usage, zeroRes) \in Seq(Record)
        BY <1>1, BillType
      <3> DEFINE c == Cost(it, usage)
                 s == Span(Last(it), Last(it) + 1)
      <3>2. Bill(it, usage, zeroRes) = Priced(<< s >>, c)
        BY <1>3, <2>2
      <3> HIDE DEF c, s
      <3>3. Len(Priced(<< s >>, c)) = 1
        BY SMT DEF Priced
      <3> QED BY <3>1, <3>2, <3>3
    <2>5. Len(ledger'[it]) = 1
      BY <1>1, <2>3, <2>4, SMT
    <2> QED BY <2>1, <2>5, SMT
  <1> QED BY <1>4, <1>5

\* A product or an addon of a plan with period 0 is billed by one record, through
\* any sequence of rounds of both kinds, renewals and changes.
THEOREM OneRecord == Spec => []PaidOnce
  <1>1. Init => OnceInv
    BY SMT DEF Init, OnceInv
  <1>2. IInv /\ OnceInv /\ [Next]_vars => OnceInv'
    <2> SUFFICES ASSUME IInv, OnceInv, [Next]_vars PROVE OnceInv'
      OBVIOUS
    <2>1. data \in Data /\ now \in Nat /\ ledger \in [Items -> Seq(Record)]
      BY DEF IInv, BooksTypeOK
    <2>2. ASSUME NEW seen, NEW ok, NEW usage, NEW balance,
                 AutoPaid(seen, ok, usage, balance)
          PROVE  OnceInv'
      <3> DEFINE r == Renewal(usage, TRUE)
                 d == [r EXCEPT !.keys = @ \cup {Product}, !.lm[Product] = now]
      <3>1. r \in Data
        BY <2>1, RenewalType
      <3>2. data' = r \/ data' = d
        BY <2>2 DEF AutoPaid
      <3>3. r.keys \subseteq d.keys
        <4> HIDE DEF r
        <4> QED BY <3>1, <2>1, RebasedData
      <3>4. \A it \in Items : ledger'[it] = ledger[it] \o Bill(it, usage, TRUE)
        BY <2>2 DEF AutoPaid, Publish
      <3> QED BY <3>2, <3>3, <3>4, BilledOnce
    <2>3. ASSUME NEW seen, NEW usage, FirstPayment(seen, usage)
          PROVE  OnceInv'
      BY <2>3, BilledOnce DEF FirstPayment, Publish
    <2>4. ASSUME ledger' = ledger, data.keys \subseteq data'.keys
          PROVE  OnceInv'
      BY <2>4 DEF OnceInv, PeriodOf
    <2>5. CASE Round
      <3>1. CASE DeletedRound
        BY <3>1, <2>4 DEF DeletedRound, vars
      <3>2. ASSUME NEW seen, NEW ok, NEW usage, NEW balance,
                   ExpiryCheck(seen, ok) \/ AutoUnderfunded(seen, ok, usage, balance)
            PROVE  OnceInv'
        BY <3>2, <2>4 DEF ExpiryCheck, AutoUnderfunded
      <3> QED BY <2>5, <2>2, <2>3, <3>1, <3>2 DEF Round
    <2>6. CASE ManualRenew
      <3> DEFINE renewed == {it \in Items : ManuallyRenewed(it)}
      <3>1. data.keys \subseteq data'.keys
        BY <2>1, <2>6 DEF ManualRenew, Data
      <3>2. \A it \in Items : PeriodOf(it) = 0 => ledger'[it] = ledger[it]
        BY <2>6 DEF ManualRenew, ManuallyRenewed
      <3> QED BY <3>1, <3>2 DEF OnceInv, PeriodOf
    <2>7. CASE FreeRenew \/ CancelRenew
      <3>1. ledger' = ledger /\ data'.keys = data.keys
        BY <2>1, <2>7 DEF FreeRenew, CancelRenew, Data
      <3> QED BY <3>1, <2>4
    <2>8. CASE Suspend \/ Resume \/ Poweroff \/ Freeze
      <3>1. ledger' = ledger /\ data'.keys = data.keys
        BY <2>1, <2>8 DEF Suspend, Resume, Poweroff, Freeze, Controlled, Data
      <3> QED BY <3>1, <2>4
    <2>9. CASE Core \/ Tick \/ UNCHANGED vars
      <3>1. ledger' = ledger /\ data'.keys = data.keys
        BY <2>1, <2>9 DEF Core, TopUp, SetGroupStatus, SetAutoRenew, SetCanceled,
                          Delete, Tick, Data, vars
      <3> QED BY <3>1, <2>4
    <2> QED BY <2>5, <2>6, <2>7, <2>8, <2>9 DEF Next, Invoke
  <1>3. OnceInv => PaidOnce
    BY DEF OnceInv, PaidOnce
  <1> QED BY <1>1, <1>2, <1>3, Invariance, PTL DEF Spec

-----------------------------------------------------------------------------
(* The funds.                                                              *)

\* What a round takes is a natural number, nothing is never negative.
LEMMA TotalType ==
    ASSUME data \in Data, now \in Nat, NEW usage, NEW zeroRes
    PROVE  Total(usage, zeroRes) \in Nat
  <1> DEFINE amount(it) == Len(Bill(it, usage, zeroRes)) * Cost(it, usage)
             w == [it \in Items |-> amount(it)]
             eq(h) == h = [s \in SUBSET Items |->
                 IF s = {} THEN 0
                 ELSE amount(CHOOSE x \in s : TRUE) + h[s \ {CHOOSE x \in s : TRUE}]]
  <1>1. w \in [Items -> Nat]
    <2> SUFFICES ASSUME NEW it \in Items PROVE amount(it) \in Nat
      OBVIOUS
    <2>1. Bill(it, usage, zeroRes) \in Seq(Record) /\ Cost(it, usage) \in Nat
      BY BillType, PlanFacts DEF Cost
    <2>2. Len(Bill(it, usage, zeroRes)) \in Nat
      BY <2>1, LenProperties
    <2> QED BY <2>1, <2>2, SMT
  <1>2. \A h : SumUp(h, w, Items) <=> eq(h)
    <2>1. \A s \in SUBSET Items : s # {} =>
             w[CHOOSE x \in s : TRUE] = amount(CHOOSE x \in s : TRUE)
      OBVIOUS
    <2> HIDE DEF w, amount
    <2> QED BY <2>1 DEF SumUp
  <1>3. Total(usage, zeroRes) = (CHOOSE h : eq(h))[Items]
    BY DEF Total, MapThenSumSet, MapThenFoldSet
  <1> HIDE DEF w, eq
  <1>4. eq(CHOOSE h : eq(h))
    BY <1>2, SumExists, PlanAssumption
  <1> QED BY <1>1, <1>2, <1>3, <1>4, SumType, PlanAssumption

\* And so is what manual_renew takes for some of the items.
LEMMA PricesType ==
    ASSUME NEW some \in SUBSET Items
    PROVE  MapThenSumSet(LAMBDA it : Price[it], some) \in Nat
  <1> DEFINE w == [it \in some |-> Price[it]]
             eq(h) == h = [s \in SUBSET some |->
                 IF s = {} THEN 0
                 ELSE Price[CHOOSE x \in s : TRUE] + h[s \ {CHOOSE x \in s : TRUE}]]
  <1>1. w \in [some -> Nat] /\ IsFiniteSet(some)
    BY PlanAssumption, FS_Subset
  <1>2. \A h : SumUp(h, w, some) <=> eq(h)
    <2>1. \A s \in SUBSET some : s # {} =>
             w[CHOOSE x \in s : TRUE] = Price[CHOOSE x \in s : TRUE]
      OBVIOUS
    <2> HIDE DEF w
    <2> QED BY <2>1 DEF SumUp
  <1>3. MapThenSumSet(LAMBDA it : Price[it], some) = (CHOOSE h : eq(h))[some]
    BY DEF MapThenSumSet, MapThenFoldSet
  <1> HIDE DEF w, eq
  <1>4. eq(CHOOSE h : eq(h))
    BY <1>1, <1>2, SumExists
  <1> QED BY <1>1, <1>2, <1>3, <1>4, SumType

\* What becomes of the funds: a round takes the total of its records, of an
\* auto-renewed instance only what the account has.
LEMMA FundsStep ==
    ASSUME IInv, funds \in Int, [Next]_vars
    PROVE  /\ funds' \in Int
           /\ Round /\ autoRenew => funds' = funds \/ funds' >= 0
  <1>1. data \in Data /\ now \in Nat
    BY DEF IInv, BooksTypeOK
  <1>2. ASSUME NEW seen, NEW ok, NEW usage, NEW balance \in Balances,
               AutoPaid(seen, ok, usage, balance)
        PROVE  funds' \in Int /\ (funds' = funds \/ funds' >= 0)
    <2> DEFINE total == Total(usage, TRUE)
    <2>1. total \in Nat
      BY <1>1, TotalType
    <2>2. funds' = funds - total
      BY <1>2 DEF AutoPaid
    <2>3. total = 0 \/ total <= balance
      BY <1>2 DEF AutoPaid, Affordable
    <2>4. balance = funds \/ balance = 0
      BY DEF Balances
    <2> HIDE DEF total
    <2> QED BY <2>1, <2>2, <2>3, <2>4, SMT
  <1>3. ASSUME NEW seen, NEW usage, FirstPayment(seen, usage)
        PROVE  funds' \in Int /\ ~autoRenew
    <2> DEFINE total == Total(usage, FALSE)
    <2>1. total \in Nat
      BY <1>1, TotalType
    <2>2. funds' = funds - total /\ ~autoRenew
      BY <1>3 DEF FirstPayment, NonRegular
    <2> HIDE DEF total
    <2> QED BY <2>1, <2>2, SMT
  <1>4. CASE Round
    <2>1. \/ funds' = funds
          \/ \E seen, ok, usage : \E balance \in Balances : AutoPaid(seen, ok, usage, balance)
          \/ \E seen, usage : FirstPayment(seen, usage)
      BY <1>4 DEF Round, DeletedRound, ExpiryCheck, AutoUnderfunded, vars
    <2> QED BY <1>2, <1>3, <2>1
  <1>5. CASE Invoke /\ ~ManualRenew
    <2>1. funds' = funds
      BY <1>5 DEF Invoke, FreeRenew, CancelRenew, Suspend, Resume, Poweroff, Freeze, Controlled
    <2> QED BY <2>1
  <1>6. CASE ManualRenew /\ ~Round
    <2> DEFINE renewed == {it \in Items : ManuallyRenewed(it)}
               price == MapThenSumSet(LAMBDA it : Price[it], renewed)
    <2>1. price \in Nat
      BY PricesType
    <2>2. funds' = funds - price
      BY <1>6 DEF ManualRenew
    <2> HIDE DEF price
    <2> QED BY <1>6, <2>1, <2>2
  <1>7. CASE Core \/ Tick \/ UNCHANGED vars
    BY <1>7, BoundAssumption
       DEF Core, TopUp, SetGroupStatus, SetAutoRenew, SetCanceled, Delete, Tick, vars
  <1> QED BY <1>4, <1>5, <1>6, <1>7 DEF Next

LEMMA FundsTyped == Spec => [](IInv /\ funds \in Int)
  <1>1. Init => funds \in Int
    BY BoundAssumption DEF Init
  <1>2. IInv /\ funds \in Int /\ [Next]_vars => (funds \in Int)'
    BY FundsStep
  <1> QED BY <1>1, <1>2, Invariance, PTL DEF Spec

\* The books and the funds keep their types.
THEOREM TypeCorrect == Spec => []TypeOK
  <1>1. IInv /\ funds \in Int => TypeOK
    BY DEF IInv, TypeOK
  <1> QED BY <1>1, FundsTyped, PTL

\* A round of an auto-renewed instance never takes more than there is, for
\* any plan, prices and usage, also when it is run without a balance.
THEOREM NeverOverdrawn == Spec => NoOverdraft
  <1> DEFINE A == Round /\ autoRenew => funds' = funds \/ funds' >= 0
  <1>1. IInv /\ funds \in Int /\ [Next]_vars => [A]_vars
    BY FundsStep
  <1>2. [][A]_vars <=> NoOverdraft
    BY DEF NoOverdraft
  <1> HIDE DEF A
  <1> QED BY <1>1, <1>2, FundsTyped, PTL DEF Spec

-----------------------------------------------------------------------------
(* InstanceBilling implements PrepaidAccount, for every billing plan and   *)
(* every bound: a round is a Round or sells nothing, what moves            *)
(* last_monitoring otherwise is a Renew or closes the account.             *)

\* What an honest item is paid until and how many records it has, after a
\* step and before it.
Same(it) == Last(it)' = Last(it) /\ Len(ledger'[it]) = Len(ledger[it])

SoldNow(it, n) ==
    /\ Last(it)' = Last(it) + n * PeriodOf(it)
    /\ Len(ledger'[it]) = Len(ledger[it]) + n

-----------------------------------------------------------------------------
(* Steps of the account, in terms of the books.                            *)

LEMMA Books ==
    ASSUME IInv, NEW it \in Sellable
    PROVE  /\ it \in Items /\ Prepaid(it) /\ Tracked(it) /\ it \in Walked
           /\ PeriodOf(it) \in Nat \ {0}
           /\ Last(it) \in Int /\ now \in Nat /\ Len(ledger[it]) \in Nat
           /\ ledger[it] \in Seq(Record) /\ data \in Data /\ data.lm[it] \in Int
  <1>1. it \in Items /\ Prepaid(it) /\ it \in Walked
    BY DEF Sellable, Walked
  <1>2. PeriodOf(it) \in Nat \ {0} /\ Tracked(it)
    BY <1>1, PlanFacts DEF Prepaid, Tracked
  <1>3. data.lm[it] \in Int /\ Last(it) \in Int
    BY <1>1, PlanFacts DEF IInv, BooksTypeOK, Data, Last
  <1>4. ledger[it] \in Seq(Record)
    BY <1>1 DEF IInv, BooksTypeOK
  <1> QED BY <1>1, <1>2, <1>3, <1>4 DEF IInv, BooksTypeOK

LEMMA SameItems == Sellable' = Sellable /\ \A it : PeriodOf(it)' = PeriodOf(it)
  BY DEF Sellable, Walked, Prepaid, PeriodOf, Items

\* Closing accounts, and perhaps buying one period of some items.
LEMMA IsRenew ==
    ASSUME IInv, UNCHANGED now, Honest' \subseteq Honest,
           \A it \in Honest' : Same(it) \/ SoldNow(it, 1)
    PROVE  Account!Next
  <1>1. \A it \in Honest' : it \in Honest /\ it \in Sellable
    BY DEF Honest
  <1>2. \A it \in Honest' :
           /\ PeriodOf(it) \in Int /\ Last(it) \in Int /\ Len(ledger[it]) \in Int
    BY <1>1, Books
  <1>3. \A it \in Honest' :
           \/ Last(it)' = Last(it) /\ Len(ledger'[it]) = Len(ledger[it])
           \/ /\ Last(it)' = Last(it) + PeriodOf(it)
              /\ Len(ledger'[it]) - Len(ledger[it]) = 1
    BY <1>2 DEF Same, SoldNow
  <1>4. Account!Closes
    BY DEF Account!Closes, Account!Open
  <1>5. Account!Renew
    BY <1>1, <1>2, <1>3, <1>4 DEF Account!Renew, Account!Sells, Account!Sold
  <1> QED BY <1>5 DEF Account!Next

\* Selling everything that is due.
LEMMA IsRound ==
    ASSUME IInv, UNCHANGED now, Honest' \subseteq Honest,
           \A it \in Honest' :
              IF Last(it) <= now
              THEN \E n \in Nat : /\ SoldNow(it, n)
                                  /\ Last(it)' \in now + 1 .. now + PeriodOf(it)
              ELSE Same(it)
    PROVE  Account!Next
  <1>1. \A it \in Honest' : it \in Honest /\ it \in Sellable
    BY DEF Honest
  <1>2. \A it \in Honest' :
           /\ PeriodOf(it) \in Int /\ Last(it) \in Int /\ Len(ledger[it]) \in Int
    BY <1>1, Books
  <1>3. \A it \in Honest' :
           IF Last(it) <= now
           THEN /\ Last(it)' = Last(it) + (Len(ledger'[it]) - Len(ledger[it])) * PeriodOf(it)
                /\ Last(it)' \in now + 1 .. now + PeriodOf(it)
           ELSE Last(it)' = Last(it) /\ Len(ledger'[it]) = Len(ledger[it])
    <2> SUFFICES ASSUME NEW it \in Honest', Last(it) <= now
                 PROVE  /\ Last(it)' = Last(it)
                             + (Len(ledger'[it]) - Len(ledger[it])) * PeriodOf(it)
                        /\ Last(it)' \in now + 1 .. now + PeriodOf(it)
      BY DEF Same
    <2>1. PICK n \in Nat : /\ SoldNow(it, n)
                           /\ Last(it)' \in now + 1 .. now + PeriodOf(it)
      OBVIOUS
    <2>2. Len(ledger'[it]) - Len(ledger[it]) = n
      BY <1>2, <2>1 DEF SoldNow
    <2> QED BY <2>1, <2>2 DEF SoldNow
  <1>4. Account!Closes
    BY DEF Account!Closes, Account!Open
  <1>5. Account!Round
    BY <1>1, <1>2, <1>3, <1>4 DEF Account!Round, Account!Due, Account!Sells, Account!Sold
  <1> QED BY <1>5 DEF Account!Next

-----------------------------------------------------------------------------
(* Rounds.                                                                 *)

\* A round bills a prepaid item for the periods that have begun, or for
\* none if it is paid ahead.
LEMMA SellableRound ==
    ASSUME IInv, NEW it \in Sellable, NEW usage, NEW zeroRes
    PROVE  \E n \in Nat :
             /\ Spans(it, usage, zeroRes) = Tiles(Last(it), n, PeriodOf(it))
             /\ (Written(it, usage, zeroRes) <=> n > 0)
             /\ Renewed(it, usage, zeroRes) =
                  IF n > 0 THEN Last(it) + n * PeriodOf(it) ELSE data.lm[it]
             /\ IF Last(it) <= now
                THEN /\ n > 0
                     /\ Last(it) + n * PeriodOf(it) \in now + 1 .. now + PeriodOf(it)
                ELSE n = 0
  <1> DEFINE p == PeriodOf(it)
             n == Begun(Last(it), now, p)
  <1>1. /\ Kind[it] = "PREPAID" /\ it \in Walked
        /\ p \in Nat \ {0} /\ Last(it) \in Int /\ now \in Int
    BY Books DEF Prepaid
  <1>2. /\ n \in Nat
        /\ IF Last(it) <= now
           THEN n > 0 /\ Last(it) + n * p \in now + 1 .. now + p
           ELSE n = 0
    <2>1. CASE Last(it) <= now
      <3>1. /\ n \in Nat /\ n > 0
            /\ now < PrepaidLast(Last(it), now, p)
            /\ PrepaidLast(Last(it), now, p) <= now + p
        BY <2>1, <1>1, PrepaidEndsAhead
      <3>2. PrepaidLast(Last(it), now, p) = Last(it) + n * p
        BY DEF PrepaidLast
      <3>3. n * p \in Nat
        <4> HIDE DEF n
        <4> QED BY <1>1, <3>1
      <3> HIDE DEF n
      <3> QED BY <1>1, <2>1, <3>1, <3>2, <3>3
    <2>2. CASE ~(Last(it) <= now)
      BY <2>2 DEF Begun
    <2> QED BY <2>1, <2>2
  <1>3. Spans(it, usage, zeroRes) = Tiles(Last(it), n, p)
    BY <1>1 DEF Spans, PeriodicSpans, PrepaidSpans
  <1>4. Tiles(Last(it), n, p) # << >> <=> n > 0
    <2>1. Len(Tiles(Last(it), n, p)) = n /\ Tiles(Last(it), n, p) \in Seq([start : Int, end : Int])
      BY <1>1, <1>2, TilesFacts
    <2> HIDE DEF n
    <2> QED BY <1>2, <2>1
  <1>5. Written(it, usage, zeroRes) <=> n > 0
    BY <1>1, <1>3, <1>4 DEF Written
  <1>6. Renewed(it, usage, zeroRes) = IF n > 0 THEN Last(it) + n * p ELSE data.lm[it]
    BY <1>1, <1>5 DEF Renewed, PrepaidLast
  <1> HIDE DEF n
  <1> QED BY <1>2, <1>3, <1>5, <1>6

\* The books of an honest item after a round whose data is the renewal.
LEMMA RoundItem ==
    ASSUME IInv, UNCHANGED now, NEW it \in Sellable, NEW usage, NEW zeroRes,
           ~Dropped(it, usage, zeroRes),
           ledger'[it] = ledger[it] \o Bill(it, usage, zeroRes),
           it \in data'.keys <=> it \in Renewal(usage, zeroRes).keys,
           data'.lm[it] = Renewal(usage, zeroRes).lm[it]
    PROVE  IF Last(it) <= now
           THEN \E n \in Nat : /\ SoldNow(it, n)
                               /\ Last(it)' \in now + 1 .. now + PeriodOf(it)
           ELSE Same(it)
  <1> DEFINE p == PeriodOf(it)
             B == Bill(it, usage, zeroRes)
  <1>1. PICK n \in Nat :
             /\ Spans(it, usage, zeroRes) = Tiles(Last(it), n, p)
             /\ (Written(it, usage, zeroRes) <=> n > 0)
             /\ Renewed(it, usage, zeroRes) =
                  IF n > 0 THEN Last(it) + n * p ELSE data.lm[it]
             /\ IF Last(it) <= now
                THEN n > 0 /\ Last(it) + n * p \in now + 1 .. now + p
                ELSE n = 0
    BY SellableRound
  <1>2. /\ it \in Items /\ p \in Nat \ {0} /\ Last(it) \in Int /\ now \in Nat
        /\ data \in Data /\ ledger[it] \in Seq(Record)
        /\ Len(ledger[it]) \in Nat /\ data.lm[it] \in Int
    BY Books
  <1>3. /\ data'.lm[it] = Renewed(it, usage, zeroRes)
        /\ (it \in data'.keys <=> it \in data.keys \/ Written(it, usage, zeroRes))
    <2> DEFINE r == Renewal(usage, zeroRes)
    <2>1. /\ r.lm = [i \in Items |-> Renewed(i, usage, zeroRes)]
          /\ \A i \in Items :
                i \in r.keys <=> i \in data.keys \/ Written(i, usage, zeroRes)
      BY <1>2, RenewalType
    <2> HIDE DEF r
    <2>2. (it \in data'.keys <=> it \in r.keys) /\ data'.lm[it] = r.lm[it]
      BY DEF r
    <2> QED BY <1>2, <2>1, <2>2
  <1>4. Len(B) = n
    <2>1. Len(Tiles(Last(it), n, p)) = n
      BY <1>2, TilesFacts
    <2>2. Len(Priced(Tiles(Last(it), n, p), Cost(it, usage))) = n
      BY <2>1 DEF Priced
    <2>3. CASE n > 0
      BY <2>2, <2>3, <1>1 DEF Bill, Dropped
    <2>4. CASE n = 0
      BY <2>2, <2>4, <1>1 DEF Bill
    <2> QED BY <2>3, <2>4
  <1>5. Len(ledger'[it]) = Len(ledger[it]) + n
    <2>1. B \in Seq(Record)
      BY <1>2, BillType
    <2> HIDE DEF B
    <2>2. Len(ledger[it] \o B) = Len(ledger[it]) + Len(B)
      BY <1>2, <2>1
    <2> QED BY <1>4, <2>2 DEF B
  <1>6. Last(it)' = IF n > 0 THEN Last(it) + n * p ELSE Last(it)
    <2>1. Last(it)' = IF it \in data'.keys THEN data'.lm[it] ELSE Created
      BY DEF Last
    <2> QED BY <1>1, <1>3, <2>1 DEF Last
  <1>7. CASE Last(it) <= now
    BY <1>1, <1>5, <1>6, <1>7 DEF SoldNow
  <1>8. CASE ~(Last(it) <= now)
    BY <1>1, <1>2, <1>5, <1>6, <1>8 DEF Same
  <1> QED BY <1>7, <1>8

LEMMA AutoPaidSells ==
    ASSUME IInv, NEW seen, NEW ok, NEW usage, NEW balance,
           AutoPaid(seen, ok, usage, balance)
    PROVE  Account!Next
  <1> DEFINE r       == Renewal(usage, TRUE)
             rebased == Rebased(seen, r)
             d       == [r EXCEPT !.keys = @ \cup {Product}, !.lm[Product] = now]
  <1>1. now' = now /\ data' = IF rebased THEN d ELSE r
    BY DEF AutoPaid
  <1>2. /\ data \in Data /\ now \in Nat /\ Product \in Items
    BY DEF IInv, BooksTypeOK, Items
  <1>3. r \in Data
    BY <1>2, RenewalType
  <1>4. /\ d.keys = r.keys \cup {Product}
        /\ d.lm = [r.lm EXCEPT ![Product] = now]
    <2> HIDE DEF r
    <2> QED BY <1>2, <1>3, RebasedData
  <1>5. \A it \in Items :
           /\ ~clawed'[it] =>
                ~clawed[it] /\ ~(it = Product /\ rebased /\ now < r.lm[it])
           /\ ~skewed'[it] =>
                /\ ~skewed[it] /\ ~Dropped(it, usage, TRUE)
                /\ ~(it = Product /\ rebased
                       /\ (Product \notin r.keys \/ now > r.lm[it]))
    BY DEF AutoPaid
  <1>6. \A it \in Sellable : it \in Items
    BY DEF Sellable, Walked
  <1>7. Honest' \subseteq Honest
    BY <1>5, <1>6, SameItems DEF Honest
  <1>8. ASSUME NEW it \in Honest'
        PROVE  IF Last(it) <= now
               THEN \E n \in Nat : /\ SoldNow(it, n)
                                   /\ Last(it)' \in now + 1 .. now + PeriodOf(it)
               ELSE Same(it)
    <2>1. it \in Sellable /\ it \in Items /\ ~clawed'[it] /\ ~skewed'[it]
      BY <1>6, SameItems DEF Honest
    <2>2. ledger'[it] = ledger[it] \o Bill(it, usage, TRUE)
      BY <2>1 DEF AutoPaid, Publish
    <2>3. (it \in data'.keys <=> it \in r.keys) /\ data'.lm[it] = r.lm[it]
      <3> HIDE DEF r, d, rebased
      <3>1. r.lm \in [Items -> Int]
        BY <1>3 DEF Data
      <3>2. CASE it = Product /\ rebased
        <4>1. it \in r.keys /\ ~(now < r.lm[it]) /\ ~(now > r.lm[it])
          BY <1>5, <2>1, <3>2
        <4>2. r.lm[it] = now
          <5>1. r.lm[it] \in Int /\ now \in Int
            BY <1>2, <2>1, <3>1
          <5> QED BY <4>1, <5>1, SMT
        <4> QED BY <1>1, <1>4, <2>1, <3>1, <3>2, <4>1, <4>2
      <3>3. CASE it # Product \/ ~rebased
        BY <1>1, <1>4, <2>1, <3>1, <3>3
      <3> QED BY <3>2, <3>3
    <2> QED BY <1>1, <1>5, <2>1, <2>2, <2>3, RoundItem
  <1> QED BY <1>1, <1>7, <1>8, IsRound

LEMMA FirstPaymentSells ==
    ASSUME IInv, NEW seen, NEW usage, FirstPayment(seen, usage)
    PROVE  Account!Next
  <1>1. /\ now' = now /\ data' = Renewal(usage, FALSE) /\ clawed' = clawed
        /\ \A it \in Items : ~skewed'[it] => ~skewed[it] /\ ~Dropped(it, usage, FALSE)
        /\ \A it \in Items : ledger'[it] = ledger[it] \o Bill(it, usage, FALSE)
    BY DEF FirstPayment, Publish
  <1>2. \A it \in Sellable : it \in Items
    BY DEF Sellable, Walked
  <1>3. Honest' \subseteq Honest
    BY <1>1, <1>2, SameItems DEF Honest
  <1>4. ASSUME NEW it \in Honest'
        PROVE  IF Last(it) <= now
               THEN \E n \in Nat : /\ SoldNow(it, n)
                                   /\ Last(it)' \in now + 1 .. now + PeriodOf(it)
               ELSE Same(it)
    <2>1. it \in Sellable /\ it \in Items /\ ~skewed'[it]
      BY <1>2, SameItems DEF Honest
    <2> QED BY <1>1, <2>1, RoundItem
  <1> QED BY <1>1, <1>3, <1>4, IsRound

-----------------------------------------------------------------------------
(* Renewals.                                                               *)

LEMMA ManualRenewSells == ASSUME IInv, ManualRenew PROVE Account!Next
  <1> DEFINE R == {it \in Items : ManuallyRenewed(it)}
             K == data.keys \cup R
             L == [it \in Items |->
                      IF it \in R THEN data.lm[it] + PeriodOf(it) ELSE data.lm[it]]
  <1>1. /\ now' = now /\ clawed' = clawed
        /\ data' = [data EXCEPT !.keys = K, !.lm = L]
        /\ \A it \in Items :
              /\ ~skewed'[it] =>
                    ~skewed[it] /\ ~(it \in R \ data.keys /\ Product \notin data.keys)
              /\ it \in R => \E rec : ledger'[it] = Append(ledger[it], rec)
              /\ it \notin R => ledger'[it] = ledger[it]
    BY DEF ManualRenew, RenewFrom
  <1>2. data'.keys = K /\ data'.lm = L
    <2>1. data \in Data
      BY DEF IInv, BooksTypeOK
    <2> HIDE DEF K, L
    <2> QED BY <1>1, <2>1 DEF Data
  <1>3. \A it \in Sellable : it \in Items
    BY DEF Sellable, Walked
  <1>4. Honest' \subseteq Honest
    BY <1>1, <1>3, SameItems DEF Honest
  <1>5. ASSUME NEW it \in Honest' PROVE Same(it) \/ SoldNow(it, 1)
    <2>1. it \in Sellable /\ it \in Items /\ ~skewed'[it]
      BY <1>3, SameItems DEF Honest
    <2>2. /\ PeriodOf(it) \in Nat /\ Prepaid(it) /\ ledger[it] \in Seq(Record)
          /\ data.lm[it] \in Int /\ Len(ledger[it]) \in Nat
      BY <2>1, Books
    <2>3. CASE it \in R
      <3>1. it \in data.keys
        <4>1. it \in Addons \/ it \in Resources \/ it = Product
          BY <2>1 DEF Items
        <4>2. it \in Addons => it \in data.keys
          BY <2>3 DEF ManuallyRenewed
        <4>3. it \in data.keys \/ Product \in data.keys
          BY <1>1, <2>1, <2>3
        <4> QED BY <2>2, <4>1, <4>2, <4>3 DEF IInv, KeysInv
      <3>2. Last(it) = data.lm[it] /\ Last(it)' = data.lm[it] + PeriodOf(it)
        BY <1>2, <2>1, <2>3, <3>1 DEF Last
      <3>3. Len(ledger'[it]) = Len(ledger[it]) + 1
        BY <1>1, <2>1, <2>2, <2>3
      <3> QED BY <2>2, <3>2, <3>3 DEF SoldNow
    <2>4. CASE it \notin R
      BY <1>1, <1>2, <2>1, <2>4 DEF Same, Last
    <2> QED BY <2>3, <2>4
  <1> QED BY <1>1, <1>4, <1>5, IsRenew

\* What moves last_monitoring otherwise closes the accounts of the items it
\* moves.
LEMMA MovedCloses ==
    ASSUME IInv, NEW L, UNCHANGED <<now, ledger>>, data' = [data EXCEPT !.lm = L],
           \A it \in Sellable :
              ~clawed'[it] /\ ~skewed'[it] =>
                 /\ ~clawed[it] /\ ~skewed[it]
                 /\ it \in data.keys => L[it] = data.lm[it]
    PROVE  Account!Next
  <1>1. data'.keys = data.keys /\ data'.lm = L
    BY DEF IInv, BooksTypeOK, Data
  <1>2. Honest' \subseteq Honest
    BY SameItems DEF Honest
  <1>3. \A it \in Honest' : Same(it)
    BY <1>1, SameItems DEF Honest, Same, Last
  <1> QED BY <1>2, <1>3, IsRenew

LEMMA FreeRenewSells == ASSUME IInv, FreeRenew PROVE Account!Next
  <1> DEFINE L == [it \in Items |->
                IF Movable(it) THEN data.lm[it] + PeriodOf(it) ELSE data.lm[it]]
  <1>1. /\ UNCHANGED <<now, ledger, clawed>> /\ data' = [data EXCEPT !.lm = L]
        /\ \A it \in Items : ~skewed'[it] => ~skewed[it] /\ ~(L[it] > data.lm[it])
    BY DEF FreeRenew
  <1>2. \A it \in Sellable : ~(L[it] > data.lm[it]) => L[it] = data.lm[it]
    BY Books
  <1>3. \A it \in Sellable : it \in Items
    BY Books
  <1> HIDE DEF L
  <1> QED BY <1>1, <1>2, <1>3, MovedCloses

LEMMA CancelRenewSells == ASSUME IInv, CancelRenew PROVE Account!Next
  <1> DEFINE back(it) == data.lm[it] - PeriodOf(it)
             L == [it \in Items |->
                     IF ~Movable(it) THEN data.lm[it]
                     ELSE IF it \in Addons \/ back(it) >= InstCreated THEN back(it)
                     ELSE InstCreated]
  <1>1. /\ UNCHANGED <<now, ledger, skewed>> /\ data' = [data EXCEPT !.lm = L]
        /\ \A it \in Items : ~clawed'[it] => ~clawed[it] /\ ~(L[it] < data.lm[it])
    BY DEF CancelRenew
  <1>2. \A it \in Sellable : it \in Items
    BY Books
  <1>3. ASSUME NEW it \in Sellable, ~clawed[it], ~skewed[it], it \in data.keys,
               ~(L[it] < data.lm[it])
        PROVE  L[it] = data.lm[it]
    <2>1. Created <= data.lm[it]
      BY <1>3, Books DEF IInv, ExactInv, Exact
    <2>2. /\ Created \in Int /\ InstCreated \in Int /\ InstCreated <= Created
          /\ data.lm[it] \in Int /\ PeriodOf(it) \in Nat
      BY Books, PlanAssumption
    <2> QED BY <1>2, <1>3, <2>1, <2>2
  <1> HIDE DEF L
  <1> QED BY <1>1, <1>2, <1>3, MovedCloses

-----------------------------------------------------------------------------
(* The refinement.                                                         *)

\* Steps that leave the books alone.
LEMMA QuietSells ==
    ASSUME IInv, UNCHANGED <<ledger, clawed, skewed>>,
           data'.keys = data.keys, data'.lm = data.lm,
           now' = now \/ now' = now + 1
    PROVE  Account!Next
  <1>1. Honest' = Honest /\ \A it : Same(it)
    BY SameItems DEF Honest, Same, Last
  <1>2. CASE now' = now
    BY <1>1, <1>2, IsRenew
  <1>3. CASE now' = now + 1
    BY <1>1, <1>3 DEF Account!Next, Account!Tick, Same
  <1> QED BY <1>2, <1>3

LEMMA InitSells == Init => Account!Init
  <1> SUFFICES ASSUME Init PROVE Account!Init
    OBVIOUS
  <1>1. /\ now = Created
        /\ \A it \in Sellable : /\ Last(it) = Created /\ Len(ledger[it]) = 0
                                /\ ~clawed[it] /\ ~skewed[it]
    BY DEF Init, Last, Sellable, Walked
  <1>2. Honest = Sellable
    BY <1>1 DEF Honest
  <1> QED BY <1>1, <1>2 DEF Account!Init

LEMMA NextSells == IInv /\ [Next]_vars => [Account!Next]_(Account!vars)
  <1> SUFFICES ASSUME IInv, [Next]_vars PROVE Account!Next \/ UNCHANGED Account!vars
    OBVIOUS
  <1>1. ASSUME UNCHANGED vars PROVE Account!Next
    BY <1>1, QuietSells DEF vars
  <1>2. ASSUME NEW seen, NEW ok, NEW usage, NEW balance,
               \/ ExpiryCheck(seen, ok)
               \/ AutoUnderfunded(seen, ok, usage, balance)
        PROVE  Account!Next
    BY <1>2, QuietSells DEF ExpiryCheck, AutoUnderfunded
  <1>3. CASE Round
    BY <1>1, <1>2, <1>3, AutoPaidSells, FirstPaymentSells DEF Round, DeletedRound
  <1>4. CASE Suspend \/ Resume \/ Poweroff \/ Freeze
    <2>1. UNCHANGED <<ledger, clawed, skewed, now>>
      BY <1>4 DEF Suspend, Resume, Poweroff, Freeze, Controlled
    <2>2. data'.keys = data.keys /\ data'.lm = data.lm
      BY <1>4 DEF Suspend, Resume, Poweroff, Freeze, IInv, BooksTypeOK, Data
    <2> QED BY <2>1, <2>2, QuietSells
  <1>5. CASE Core \/ Tick
    <2>1. UNCHANGED <<ledger, clawed, skewed>> /\ (now' = now \/ now' = now + 1)
      BY <1>5 DEF Core, TopUp, SetGroupStatus, SetAutoRenew, SetCanceled, Delete, Tick
    <2>2. data'.keys = data.keys /\ data'.lm = data.lm
      BY <1>5 DEF Core, TopUp, SetGroupStatus, SetAutoRenew, SetCanceled, Delete, Tick,
                  IInv, BooksTypeOK, Data
    <2> QED BY <2>1, <2>2, QuietSells
  <1> QED BY <1>1, <1>3, <1>4, <1>5, ManualRenewSells, FreeRenewSells, CancelRenewSells
          DEF Next, Invoke

\* The billing of prepaid items implements PrepaidAccount: one record for
\* every period last_monitoring moves, all items that are due billed in the
\* same round or none, and nothing billed before it is due but by
\* manual_renew; until cancel_renew, free_renew or a round of a held or
\* detached group (handleInstanceBilling) moves last_monitoring.
THEOREM Implements == Spec => SellsTime
  BY InitSells, NextSells, Invariance, PTL DEF Spec, SellsTime, Account!Spec

=============================================================================
