-------------------------- MODULE VMUpdate_proofs ---------------------------
(***************************************************************************)
(* For any group, options, upgrades, failures and crashes: addresses that  *)
(* no VM has do not pile up, and the books are right to the unit.          *)
(***************************************************************************)
EXTENDS VMUpdate, FiniteSetTheorems, SequenceTheorems, WellFoundedInduction, TLAPS

-----------------------------------------------------------------------------
(* Addresses.                                                               *)

\* FewSpare is inductive with what FreeARs ensures: where an address is about to
\* be reserved or given back, there is none to spare but for failed calls.
SpareInv ==
    /\ spare \in Nat /\ faults \in Nat
    /\ FewSpare
    /\ pc \in {"reserve", "detach"} => spare <= faults

\* The stages in which no address is reserved or given back.
Elsewhere == {"idle", "check", "read", "free", "attach", "private", "power", "wait",
              "resize", "drive", "renew"}

-----------------------------------------------------------------------------

\* Most steps leave the addresses alone; calls that fail only add to faults.
LEMMA Leaves ==
    ASSUME SpareInv, UNCHANGED spare, pc' \in Elsewhere \cup {pc},
           NEW n \in Nat, faults' = faults \/ faults' = faults + n
    PROVE  SpareInv'
  BY SMT DEF SpareInv, FewSpare, Elsewhere

\* `continue` leaves the addresses alone.
LEMMA ToNextInstance ==
    ASSUME NextInstance
    PROVE  pc' \in Elsewhere
  BY DEF NextInstance, Elsewhere

\* Calls fail at most once for each VM that is read.
LEMMA CheckSpare == ASSUME SpareInv, Check PROVE SpareInv'
  <1>1. PICK some \in SUBSET Differing :
           faults' = faults + Cardinality(Differing \ some)
    BY DEF Check, Fail
  <1>2. Cardinality(Differing \ some) \in Nat
    <2>1. IsFiniteSet(Instances) /\ Differing \ some \subseteq Instances
      BY UpdateAssumption DEF Differing
    <2> QED BY <2>1, FS_Subset, FS_CardinalityType
  <1>3. pc' \in Elsewhere /\ UNCHANGED spare
    BY DEF Check, Elsewhere, one
  <1> QED BY <1>1, <1>2, <1>3, Leaves

\* An address step begins with no spare address, or with one that a failing
\* FreeAR has left.
LEMMA FreeSpare == ASSUME SpareInv, FreeARs PROVE SpareInv'
  <1>1. CASE Fail(1) /\ NextInstance /\ UNCHANGED spare
    <2>1. faults' = faults + 1
      BY <1>1 DEF Fail
    <2> QED BY <1>1, <2>1, ToNextInstance, Leaves
  <1>2. CASE Fail(1) /\ UNCHANGED spare
    <2>1. faults' = faults + 1
      BY <1>2 DEF Fail
    <2> QED BY <1>2, <2>1, SMT DEF SpareInv, FewSpare
  <1>3. CASE Works /\ spare' = FreeUnused
    <2>1. faults' = faults
      BY <1>3 DEF Works, bounds
    <2> QED BY <1>3, <2>1, SMT DEF SpareInv, FewSpare, FreeUnused
  <1> QED BY <1>1, <1>2, <1>3 DEF FreeARs

LEMMA AddressSpare == ASSUME SpareInv, Reserve \/ Attach \/ Detach PROVE SpareInv'
  <1> USE DEF Go, Works, Fail, bounds
  <1>1. CASE Reserve
    <2>1. pc = "reserve" /\ pc' = "attach"
      BY <1>1 DEF Reserve
    <2>2. \/ spare' = spare + 1 /\ faults' = faults
          \/ spare' = spare /\ faults' = faults + 1
      BY <1>1 DEF Reserve
    <2> QED BY <2>1, <2>2, SMT DEF SpareInv, FewSpare
  <1>2. CASE Attach
    <2>1. pc' = "power"
      BY <1>2 DEF Attach
    <2>2. \/ spare > 0 /\ spare' = spare - 1 /\ faults' = faults
          \/ spare' = spare /\ faults' \in {faults, faults + 1}
      BY <1>2 DEF Attach, one
    <2> QED BY <2>1, <2>2, SMT DEF SpareInv, FewSpare
  <1>3. CASE Detach
    <2>1. pc = "detach" /\ pc' = "power"
      BY <1>3 DEF Detach
    <2>2. \/ spare' = spare + 1 /\ faults' = faults
          \/ spare' = spare /\ faults' \in {faults, faults + 1}
      BY <1>3 DEF Detach, one
    <2> QED BY <2>1, <2>2, SMT DEF SpareInv, FewSpare
  <1> QED BY <1>1, <1>2, <1>3

\* Everything else the loop over ToBeUpdated does.
LEMMA UpdateSpare == ASSUME SpareInv, Update PROVE SpareInv'
  <1> USE DEF Go, Works, Fail, bounds, one
  <1>1. CASE Read
    <2>1. pc' \in Elsewhere
      BY <1>1 DEF Read, NextInstance, Elsewhere
    <2>2. UNCHANGED spare /\ faults' \in {faults, faults + 1}
      BY <1>1 DEF Read
    <2> QED BY <2>1, <2>2, Leaves
  <1>2. CASE PrivateNIC
    <2>1. pc' \in Elsewhere
      BY <1>2 DEF PrivateNIC, Elsewhere
    <2>2. UNCHANGED spare /\ faults' \in {faults, faults + 1}
      BY <1>2 DEF PrivateNIC
    <2> QED BY <2>1, <2>2, Leaves
  <1>3. CASE Poweroff
    <2>1. pc' \in Elsewhere
      BY <1>3 DEF Poweroff, NextInstance, Elsewhere
    <2>2. UNCHANGED spare /\ faults' \in {faults, faults + 1}
      BY <1>3 DEF Poweroff
    <2> QED BY <2>1, <2>2, Leaves
  <1>4. CASE Wait
    BY <1>4, Leaves DEF Wait, Elsewhere
  <1>5. CASE Resize
    <2>1. pc' \in Elsewhere
      BY <1>5 DEF Resize, Elsewhere
    <2>2. UNCHANGED spare /\ faults' \in {faults, faults + 1}
      BY <1>5 DEF Resize
    <2> QED BY <2>1, <2>2, Leaves
  <1>6. CASE ResizeDrive
    <2>1. pc' \in Elsewhere
      BY <1>6 DEF ResizeDrive, NextInstance, Elsewhere
    <2>2. UNCHANGED spare /\ faults' \in {faults, faults + 1}
      BY <1>6 DEF ResizeDrive
    <2> QED BY <2>1, <2>2, Leaves
  <1>7. CASE Renew
    BY <1>7, Leaves DEF Renew, Elsewhere
  <1> QED BY <1>1, <1>2, <1>3, <1>4, <1>5, <1>6, <1>7, CheckSpare, FreeSpare,
             AddressSpare DEF Update

LEMMA OtherSpare ==
    ASSUME SpareInv,
           \/ Begin \/ SetWant \/ StartVM \/ PoweredOff \/ Tick \/ Crash
           \/ \E g \in Goroutines : Bill(g)
           \/ UNCHANGED vars
    PROVE  SpareInv'
  <1> USE DEF Fail, bounds, one, round
  <1>1. CASE Begin
    BY <1>1, Leaves DEF Begin, Elsewhere
  <1>2. CASE SetWant \/ StartVM \/ PoweredOff \/ Tick
    BY <1>2, Leaves DEF SetWant, StartVM, PoweredOff, Tick
  <1>3. CASE Crash
    BY <1>3, Leaves DEF Crash, Elsewhere
  <1>4. ASSUME NEW g \in Goroutines, Bill(g) PROVE SpareInv'
    <2>1. CASE ReadDiff(g)
      <3>1. PICK n \in {0, 1} : faults' = faults + n
        BY <2>1 DEF ReadDiff
      <3>2. UNCHANGED <<spare, pc>>
        BY <2>1 DEF ReadDiff
      <3> QED BY <3>1, <3>2, Leaves
    <2>2. CASE Price(g) \/ PublishRecords(g)
      BY <2>2, Leaves DEF Price, PublishRecords
    <2> QED BY <1>4, <2>1, <2>2 DEF Bill
  <1>5. CASE UNCHANGED vars
    BY <1>5, Leaves DEF vars
  <1> QED BY <1>1, <1>2, <1>3, <1>4, <1>5

\* However many instances, rounds, upgrades and downgrades there are: never
\* more than one address is reserved that no VM has, but for the failures.
THEOREM SparesBounded == Spec => []FewSpare
  <1>1. Init => SpareInv
    BY SMT DEF Init, SpareInv, FewSpare
  <1>2. SpareInv /\ [Next]_vars => SpareInv'
    BY UpdateSpare, OtherSpare DEF Next
  <1>3. SpareInv => FewSpare
    BY DEF SpareInv
  <1> QED BY <1>1, <1>2, <1>3, PTL DEF Spec

-----------------------------------------------------------------------------
(* Sums over finite sets.  MapThenSumSet is a recursive function on the     *)
(* subsets of the set; that there is one, and what it returns, is shown by  *)
(* induction on their sizes, which WFMin of the library gives for sets.     *)

\* A set of naturals has a least element.
LEMMA Least ==
    ASSUME NEW T \in SUBSET Nat, T # {}
    PROVE  \E x \in T : \A y \in T : x <= y
  <1> DEFINE R == OpToRel(<, Nat)
  <1>1. IsWellFoundedOn(R, Nat)
    BY NatLessThanWellFounded
  <1>2. \A x, y \in Nat : x < y => <<x, y>> \in R
    BY DEF OpToRel
  <1> HIDE DEF R
  <1>3. PICK x \in T : \A y \in T : <<y, x>> \notin R
    BY <1>1, WFMin
  <1>4. \A y \in T : x <= y
    <2> TAKE y \in T
    <2>1. x \in Nat /\ y \in Nat /\ ~(y < x)
      BY <1>2, <1>3
    <2> QED BY <2>1, SMT
  <1> QED BY <1>4

\* Induction, for a set S in the place of a predicate.
LEMMA Induct ==
    ASSUME NEW S, 0 \in S, \A n \in Nat : n \in S => n + 1 \in S
    PROVE  Nat \subseteq S
  <1> SUFFICES ASSUME Nat \ S # {} PROVE FALSE
    OBVIOUS
  <1>1. PICK x \in Nat \ S : \A y \in Nat \ S : x <= y
    <2> DEFINE T == Nat \ S
    <2>1. T \in SUBSET Nat /\ T # {}
      OBVIOUS
    <2> HIDE DEF T
    <2>2. \E x \in T : \A y \in T : x <= y
      BY <2>1, Least
    <2> QED BY <2>2 DEF T
  <1>2. x # 0 /\ x - 1 \in Nat /\ x - 1 \notin Nat \ S
    BY <1>1, SMT
  <1>3. x - 1 + 1 \in S
    BY <1>2
  <1> QED BY <1>1, <1>3, SMT

\* h takes each subset s of S to the sum of w over s.
SumUp(h, w, S) ==
    h = [s \in SUBSET S |->
           IF s = {} THEN 0
           ELSE w[CHOOSE x \in s : TRUE] + h[s \ {CHOOSE x \in s : TRUE}]]

\* The subset without the element that is added first is smaller.
LEMMA Smaller ==
    ASSUME NEW S, IsFiniteSet(S), NEW s \in SUBSET S, s # {}
    PROVE  LET x == CHOOSE x \in s : TRUE
           IN  /\ x \in s /\ s \ {x} \in SUBSET S
               /\ Cardinality(s) \in Nat
               /\ Cardinality(s \ {x}) = Cardinality(s) - 1
  <1>1. IsFiniteSet(s)
    BY FS_Subset
  <1> DEFINE x == CHOOSE y \in s : TRUE
  <1>2. x \in s
    OBVIOUS
  <1> HIDE DEF x
  <1>3. Cardinality(s) \in Nat /\ Cardinality(s \ {x}) = Cardinality(s) - 1
    BY <1>1, <1>2, FS_RemoveElement, FS_CardinalityType
  <1> QED BY <1>2, <1>3 DEF x

\* There is such a function: any function becomes right for one size more
\* by one more expansion of the equation.
LEMMA SumExists ==
    ASSUME NEW S, IsFiniteSet(S), NEW w
    PROVE  \E h : SumUp(h, w, S)
  <1> DEFINE c(s) == CHOOSE x \in s : TRUE
             next(h) == [s \in SUBSET S |-> IF s = {} THEN 0 ELSE w[c(s)] + h[s \ {c(s)}]]
             upto(n) == {s \in SUBSET S : Cardinality(s) <= n}
             N == {n \in Nat : \E h : \A s \in upto(n) : h[s] = next(h)[s]}
  <1>1. 0 \in N
    <2>1. \A s \in upto(0) : s = {}
      <3> TAKE s \in upto(0)
      <3>1. IsFiniteSet(s) /\ Cardinality(s) \in Nat
        BY FS_Subset, FS_CardinalityType
      <3> QED BY <3>1, FS_EmptySet, SMT
    <2> DEFINE h == [s \in SUBSET S |-> 0]
    <2>2. \A s \in upto(0) : h[s] = next(h)[s]
      BY <2>1
    <2> QED BY <2>2
  <1>2. ASSUME NEW n \in Nat, n \in N PROVE n + 1 \in N
    <2>1. PICK h : \A s \in upto(n) : h[s] = next(h)[s]
      BY <1>2
    <2> DEFINE k == next(h)
    <2>2. \A s \in upto(n) : k[s] = h[s]
      BY <2>1
    <2>3. ASSUME NEW s \in upto(n + 1) PROVE k[s] = next(k)[s]
      <3>1. CASE s = {}
        BY <3>1
      <3>2. CASE s # {}
        <4>1. s \ {c(s)} \in upto(n)
          BY <3>2, <2>3, Smaller
        <4>2. k[s \ {c(s)}] = h[s \ {c(s)}]
          BY <4>1, <2>2
        <4> QED BY <3>2, <4>2
      <3> QED BY <3>1, <3>2
    <2> HIDE DEF k, next, upto
    <2>4. \E g : \A s \in upto(n + 1) : g[s] = next(g)[s]
      BY <2>3
    <2> QED BY <2>4
  <1>3. Cardinality(S) \in N
    <2> HIDE DEF N
    <2>1. Nat \subseteq N
      BY <1>1, <1>2, Induct
    <2> QED BY <2>1, FS_CardinalityType
  <1>4. PICK h : \A s \in upto(Cardinality(S)) : h[s] = next(h)[s]
    BY <1>3
  <1>5. upto(Cardinality(S)) = SUBSET S
    BY FS_Subset
  <1>6. \A s \in SUBSET S : h[s] = next(h)[s]
    BY <1>4, <1>5
  <1> DEFINE k == [s \in SUBSET S |-> h[s]]
  <1>7. k = next(k)
    <2>1. \A s \in SUBSET S : s # {} => s \ {c(s)} \in SUBSET S
      OBVIOUS
    <2>2. \A s \in SUBSET S : k[s] = next(k)[s]
      BY <1>6, <2>1
    <2> QED BY <2>2
  <1> QED BY <1>7 DEF SumUp

SumOf(w, S) == (CHOOSE h : SumUp(h, w, S))[S]

\* Where w has its values the sum has its own, if they are closed under +.
LEMMA SumIn ==
    ASSUME NEW S, IsFiniteSet(S), NEW T \in SUBSET Int, 0 \in T,
           \A a, b \in T : a + b \in T, NEW w \in [S -> T]
    PROVE  SumOf(w, S) \in T
  <1> DEFINE h == CHOOSE f : SumUp(f, w, S)
             c(s) == CHOOSE x \in s : TRUE
             N == {n \in Nat : \A s \in SUBSET S : Cardinality(s) <= n => h[s] \in T}
  <1>1. SumUp(h, w, S)
    BY SumExists
  <1> HIDE DEF h
  <1>2. \A s \in SUBSET S : h[s] = IF s = {} THEN 0 ELSE w[c(s)] + h[s \ {c(s)}]
    BY <1>1 DEF SumUp
  <1>3. 0 \in N
    <2> SUFFICES ASSUME NEW s \in SUBSET S, Cardinality(s) <= 0 PROVE h[s] \in T
      OBVIOUS
    <2>1. IsFiniteSet(s) /\ Cardinality(s) \in Nat
      BY FS_Subset, FS_CardinalityType
    <2>2. s = {}
      BY <2>1, FS_EmptySet, SMT
    <2>3. h[s] = 0
      BY <1>2, <2>2, Zenon
    <2> QED BY <2>3
  <1>4. ASSUME NEW n \in Nat, n \in N PROVE n + 1 \in N
    <2> SUFFICES ASSUME NEW s \in SUBSET S, Cardinality(s) <= n + 1 PROVE h[s] \in T
      OBVIOUS
    <2>1. CASE s = {}
      BY <1>2, <2>1, Zenon
    <2>2. CASE s # {}
      <3>1. c(s) \in S /\ s \ {c(s)} \in SUBSET S /\ Cardinality(s \ {c(s)}) <= n
        BY <2>2, Smaller
      <3>2. h[s \ {c(s)}] \in T /\ w[c(s)] \in T
        BY <1>4, <3>1
      <3>3. h[s] = w[c(s)] + h[s \ {c(s)}]
        BY <1>2, <2>2, Zenon
      <3> HIDE DEF c
      <3> QED BY <3>2, <3>3
    <2> QED BY <2>1, <2>2
  <1> HIDE DEF N
  <1>5. Cardinality(S) \in N
    BY <1>3, <1>4, Induct, FS_CardinalityType
  <1>6. Cardinality(S) <= Cardinality(S)
    BY FS_CardinalityType
  <1> QED BY <1>5, <1>6 DEF N, SumOf, h

\* The sum of integers is one, and that of zeros is zero.
LEMMA SumInt ==
    ASSUME NEW S, IsFiniteSet(S), NEW w \in [S -> Int]
    PROVE  SumOf(w, S) \in Int
  <1>1. Int \in SUBSET Int /\ 0 \in Int /\ \A a, b \in Int : a + b \in Int
    OBVIOUS
  <1> QED BY <1>1, SumIn, Zenon

LEMMA SumZeros ==
    ASSUME NEW S, IsFiniteSet(S), NEW w \in [S -> {0}]
    PROVE  SumOf(w, S) = 0
  <1>1. {0} \in SUBSET Int /\ \A a, b \in {0} : a + b \in {0}
    OBVIOUS
  <1> QED BY <1>1, SumIn, Zenon

LEMMA SumSingle ==
    ASSUME NEW x, NEW w, w[x] \in Int
    PROVE  SumOf(w, {x}) = w[x]
  <1> DEFINE h == CHOOSE f : SumUp(f, w, {x})
  <1>1. SumUp(h, w, {x})
    BY SumExists, FS_Singleton
  <1> HIDE DEF h
  <1>2. h[{}] = 0
    BY <1>1 DEF SumUp
  <1>3. h[{x}] = w[CHOOSE y \in {x} : TRUE] + h[{x} \ {CHOOSE y \in {x} : TRUE}]
    BY <1>1 DEF SumUp
  <1>4. (CHOOSE y \in {x} : TRUE) = x /\ {x} \ {x} = {}
    OBVIOUS
  <1>5. h[{x}] = w[x] + 0
    BY <1>2, <1>3, <1>4
  <1> QED BY <1>5 DEF SumOf, h

\* If one value changes the sum changes by as much.
LEMMA SumChange ==
    ASSUME NEW S, IsFiniteSet(S), NEW w \in [S -> Int], NEW v \in [S -> Int],
           NEW x \in S, \A y \in S \ {x} : v[y] = w[y]
    PROVE  SumOf(v, S) = SumOf(w, S) + (v[x] - w[x])
  <1> DEFINE h == CHOOSE f : SumUp(f, w, S)
             j == CHOOSE f : SumUp(f, v, S)
             c(s) == CHOOSE y \in s : TRUE
             more(s) == IF x \in s THEN v[x] - w[x] ELSE 0
             Right(s) == h[s] \in Int /\ j[s] = h[s] + more(s)
             N == {n \in Nat : \A s \in SUBSET S : Cardinality(s) <= n => Right(s)}
  <1>1. SumUp(h, w, S) /\ SumUp(j, v, S)
    BY SumExists
  <1> HIDE DEF h, j
  <1>2. \A s \in SUBSET S : /\ h[s] = IF s = {} THEN 0 ELSE w[c(s)] + h[s \ {c(s)}]
                            /\ j[s] = IF s = {} THEN 0 ELSE v[c(s)] + j[s \ {c(s)}]
    BY <1>1 DEF SumUp
  <1>3. Right({})
    <2>1. h[{}] = 0 /\ j[{}] = 0
      BY <1>2, Zenon
    <2> QED BY <2>1
  <1>4. 0 \in N
    <2> SUFFICES ASSUME NEW s \in SUBSET S, Cardinality(s) <= 0 PROVE Right(s)
      OBVIOUS
    <2>1. IsFiniteSet(s) /\ Cardinality(s) \in Nat
      BY FS_Subset, FS_CardinalityType
    <2>2. s = {}
      BY <2>1, FS_EmptySet, SMT
    <2> HIDE DEF Right
    <2> QED BY <1>3, <2>2, Zenon
  <1>5. ASSUME NEW n \in Nat, n \in N PROVE n + 1 \in N
    <2> SUFFICES ASSUME NEW s \in SUBSET S, Cardinality(s) <= n + 1, s # {} PROVE Right(s)
      <3> HIDE DEF Right
      <3> QED BY <1>3
    <2>1. /\ c(s) \in s /\ c(s) \in S /\ s \ {c(s)} \in SUBSET S
          /\ Cardinality(s \ {c(s)}) <= n
      BY Smaller
    <2>2. Right(s \ {c(s)})
      <3> HIDE DEF Right
      <3> QED BY <1>5, <2>1
    <2>3. h[s] = w[c(s)] + h[s \ {c(s)}] /\ j[s] = v[c(s)] + j[s \ {c(s)}]
      BY <1>2, Zenon
    <2>4. w[c(s)] \in Int /\ v[c(s)] \in Int /\ w[x] \in Int /\ v[x] \in Int
      BY <2>1
    <2>5. CASE c(s) = x
      <3>1. more(s) = v[x] - w[x] /\ more(s \ {c(s)}) = 0
        BY <2>1, <2>5
      <3> HIDE DEF c, more
      <3> QED BY <2>2, <2>3, <2>4, <2>5, <3>1, SMT
    <2>6. CASE c(s) # x
      <3>1. more(s) = more(s \ {c(s)}) /\ more(s) \in Int
        BY <2>4, <2>6
      <3>2. v[c(s)] = w[c(s)]
        BY <2>1, <2>6
      <3> HIDE DEF c, more
      <3> QED BY <2>2, <2>3, <2>4, <3>1, <3>2, SMT
    <2> QED BY <2>5, <2>6
  <1> HIDE DEF N
  <1>6. Cardinality(S) \in N
    BY <1>4, <1>5, Induct, FS_CardinalityType
  <1>7. Cardinality(S) <= Cardinality(S)
    BY FS_CardinalityType
  <1>8. Right(S)
    <2> HIDE DEF Right
    <2> QED BY <1>6, <1>7 DEF N
  <1> QED BY <1>8 DEF SumOf, h, j

\* The sum in PublishRecords, of the units of records in period k.
UnitsOf(R, k) == MapThenSumSet(LAMBDA rec : Units(rec, k), R)

LEMMA UnitsSum ==
    ASSUME NEW R, IsFiniteSet(R), NEW k, \A rec \in R : Units(rec, k) \in Int
    PROVE  /\ UnitsOf(R, k) \in Int
           /\ R = {} => UnitsOf(R, k) = 0
           /\ \A rec : R = {rec} => UnitsOf(R, k) = Units(rec, k)
  <1> DEFINE u(rec) == Units(rec, k)
             w == [rec \in R |-> u(rec)]
             eq(h) == h = [s \in SUBSET R |->
                 IF s = {} THEN 0
                 ELSE u(CHOOSE x \in s : TRUE) + h[s \ {CHOOSE x \in s : TRUE}]]
  <1>1. \A h : SumUp(h, w, R) <=> eq(h)
    <2>1. \A s \in SUBSET R : s # {} => w[CHOOSE x \in s : TRUE] = u(CHOOSE x \in s : TRUE)
      OBVIOUS
    <2> HIDE DEF w, u
    <2> QED BY <2>1 DEF SumUp
  <1>2. UnitsOf(R, k) = (CHOOSE h : eq(h))[R]
    BY DEF UnitsOf, MapThenSumSet, MapThenFoldSet
  <1>3. w \in [R -> Int]
    OBVIOUS
  <1>4. \A rec \in R : w[rec] = Units(rec, k)
    OBVIOUS
  <1> HIDE DEF w, eq
  <1>5. (CHOOSE h : eq(h)) = CHOOSE h : SumUp(h, w, R)
    BY <1>1
  <1>6. UnitsOf(R, k) = SumOf(w, R)
    BY <1>2, <1>5 DEF SumOf
  <1>7. UnitsOf(R, k) \in Int
    BY <1>3, <1>6, SumInt
  <1>8. R = {} => UnitsOf(R, k) = 0
    <2> SUFFICES ASSUME R = {} PROVE SumOf(w, {}) = 0
      BY <1>6
    <2>1. w \in [{} -> {0}] /\ IsFiniteSet({})
      BY <1>3, FS_EmptySet
    <2> QED BY <2>1, SumZeros
  <1>9. ASSUME NEW rec, R = {rec} PROVE UnitsOf(R, k) = Units(rec, k)
    <2>1. w[rec] \in Int /\ w[rec] = Units(rec, k)
      BY <1>4, <1>9
    <2>2. SumOf(w, {rec}) = w[rec]
      BY <2>1, SumSingle
    <2> QED BY <1>6, <1>9, <2>1, <2>2
  <1> QED BY <1>7, <1>8, <1>9

-----------------------------------------------------------------------------
(* The inductive invariant, of five parts.                                  *)

\* OpenNebula, the core, the goroutines and the history have their types, and
\* nothing is paid beyond the present;
OneTyped ==
    /\ vm \in [Instances -> Resources] /\ \A i \in Instances : vm[i].ips > 0
    /\ power \in [Instances -> {"running", "stopping", "off"}] /\ spare \in Nat

CoreTyped ==
    /\ want \in [Instances -> Resources]
    /\ lm \in [Instances -> 0 .. MaxTime] /\ now \in Periods /\ ban \in {"unset", "off", "on"}
    /\ \A i \in Instances : lm[i] <= now

Jobs == [todo : Seq(Instances), want : [Instances -> Resources],
         lm : [Instances -> 0 .. MaxTime], at : 0 .. MaxTime, diff : [Billed -> Int],
         read : BOOLEAN, records : SUBSET Records]

GorTyped ==
    /\ gor \in [Goroutines -> Jobs]
    /\ \A g \in Goroutines :
          IsFiniteSet(gor[g].records) /\ (gor[g].read => gor[g].at \in Periods)

LedgerTyped ==
    /\ due \in [Instances -> SUBSET Billed] /\ faults \in Nat
    /\ charged \in [Instances -> [Billed -> [Periods -> Int]]]
    /\ past \in [Instances -> [Billed -> [Periods -> Nat]]]

\* the loop knows the VM it changes as far as it has not changed it;
Between == {"idle", "check", "renew"}
Address == {"free", "reserve", "attach", "detach", "private"}
Busy    == Address \cup {"power", "wait", "resize", "drive"}

SeenInv ==
    /\ seen \in [vm : Resources, power : {"running", "stopping", "off"}]
    /\ pc \in Address => vm[Head(todo)] = seen.vm
    /\ vm[Head(todo)].drive = seen.vm.drive
    /\ pc \in {"reserve", "attach"} => seen.vm.ips < req[Head(todo)].ips
    /\ pc = "detach" => seen.vm.ips > req[Head(todo)].ips
    /\ pc = "private" => seen.vm.private # req[Head(todo)].private

RoundInv ==
    /\ pc \in Between \cup {"read"} \cup Busy
    /\ todo \in Seq(Instances) /\ mine \in Goroutines \cup {None}
    /\ pc \in {"idle", "check"} => mine = None
    /\ pc # "idle" => req \in [Instances -> Resources]
    /\ todo = << >> <=> pc \in Between
    /\ pc \in Busy => SeenInv

CoreInv == OneTyped /\ CoreTyped /\ GorTyped /\ LedgerTyped /\ RoundInv

\* A goroutine has each instance once, to be billed or billed, and a difference
\* only when it has read one;
Proper(j) ==
    /\ \A m, n \in DOMAIN j.todo : j.todo[m] = j.todo[n] => m = n
    /\ \A n \in DOMAIN j.todo, rec \in j.records : rec.inst # j.todo[n]
    /\ ~j.read => j.diff = Zero
    /\ j.todo = << >> => ~j.read

\* that of the round has its data;
MineInv ==
    mine # None /\ gor[mine].todo # << >> => gor[mine].want = req /\ gor[mine].lm = lm

\* and what is due was read in this round.
DueInv ==
    \A i \in Instances \ excused : due[i] # {} =>
        /\ mine # None
        /\ \A n \in DOMAIN gor[mine].todo : gor[mine].todo[n] = i => n = 1 /\ gor[mine].read

JobInv == (\A g \in Goroutines : Proper(gor[g])) /\ MineInv /\ DueInv

-----------------------------------------------------------------------------
(* Types.                                                                   *)

LEMMA TypesGiveTypeOK == ASSUME CoreInv PROVE TypeOK
  <1>1. \A g \in Goroutines : gor[g].todo \in Seq(Instances) /\ gor[g].records \subseteq Records
    BY DEF CoreInv, GorTyped, Jobs
  <1>2. \A i \in Instances, res \in Billed :
           charged[i][res] \in [Periods -> Int] /\ past[i][res] \in [Periods -> Nat]
    BY DEF CoreInv, LedgerTyped
  <1>3. pc \in {"idle", "check", "read", "free", "reserve", "attach", "detach", "private",
                "power", "wait", "resize", "drive", "renew"}
    BY DEF CoreInv, RoundInv, Between, Busy, Address
  <1> QED BY <1>1, <1>2, <1>3 DEF TypeOK, CoreInv, OneTyped, CoreTyped, LedgerTyped, RoundInv

\* What the parts say depends on these variables only.
LEMMA OneFrame == ASSUME OneTyped, UNCHANGED one PROVE OneTyped'
  BY DEF OneTyped, one
LEMMA CoreFrame == ASSUME CoreTyped, UNCHANGED core PROVE CoreTyped'
  BY DEF CoreTyped, core
LEMMA GorFrame == ASSUME GorTyped, UNCHANGED gor PROVE GorTyped'
  BY DEF GorTyped
LEMMA LedgerFrame ==
    ASSUME LedgerTyped, UNCHANGED ledger, faults' \in Nat PROVE LedgerTyped'
  BY DEF LedgerTyped, ledger
LEMMA RoundFrame == ASSUME RoundInv, UNCHANGED <<round, vm>> PROVE RoundInv'
  BY DEF RoundInv, round, SeenInv

\* Failures are counted in naturals.
LEMMA FaultsNat ==
    ASSUME faults \in Nat, NEW n \in Nat, Fail(n) \/ Works PROVE faults' \in Nat
  <1>1. faults' = faults + n \/ faults' = faults
    BY DEF Fail, Works, bounds
  <1> QED BY <1>1, SMT

LEMMA NoWorkTyped ==
    ASSUME CoreTyped
    PROVE  /\ NoWork \in Jobs /\ NoWork.records = {} /\ NoWork.todo = << >>
           /\ ~NoWork.read /\ NoWork.diff = Zero /\ NoWork.want = want /\ NoWork.lm = lm
  <1>1. MaxTime \in Nat /\ 0 \in 0 .. MaxTime
    BY UpdateAssumption, SMT
  <1>2. Zero \in [Billed -> Int]
    BY DEF Zero
  <1>3. << >> \in Seq(Instances)
    BY EmptySeq
  <1>4. /\ NoWork.records = {} /\ NoWork.todo = << >>
        /\ ~NoWork.read /\ NoWork.diff = Zero /\ NoWork.want = want /\ NoWork.lm = lm
    BY DEF NoWork
  <1>5. NoWork \in Jobs
    BY <1>1, <1>2, <1>3 DEF NoWork, Jobs, CoreTyped
  <1> QED BY <1>4, <1>5

\* A goroutine starts with the instances to be updated and its request's data.
Started(t, w, l) == [NoWork EXCEPT !.todo = t, !.want = w, !.lm = l]

LEMMA StartedTyped ==
    ASSUME CoreTyped, NEW t \in Seq(Instances), NEW w \in [Instances -> Resources],
           NEW l \in [Instances -> 0 .. MaxTime]
    PROVE  LET j == Started(t, w, l)
           IN  /\ j \in Jobs /\ j.todo = t /\ j.want = w /\ j.lm = l /\ j.at = 0
               /\ j.records = {} /\ j.diff = Zero /\ ~j.read
  <1> DEFINE j == Started(t, w, l)
  <1>1. NoWork \in Jobs /\ NoWork.records = {} /\ ~NoWork.read /\ NoWork.diff = Zero
    BY NoWorkTyped
  <1>2. NoWork.at = 0
    BY DEF NoWork
  <1>3. j \in Jobs
    BY <1>1 DEF Started, Jobs
  <1>4. j.todo = t /\ j.want = w /\ j.lm = l
    BY <1>1 DEF Started, Jobs
  <1>5. j.records = NoWork.records /\ j.at = NoWork.at /\ j.diff = NoWork.diff
    BY <1>1 DEF Started, Jobs
  <1>6. j.read = NoWork.read
    BY <1>1 DEF Started, Jobs
  <1> QED BY <1>1, <1>2, <1>3, <1>4, <1>5, <1>6

\* `continue`: the next instance has not been read yet.
LEMMA NextRound ==
    ASSUME RoundInv, pc \notin Between, NextInstance PROVE RoundInv'
  <1>1. todo \in Seq(Instances) /\ todo # << >> /\ todo' = Tail(todo)
    BY DEF RoundInv, NextInstance
  <1>2. todo' \in Seq(Instances) /\ Len(todo') = Len(todo) - 1 /\ Len(todo) \in Nat
    BY <1>1, HeadTailProperties, LenProperties
  <1>3. todo' = << >> <=> ~(Len(todo) > 1)
    <2>1. todo' = << >> <=> Len(todo') = 0
      BY <1>2, EmptySeq
    <2>2. Len(todo) # 0
      BY <1>1, EmptySeq
    <2> QED BY <1>2, <2>1, <2>2, SMT
  <1>4. pc' = IF Len(todo) > 1 THEN "read" ELSE "renew"
    BY DEF NextInstance
  <1>5. pc' \in {"read", "renew"} /\ (pc' \in Between <=> todo' = << >>)
    BY <1>3, <1>4 DEF Between
  <1>6. UNCHANGED <<req, mine>>
    BY DEF NextInstance
  <1>7. /\ pc' \notin Busy /\ pc' # "idle" /\ pc' # "check" /\ pc # "idle"
        /\ pc' \in Between \cup {"read"}
    BY <1>5 DEF Busy, Address, Between
  <1> QED BY <1>2, <1>5, <1>6, <1>7 DEF RoundInv, Between

\* An address, a drive or a private network more or less keeps the types.
LEMMA ChangedTyped ==
    ASSUME OneTyped, LedgerTyped, Head(todo) \in Instances, UNCHANGED power, spare' \in Nat,
           faults' \in Nat, NEW res \in {"ips", "private", "drive"}, NEW n \in Int,
           Changed(res, n),
           vm[Head(todo)][res] + n \in Nat, res = "ips" => vm[Head(todo)][res] + n > 0
    PROVE  OneTyped' /\ LedgerTyped'
  <1> DEFINE i == Head(todo)
  <1>1. vm' = [vm EXCEPT ![i][res] = @ + n]
    BY DEF Changed, Inst
  <1>2. vm \in [Instances -> Resources] /\ i \in Instances
    BY DEF OneTyped
  <1> HIDE DEF i
  <1>3. vm' \in [Instances -> Resources] /\ \A j \in Instances : vm'[j].ips > 0
    <2>1. \A j \in Instances : vm[j].ips > 0
      BY DEF OneTyped
    <2>2. \A j \in Instances \ {i} : vm'[j] = vm[j]
      BY <1>1, <1>2
    <2>3. vm'[i] = [vm[i] EXCEPT ![res] = vm[i][res] + n]
      BY <1>1, <1>2
    <2>4. vm'[i] \in Resources /\ vm'[i].ips > 0
      <3>1. vm[i] \in Resources /\ vm[i].ips > 0
        BY <1>2, <2>1
      <3>2. CASE res = "ips"
        BY <3>1, <3>2, <2>3, SMT DEF Resources, i
      <3>3. CASE res = "private"
        BY <3>1, <3>3, <2>3, SMT DEF Resources, i
      <3>4. CASE res = "drive"
        BY <3>1, <3>4, <2>3, SMT DEF Resources, i
      <3> QED BY <3>2, <3>3, <3>4
    <2>5. \A j \in Instances : vm'[j] \in Resources /\ vm'[j].ips > 0
      BY <1>2, <2>1, <2>2, <2>4
    <2>6. vm' \in [Instances -> Resources]
      BY <1>1, <1>2, <2>5
    <2> QED BY <2>5, <2>6
  <1>4. OneTyped'
    BY <1>3 DEF OneTyped
  <1>5. due' \in [Instances -> SUBSET Billed] /\ UNCHANGED <<charged, past>>
    BY DEF Changed, LedgerTyped
  <1> QED BY <1>4, <1>5 DEF LedgerTyped

\* While the loop runs there is an instance, whose VM and resources are known.
LEMMA InstFacts ==
    ASSUME CoreInv, pc \notin Between
    PROVE  /\ todo # << >> /\ todo \in Seq(Instances) /\ Head(todo) \in Instances
           /\ vm[Head(todo)] \in Resources /\ vm[Head(todo)].ips > 0
           /\ req[Head(todo)] \in Resources /\ faults \in Nat
           /\ pc \in Busy => SeenInv /\ seen.vm \in Resources
  <1>1. todo # << >> /\ todo \in Seq(Instances)
    BY DEF CoreInv, RoundInv
  <1>2. Head(todo) \in Instances
    BY <1>1, HeadTailProperties
  <1>3. req \in [Instances -> Resources]
    BY DEF CoreInv, RoundInv, Between
  <1> QED BY <1>1, <1>2, <1>3 DEF CoreInv, OneTyped, LedgerTyped, RoundInv, SeenInv

\* The loop goes on with the same instance.
LEMMA GoRound ==
    ASSUME CoreInv, pc \in Busy, NEW step \in Busy, Go(step), SeenInv' PROVE RoundInv'
  <1>1. todo # << >> /\ pc # "idle"
    BY DEF CoreInv, RoundInv, Busy, Address, Between
  <1>2. pc' = step /\ UNCHANGED <<req, todo, seen, mine>>
    BY DEF Go
  <1>3. step \notin Between
    BY DEF Busy, Address, Between
  <1> QED BY <1>1, <1>2, <1>3 DEF CoreInv, RoundInv, Between

\* What was read of a VM is still so if the loop comes to a later stage and has
\* changed at most what that does not look at.
LEMMA SeenLater ==
    ASSUME SeenInv, UNCHANGED <<seen, todo, req>>, pc' \notin Address,
           vm'[Head(todo)].drive = vm[Head(todo)].drive
    PROVE  SeenInv'
  BY DEF SeenInv, Address

LEMMA ReadCore == ASSUME CoreInv, Read PROVE CoreInv'
  <1>1. pc = "read" /\ UNCHANGED <<one, core, gor, ledger>>
    BY DEF Read
  <1>2. pc \notin Between /\ pc # "idle" /\ pc # "check"
    BY <1>1 DEF Between
  <1>3. faults' \in Nat
    BY InstFacts, <1>2, FaultsNat DEF Read
  <1>4. RoundInv'
    <2>1. CASE NextInstance
      BY <1>2, <2>1, NextRound DEF CoreInv
    <2>2. CASE /\ pc' = "free" /\ UNCHANGED <<req, todo, mine>>
               /\ seen' = [vm |-> vm[Inst], power |-> power[Inst]]
      <3>1. Head(todo) \in Instances /\ todo # << >>
        BY <1>2, InstFacts
      <3>2. SeenInv'
        BY <1>1, <2>2, <3>1 DEF SeenInv, Inst, CoreInv, OneTyped, one
      <3> QED BY <1>2, <2>2, <3>1, <3>2 DEF CoreInv, RoundInv, Between, Busy, Address
    <2> QED BY <2>1, <2>2 DEF Read
  <1> QED BY <1>1, <1>3, <1>4, OneFrame, CoreFrame, GorFrame, LedgerFrame DEF CoreInv

LEMMA FreeCore == ASSUME CoreInv, FreeARs PROVE CoreInv'
  <1>1. pc = "free" /\ UNCHANGED <<vm, power, core, gor, ledger>>
    BY DEF FreeARs
  <1>2. pc \notin Between /\ pc \in Busy
    BY <1>1 DEF Between, Busy, Address
  <1>3. faults' \in Nat
    BY InstFacts, <1>2, FaultsNat DEF FreeARs
  <1>4. OneTyped'
    BY <1>1 DEF FreeARs, FreeUnused, CoreInv, OneTyped
  <1>5. RoundInv'
    <2>1. CASE NextInstance
      BY <1>2, <2>1, NextRound DEF CoreInv
    <2>2. CASE Go(AddressStep)
      <3>1. SeenInv /\ req[Head(todo)] \in Resources /\ seen.vm \in Resources
        BY <1>2, InstFacts
      <3>2. UNCHANGED <<vm, seen, todo, req>> /\ pc' = AddressStep
        BY <1>1, <2>2 DEF Go
      <3>3. /\ AddressStep \in {"reserve", "detach", "private", "power"}
            /\ AddressStep = "reserve" => seen.vm.ips < req[Head(todo)].ips
            /\ AddressStep = "detach" => seen.vm.ips > req[Head(todo)].ips
            /\ AddressStep = "private" => seen.vm.private # req[Head(todo)].private
        BY DEF AddressStep, Wanted, Inst
      <3>4. SeenInv'
        BY <1>1, <3>1, <3>2, <3>3 DEF SeenInv, Address
      <3>5. AddressStep \in Busy
        BY <3>3 DEF Busy, Address
      <3> QED BY <1>2, <2>2, <3>4, <3>5, GoRound
    <2> QED BY <2>1, <2>2 DEF FreeARs
  <1> QED BY <1>1, <1>3, <1>4, <1>5, CoreFrame, GorFrame, LedgerFrame DEF CoreInv

LEMMA ReserveCore == ASSUME CoreInv, Reserve PROVE CoreInv'
  <1>1. pc = "reserve" /\ Go("attach") /\ UNCHANGED <<vm, power, core, gor, ledger>>
    BY DEF Reserve
  <1>2. pc \notin Between /\ pc \in Busy
    BY <1>1 DEF Between, Busy, Address
  <1>3. faults' \in Nat
    BY InstFacts, <1>2, FaultsNat DEF Reserve
  <1>4. OneTyped'
    BY <1>1, SMT DEF Reserve, CoreInv, OneTyped
  <1>5. SeenInv'
    <2>1. SeenInv /\ UNCHANGED <<vm, seen, todo, req>> /\ pc' = "attach"
      BY <1>1, <1>2, InstFacts DEF Go
    <2> QED BY <1>1, <2>1 DEF SeenInv, Address
  <1>6. RoundInv'
    BY <1>1, <1>2, <1>5, GoRound, "attach" \in Busy DEF Busy, Address
  <1> QED BY <1>1, <1>3, <1>4, <1>6, CoreFrame, GorFrame, LedgerFrame DEF CoreInv

LEMMA AttachCore == ASSUME CoreInv, Attach PROVE CoreInv'
  <1>1. pc = "attach" /\ Go("power") /\ UNCHANGED <<core, gor>>
    BY DEF Attach
  <1>2. pc \notin Between /\ pc \in Busy
    BY <1>1 DEF Between, Busy, Address
  <1>3. faults' \in Nat
    BY InstFacts, <1>2, FaultsNat DEF Attach
  <1>4. OneTyped' /\ LedgerTyped' /\ vm'[Head(todo)].drive = vm[Head(todo)].drive
    <2>1. CASE spare > 0 /\ spare' = spare - 1 /\ Changed("ips", 1)
      <3>1. spare' \in Nat
        BY <2>1, SMT DEF CoreInv, OneTyped
      <3>2. vm[Head(todo)].ips + 1 \in Nat /\ vm[Head(todo)].ips + 1 > 0 /\ Head(todo) \in Instances
        <4>1. vm[Head(todo)] \in Resources /\ Head(todo) \in Instances
          BY <1>2, InstFacts
        <4>2. vm[Head(todo)].ips \in Nat
          BY <4>1 DEF Resources
        <4> QED BY <4>1, <4>2, SMT
      <3>3. UNCHANGED power /\ vm' = [vm EXCEPT ![Head(todo)]["ips"] = @ + 1]
        BY <2>1 DEF Changed, Inst
      <3>4. OneTyped' /\ LedgerTyped'
        BY <1>3, <2>1, <3>1, <3>2, <3>3, ChangedTyped DEF CoreInv
      <3>5. vm'[Head(todo)].drive = vm[Head(todo)].drive
        BY <3>2, <3>3 DEF CoreInv, OneTyped, Resources
      <3> QED BY <3>4, <3>5
    <2>2. CASE UNCHANGED <<one, ledger>>
      BY <1>3, <2>2, OneFrame, LedgerFrame DEF CoreInv, one
    <2> QED BY <2>1, <2>2 DEF Attach
  <1>5. SeenInv'
    BY <1>1, <1>2, <1>4, InstFacts, SeenLater DEF Go, Address
  <1>6. RoundInv'
    BY <1>1, <1>2, <1>5, GoRound, "power" \in Busy DEF Busy, Address
  <1> QED BY <1>1, <1>4, <1>6, CoreFrame, GorFrame DEF CoreInv

LEMMA DetachCore == ASSUME CoreInv, Detach PROVE CoreInv'
  <1>1. pc = "detach" /\ Go("power") /\ UNCHANGED <<core, gor>>
    BY DEF Detach
  <1>2. pc \notin Between /\ pc \in Busy /\ pc \in Address
    BY <1>1 DEF Between, Busy, Address
  <1>3. faults' \in Nat
    BY InstFacts, <1>2, FaultsNat DEF Detach
  <1>4. OneTyped' /\ LedgerTyped' /\ vm'[Head(todo)].drive = vm[Head(todo)].drive
    <2>1. CASE Detachable /\ spare' = spare + 1 /\ Changed("ips", -1)
      <3>1. spare' \in Nat
        BY <2>1, SMT DEF CoreInv, OneTyped
      <3>2. /\ vm[Head(todo)].ips + -1 \in Nat /\ vm[Head(todo)].ips + -1 > 0
            /\ Head(todo) \in Instances
        <4>1. vm[Head(todo)] = seen.vm /\ vm[Head(todo)] \in Resources /\ Head(todo) \in Instances
          BY <1>2, InstFacts DEF SeenInv
        <4> QED BY <2>1, <4>1, SMT DEF Resources, Detachable
      <3>3. UNCHANGED power /\ vm' = [vm EXCEPT ![Head(todo)]["ips"] = @ + -1]
        BY <2>1 DEF Changed, Inst
      <3>4. OneTyped' /\ LedgerTyped'
        BY <1>3, <2>1, <3>1, <3>2, <3>3, ChangedTyped, -1 \in Int DEF CoreInv
      <3>5. vm'[Head(todo)].drive = vm[Head(todo)].drive
        BY <3>2, <3>3 DEF CoreInv, OneTyped, Resources
      <3> QED BY <3>4, <3>5
    <2>2. CASE UNCHANGED <<one, ledger>>
      BY <1>3, <2>2, OneFrame, LedgerFrame DEF CoreInv, one
    <2> QED BY <2>1, <2>2 DEF Detach
  <1>5. SeenInv'
    BY <1>1, <1>2, <1>4, InstFacts, SeenLater DEF Go, Address
  <1>6. RoundInv'
    BY <1>1, <1>2, <1>5, GoRound, "power" \in Busy DEF Busy, Address
  <1> QED BY <1>1, <1>4, <1>6, CoreFrame, GorFrame DEF CoreInv

LEMMA PrivateCore == ASSUME CoreInv, PrivateNIC PROVE CoreInv'
  <1>1. pc = "private" /\ UNCHANGED <<core, gor>>
    BY DEF PrivateNIC
  <1>2. pc \notin Between /\ pc \in Busy /\ pc \in Address
    BY <1>1 DEF Between, Busy, Address
  <1>3. faults' \in Nat
    BY InstFacts, <1>2, FaultsNat DEF PrivateNIC
  <1>4. CASE /\ UNCHANGED <<one, ledger>> /\ pc' = "renew" /\ todo' = << >> /\ seen' = None
             /\ UNCHANGED <<req, mine>>
    <2>1. RoundInv'
      BY <1>1, <1>4, EmptySeq DEF CoreInv, RoundInv, Between, Busy, Address
    <2> QED BY <1>1, <1>3, <1>4, <2>1, OneFrame, CoreFrame, GorFrame, LedgerFrame DEF CoreInv
  <1>5. CASE /\ Go("power")
             /\ \/ UNCHANGED <<one, ledger>>
                \/ /\ UNCHANGED spare
                   /\ Changed("private", IF seen.vm.private < Wanted.private THEN 1 ELSE -1)
    <2>1. OneTyped' /\ LedgerTyped' /\ vm'[Head(todo)].drive = vm[Head(todo)].drive
      <3>1. CASE /\ UNCHANGED spare
                 /\ Changed("private", IF seen.vm.private < Wanted.private THEN 1 ELSE -1)
        <4> DEFINE n == IF seen.vm.private < Wanted.private THEN 1 ELSE -1
        <4>1. n \in Int /\ spare' \in Nat
          BY <3>1 DEF CoreInv, OneTyped
        <4>2. vm[Head(todo)].private + n \in Nat /\ Head(todo) \in Instances
          <5>1. /\ vm[Head(todo)] = seen.vm /\ vm[Head(todo)] \in Resources
                /\ req[Head(todo)] \in Resources /\ Head(todo) \in Instances
                /\ seen.vm.private # req[Head(todo)].private
            BY <1>1, <1>2, InstFacts DEF SeenInv
          <5> QED BY <5>1, SMT DEF Resources, Wanted, Inst
        <4> HIDE DEF n
        <4>3. UNCHANGED power /\ vm' = [vm EXCEPT ![Head(todo)]["private"] = @ + n]
          BY <3>1 DEF Changed, Inst, n
        <4>4. OneTyped' /\ LedgerTyped'
          BY <1>3, <3>1, <4>1, <4>2, <4>3, ChangedTyped DEF CoreInv, n
        <4>5. vm'[Head(todo)].drive = vm[Head(todo)].drive
          BY <4>2, <4>3 DEF CoreInv, OneTyped, Resources
        <4> QED BY <4>4, <4>5
      <3>2. CASE UNCHANGED <<one, ledger>>
        BY <1>3, <3>2, OneFrame, LedgerFrame DEF CoreInv, one
      <3> QED BY <1>5, <3>1, <3>2
    <2>2. SeenInv'
      BY <1>2, <1>5, <2>1, InstFacts, SeenLater DEF Go, Address
    <2>3. RoundInv'
      BY <1>1, <1>2, <1>5, <2>2, GoRound, "power" \in Busy DEF Busy, Address
    <2> QED BY <1>1, <2>1, <2>3, CoreFrame, GorFrame DEF CoreInv
  <1> QED BY <1>4, <1>5 DEF PrivateNIC

LEMMA PowerCore == ASSUME CoreInv, Poweroff \/ Wait PROVE CoreInv'
  <1>1. pc \in {"power", "wait"} /\ UNCHANGED <<vm, spare, core, gor, ledger>>
    BY DEF Poweroff, Wait, one
  <1>2. pc \notin Between /\ pc \in Busy
    BY <1>1 DEF Between, Busy, Address
  <1>3. faults' \in Nat
    BY InstFacts, <1>2, FaultsNat DEF Poweroff, Wait, Works
  <1>4. OneTyped'
    <2>1. power' \in [Instances -> {"running", "stopping", "off"}]
      BY DEF Poweroff, Wait, CoreInv, OneTyped, one
    <2> QED BY <1>1, <2>1 DEF CoreInv, OneTyped
  <1>5. NextInstance \/ \E step \in {"drive", "resize", "wait"} : Go(step)
    BY DEF Poweroff, Wait
  <1>6. RoundInv'
    <2>1. CASE NextInstance
      BY <1>2, <2>1, NextRound DEF CoreInv
    <2>2. ASSUME NEW step \in {"drive", "resize", "wait"}, Go(step) PROVE RoundInv'
      <3>1. step \in Busy /\ step \notin Address
        BY <2>2 DEF Busy, Address
      <3>2. SeenInv'
        BY <1>1, <1>2, <2>2, <3>1, InstFacts, SeenLater DEF Go
      <3> QED BY <1>2, <2>2, <3>1, <3>2, GoRound
    <2> QED BY <1>5, <2>1, <2>2
  <1> QED BY <1>1, <1>3, <1>4, <1>6, CoreFrame, GorFrame, LedgerFrame DEF CoreInv

LEMMA ResizeCore == ASSUME CoreInv, Resize PROVE CoreInv'
  <1>1. pc = "resize" /\ Go("drive") /\ UNCHANGED <<power, spare, core, gor, ledger>>
    BY DEF Resize
  <1>2. pc \notin Between /\ pc \in Busy
    BY <1>1 DEF Between, Busy, Address
  <1>3. faults' \in Nat
    BY InstFacts, <1>2, FaultsNat DEF Resize
  <1>4. OneTyped' /\ vm'[Head(todo)].drive = vm[Head(todo)].drive
    <2>1. CASE vm' = [vm EXCEPT ![Head(todo)].size = req[Head(todo)].size]
      <3>1. req[Head(todo)].size \in Nat /\ Head(todo) \in Instances
        BY <1>2, InstFacts DEF Resources
      <3>2. vm \in [Instances -> Resources] /\ \A i \in Instances : vm[i].ips > 0
        BY DEF CoreInv, OneTyped
      <3>3. /\ vm' \in [Instances -> Resources]
            /\ \A i \in Instances : vm'[i].ips = vm[i].ips /\ vm'[i].drive = vm[i].drive
        BY <2>1, <3>1, <3>2 DEF Resources
      <3> QED BY <1>1, <3>1, <3>2, <3>3 DEF CoreInv, OneTyped
    <2>2. CASE UNCHANGED vm
      BY <1>1, <2>2 DEF CoreInv, OneTyped
    <2> QED BY <2>1, <2>2 DEF Resize, Inst, Wanted
  <1>5. SeenInv'
    BY <1>1, <1>2, <1>4, InstFacts, SeenLater DEF Go, Address
  <1>6. RoundInv'
    BY <1>1, <1>2, <1>5, GoRound, "drive" \in Busy DEF Busy, Address
  <1> QED BY <1>1, <1>3, <1>4, <1>6, CoreFrame, GorFrame, LedgerFrame DEF CoreInv

LEMMA DriveCore == ASSUME CoreInv, ResizeDrive PROVE CoreInv'
  <1> DEFINE more == Wanted.drive - seen.vm.drive
  <1>1. pc = "drive" /\ NextInstance /\ UNCHANGED <<spare, core, gor>>
    BY DEF ResizeDrive
  <1>2. pc \notin Between /\ pc \in Busy
    BY <1>1 DEF Between, Busy, Address
  <1>3. faults' \in Nat
    BY InstFacts, <1>2, FaultsNat DEF ResizeDrive
  <1>4. OneTyped' /\ LedgerTyped'
    <2>1. CASE more > 0 /\ Changed("drive", more)
      <3>1. /\ vm[Head(todo)] \in Resources /\ Head(todo) \in Instances
            /\ req[Head(todo)] \in Resources /\ seen.vm \in Resources
        BY <1>2, InstFacts
      <3>2. more \in Int /\ vm[Head(todo)].drive + more \in Nat
        BY <2>1, <3>1, SMT DEF Resources, Wanted, Inst
      <3>3. UNCHANGED power /\ spare' \in Nat
        BY <1>1, <2>1 DEF Changed, CoreInv, OneTyped
      <3> HIDE DEF more
      <3> QED BY <1>3, <2>1, <3>1, <3>2, <3>3, ChangedTyped DEF CoreInv
    <2>2. CASE UNCHANGED <<vm, power, ledger>>
      BY <1>1, <1>3, <2>2, OneFrame, LedgerFrame DEF CoreInv, one
    <2> QED BY <2>1, <2>2 DEF ResizeDrive
  <1>5. RoundInv'
    BY <1>1, <1>2, NextRound DEF CoreInv
  <1> QED BY <1>1, <1>4, <1>5, CoreFrame, GorFrame DEF CoreInv

\* The instances to be updated, in their order, each once.
LEMMA InOrderFacts ==
    ASSUME NEW some \in SUBSET Instances, NEW s \in InOrder(some)
    PROVE  /\ s \in Seq(Instances) /\ (s = << >> <=> some = {})
           /\ \A m, n \in DOMAIN s : s[m] = s[n] => m = n
  <1>1. IsFiniteSet(some) /\ Instances \subseteq Int
    <2>1. IsFiniteSet(Instances) /\ Instances = 1 .. Cardinality(Instances)
      BY UpdateAssumption
    <2>2. Cardinality(Instances) \in Nat
      BY <2>1, FS_CardinalityType
    <2>3. Instances \subseteq Int
      <3> DEFINE n == Cardinality(Instances)
      <3> HIDE DEF n
      <3>1. 1 .. n \subseteq Int
        BY <2>2, SMT DEF n
      <3> QED BY <2>1, <3>1 DEF n
    <2> QED BY <2>1, <2>3, FS_Subset
  <1>2. Cardinality(some) \in Nat /\ (Cardinality(some) = 0 <=> some = {})
    BY <1>1, FS_CardinalityType, FS_EmptySet
  <1>3. s \in [1 .. Cardinality(some) -> some] /\ \A a, b \in DOMAIN s : a < b => s[a] < s[b]
    BY DEF InOrder
  <1>4. s \in Seq(some) /\ Len(s) = Cardinality(some)
    BY <1>2, <1>3, SMT
  <1>5. s \in Seq(Instances)
    BY <1>2, <1>3, SMT
  <1>6. s = << >> <=> some = {}
    BY <1>2, <1>4, EmptySeq
  <1>7. \A m, n \in DOMAIN s : s[m] = s[n] => m = n
    <2> SUFFICES ASSUME NEW m \in DOMAIN s, NEW n \in DOMAIN s, s[m] = s[n] PROVE m = n
      OBVIOUS
    <2>1. m \in Int /\ n \in Int /\ s[m] \in Int /\ s[n] \in Int
      <3>1. DOMAIN s = 1 .. Cardinality(some) /\ s[m] \in some /\ s[n] \in some
        BY <1>3
      <3>2. s[m] \in Int /\ s[n] \in Int
        BY <1>1, <3>1
      <3>3. 1 .. Cardinality(some) \subseteq Int
        BY <1>2, SMT
      <3> QED BY <3>1, <3>2, <3>3
    <2>2. (m < n => s[m] < s[n]) /\ (n < m => s[n] < s[m])
      BY <1>3
    <2> QED BY <2>1, <2>2, SMT
  <1> QED BY <1>5, <1>6, <1>7

LEMMA CheckCore == ASSUME CoreInv, Check PROVE CoreInv'
  <1>1. pc = "check" /\ UNCHANGED <<one, core, req, ledger>>
    BY DEF Check
  <1>2. PICK some \in SUBSET Differing :
          /\ Fail(Cardinality(Differing \ some))
          /\ todo' \in InOrder(some)
          /\ IF some = {} THEN pc' = "renew" /\ mine' = None /\ UNCHANGED gor
             ELSE /\ pc' = "read"
                  /\ \E g \in Goroutines :
                        mine' = g /\ gor' = [gor EXCEPT ![g] = Started(todo', req, lm)]
    BY DEF Check, Started
  <1>3. some \in SUBSET Instances /\ todo' \in Seq(Instances) /\ (todo' = << >> <=> some = {})
    BY <1>2, InOrderFacts DEF Differing
  <1>4. faults' \in Nat
    <2>1. IsFiniteSet(Differing \ some)
      BY UpdateAssumption, FS_Subset DEF Differing
    <2> QED BY <1>2, <2>1, FS_CardinalityType, FaultsNat DEF CoreInv, LedgerTyped
  <1>5. req \in [Instances -> Resources] /\ lm \in [Instances -> 0 .. MaxTime]
    BY <1>1 DEF CoreInv, RoundInv, CoreTyped
  <1>6. GorTyped' /\ mine' \in Goroutines \cup {None}
    <2>1. CASE some = {}
      BY <1>2, <2>1, GorFrame DEF CoreInv
    <2>2. CASE some # {}
      <3>1. PICK g \in Goroutines :
               mine' = g /\ gor' = [gor EXCEPT ![g] = Started(todo', req, lm)]
        BY <1>2, <2>2
      <3> DEFINE j == Started(todo', req, lm)
      <3>2. j \in Jobs /\ j.records = {} /\ ~j.read
        BY <1>3, <1>5, StartedTyped DEF CoreInv
      <3>3. gor \in [Goroutines -> Jobs]
        BY DEF CoreInv, GorTyped
      <3> HIDE DEF j
      <3>4. gor' \in [Goroutines -> Jobs] /\ gor'[g] = j /\ \A h \in Goroutines \ {g} : gor'[h] = gor[h]
        BY <3>1, <3>2, <3>3 DEF j
      <3>5. \A h \in Goroutines :
               IsFiniteSet(gor'[h].records) /\ (gor'[h].read => gor'[h].at \in Periods)
        <4> TAKE h \in Goroutines
        <4>1. CASE h = g
          BY <3>2, <3>4, <4>1, FS_EmptySet
        <4>2. CASE h # g
          BY <3>4, <4>2 DEF CoreInv, GorTyped
        <4> QED BY <4>1, <4>2
      <3> QED BY <3>1, <3>4, <3>5 DEF GorTyped, Periods
    <2> QED BY <2>1, <2>2
  <1>7. RoundInv'
    <2>1. pc' \in {"read", "renew"} /\ (pc' = "renew" <=> some = {})
      BY <1>2
    <2> QED BY <1>1, <1>3, <1>5, <1>6, <2>1 DEF RoundInv, Between, Busy, Address
  <1> QED BY <1>1, <1>4, <1>6, <1>7, OneFrame, CoreFrame, LedgerFrame DEF CoreInv

\* What a VM has of a resource that is billed, and what it lacks.
LEMMA UnitsTyped ==
    ASSUME OneTyped, NEW i \in Instances, NEW res \in Billed
    PROVE  vm[i][res] \in Nat /\ \A new \in Resources : Diff(i, new)[res] \in Int
  <1>1. vm[i] \in Resources
    BY DEF OneTyped
  <1>2. vm[i].ips \in Nat /\ vm[i].drive \in Nat
    BY <1>1 DEF Resources
  <1>3. res = "ips" \/ res = "drive"
    BY DEF Billed
  <1>4. vm[i][res] \in Nat
    BY <1>2, <1>3
  <1>5. ASSUME NEW new \in Resources PROVE Diff(i, new)[res] \in Int
    <2>1. new.ips \in Nat /\ new.drive \in Nat
      BY DEF Resources
    <2>2. Sign(new.ips - vm[i].ips) \in Int /\ new.drive - vm[i].drive \in Int
      BY <1>2, <2>1, SMT DEF Sign
    <2> QED BY <2>2 DEF Diff
  <1> QED BY <1>4, <1>5

LEMMA RenewCore == ASSUME CoreInv, Renew PROVE CoreInv'
  <1>1. PICK to \in {lm, [i \in Instances |-> now]} :
          /\ lm' = to
          /\ charged' = [i \in Instances |-> [res \in Billed |-> [k \in Periods |->
                charged[i][res][k] +
                    IF i \notin excused /\ k > lm[i] /\ k <= to[i]
                    THEN vm[i][res] ELSE 0]]]
          /\ gor' = IF mine = None THEN gor ELSE [gor EXCEPT ![mine].lm = to]
    BY DEF Renew
  <1>2. /\ pc = "renew" /\ pc' = "idle" /\ mine' = None
        /\ UNCHANGED <<one, want, now, ban, todo, past, bounds>>
    BY DEF Renew
  <1>3. to \in [Instances -> 0 .. MaxTime] /\ \A i \in Instances : to[i] <= now
    <2>1. now \in 0 .. MaxTime /\ now <= now
      BY UpdateAssumption, SMT DEF CoreInv, CoreTyped, Periods
    <2>2. CASE to = lm
      BY <2>2 DEF CoreInv, CoreTyped
    <2>3. CASE to = [i \in Instances |-> now]
      BY <2>1, <2>3
    <2> QED BY <2>2, <2>3
  <1>4. CoreTyped'
    BY <1>1, <1>2, <1>3 DEF CoreInv, CoreTyped
  <1>5. GorTyped'
    <2>1. CASE mine = None
      BY <1>1, <2>1, GorFrame DEF CoreInv
    <2>2. CASE mine # None
      <3>1. /\ gor' = [gor EXCEPT ![mine].lm = to]
            /\ mine \in Goroutines /\ gor \in [Goroutines -> Jobs]
        BY <1>1, <2>2 DEF CoreInv, RoundInv, GorTyped
      <3>2. gor' \in [Goroutines -> Jobs]
        BY <1>3, <3>1 DEF Jobs
      <3>3. \A g \in Goroutines : /\ gor'[g].records = gor[g].records /\ gor'[g].at = gor[g].at
        BY <3>1 DEF Jobs
      <3>4. \A g \in Goroutines : gor'[g].read = gor[g].read
        BY <3>1 DEF Jobs
      <3> QED BY <3>2, <3>3, <3>4 DEF CoreInv, GorTyped, Periods
    <2> QED BY <2>1, <2>2
  <1>6. LedgerTyped'
    <2>1. charged' \in [Instances -> [Billed -> [Periods -> Int]]]
      <3>1. \A i \in Instances, res \in Billed, k \in Periods :
               charged[i][res][k] \in Int /\ vm[i][res] \in Int
        BY UnitsTyped DEF CoreInv, LedgerTyped
      <3>2. \A i \in Instances, res \in Billed, k \in Periods :
               charged[i][res][k] + (IF i \notin excused /\ k > lm[i] /\ k <= to[i]
                                     THEN vm[i][res] ELSE 0) \in Int
        BY <3>1
      <3> QED BY <1>1, <3>2
    <2>2. due' \in [Instances -> SUBSET Billed]
      BY DEF Renew
    <2> QED BY <1>2, <2>1, <2>2 DEF CoreInv, LedgerTyped, bounds
  <1>7. RoundInv'
    BY <1>2 DEF CoreInv, RoundInv, Between, Busy, Address
  <1>8. OneTyped'
    BY <1>2, OneFrame DEF CoreInv
  <1> QED BY <1>4, <1>5, <1>6, <1>7, <1>8 DEF CoreInv

\* What reading the difference makes of the goroutine.
LEMMA ReadJob ==
    ASSUME GorTyped, now \in Periods, NEW g \in Goroutines, NEW d \in [Billed -> Int],
           gor' = [gor EXCEPT ![g].diff = d, ![g].read = TRUE, ![g].at = IF @ = 0 THEN now ELSE @]
    PROVE  /\ GorTyped'
           /\ \A h \in Goroutines \ {g} : gor'[h] = gor[h]
           /\ gor'[g].todo = gor[g].todo /\ gor'[g].records = gor[g].records
           /\ gor'[g].want = gor[g].want /\ gor'[g].lm = gor[g].lm
           /\ gor'[g].diff = d /\ gor'[g].read
           /\ gor'[g].at = IF gor[g].at = 0 THEN now ELSE gor[g].at
  <1> DEFINE at == IF gor[g].at = 0 THEN now ELSE gor[g].at
  <1>1. gor \in [Goroutines -> Jobs] /\ gor[g] \in Jobs
    BY DEF GorTyped
  <1>2. at \in Periods /\ at \in 0 .. MaxTime
    <2>1. gor[g].at \in 0 .. MaxTime /\ MaxTime \in Nat
      BY <1>1, UpdateAssumption DEF Jobs
    <2> QED BY <2>1, SMT DEF Periods
  <1> HIDE DEF at
  <1>3. gor' = [gor EXCEPT ![g] = [gor[g] EXCEPT !.diff = d, !.read = TRUE, !.at = at]]
    BY <1>1 DEF Jobs, at
  <1> DEFINE j == [gor[g] EXCEPT !.diff = d, !.read = TRUE, !.at = at]
  <1>4. j \in Jobs
    BY <1>1, <1>2 DEF Jobs
  <1>5. /\ j.todo = gor[g].todo /\ j.records = gor[g].records
        /\ j.want = gor[g].want /\ j.lm = gor[g].lm /\ j.diff = d /\ j.at = at
    BY <1>1 DEF Jobs
  <1>6. j.read = TRUE
    BY <1>1 DEF Jobs
  <1>7. gor' = [gor EXCEPT ![g] = j]
    BY <1>3
  <1> HIDE DEF j
  <1>8. /\ gor' \in [Goroutines -> Jobs] /\ gor'[g] = j
        /\ \A h \in Goroutines \ {g} : gor'[h] = gor[h]
    BY <1>1, <1>4, <1>7
  <1>9. \A h \in Goroutines :
          IsFiniteSet(gor'[h].records) /\ (gor'[h].read => gor'[h].at \in Periods)
    <2> TAKE h \in Goroutines
    <2>1. CASE h = g
      BY <1>2, <1>5, <1>8, <2>1 DEF GorTyped
    <2>2. CASE h # g
      BY <1>8, <2>2 DEF GorTyped
    <2> QED BY <2>1, <2>2
  <1>10. GorTyped'
    BY <1>8, <1>9 DEF GorTyped, Periods
  <1> QED BY <1>5, <1>6, <1>8, <1>10 DEF at

LEMMA ReadDiffCore == ASSUME CoreInv, NEW g \in Goroutines, ReadDiff(g) PROVE CoreInv'
  <1> DEFINE i == Head(gor[g].todo)
  <1>1. PICK d \in {Diff(i, gor[g].want[i]), Zero} :
          /\ Fail(IF d = Diff(i, gor[g].want[i]) THEN 0 ELSE 1)
          /\ gor' = [gor EXCEPT ![g].diff = d, ![g].read = TRUE,
                                ![g].at = IF @ = 0 THEN now ELSE @]
          /\ due' = [due EXCEPT ![i] = @ \cup {res \in Billed : d[res] # 0}]
    BY DEF ReadDiff
  <1>2. UNCHANGED <<one, core, round, charged, past>> /\ gor[g].todo # << >>
    BY DEF ReadDiff
  <1>3. gor[g] \in Jobs /\ i \in Instances /\ gor[g].want[i] \in Resources
    <2>1. gor[g] \in Jobs
      BY DEF CoreInv, GorTyped
    <2>2. gor[g].todo \in Seq(Instances) /\ gor[g].want \in [Instances -> Resources]
      BY <2>1 DEF Jobs
    <2> QED BY <1>2, <2>1, <2>2, HeadTailProperties
  <1>4. d \in [Billed -> Int]
    <2>1. \A res \in Billed : Diff(i, gor[g].want[i])[res] \in Int
      BY <1>3, UnitsTyped DEF CoreInv
    <2>2. Diff(i, gor[g].want[i]) \in [Billed -> Int]
      BY <2>1 DEF Diff
    <2> QED BY <2>2 DEF Zero
  <1> HIDE DEF i
  <1>5. GorTyped'
    BY <1>1, <1>4, ReadJob DEF CoreInv, CoreTyped
  <1>6. LedgerTyped'
    <2>1. faults' \in Nat
      BY <1>1, FaultsNat DEF CoreInv, LedgerTyped
    <2>2. due' \in [Instances -> SUBSET Billed]
      BY <1>1, <1>3 DEF CoreInv, LedgerTyped
    <2> QED BY <1>2, <2>1, <2>2 DEF CoreInv, LedgerTyped
  <1> QED BY <1>2, <1>5, <1>6, OneFrame, CoreFrame, RoundFrame DEF CoreInv, one

\* The records that Price makes of the instance at hand.
HeadBills(g) ==
    {[inst |-> Head(gor[g].todo), res |-> res, units |-> gor[g].diff[res],
      lm |-> gor[g].lm[Head(gor[g].todo)], at |-> gor[g].at] :
         res \in {b \in Billed : gor[g].diff[b] # 0}}

LEMMA HeadBillsTyped ==
    ASSUME GorTyped, NEW g \in Goroutines, gor[g].todo # << >>
    PROVE  /\ IsFiniteSet(HeadBills(g))
           /\ gor[g].read => HeadBills(g) \subseteq Records
           /\ Head(gor[g].todo) \in Instances
           /\ Tail(gor[g].todo) \in Seq(Instances)
  <1>1. gor[g] \in Jobs /\ gor[g].todo \in Seq(Instances)
    BY DEF GorTyped, Jobs
  <1>2. Head(gor[g].todo) \in Instances /\ Tail(gor[g].todo) \in Seq(Instances)
    BY <1>1, HeadTailProperties
  <1> DEFINE rec(res) == [inst |-> Head(gor[g].todo), res |-> res, units |-> gor[g].diff[res],
                          lm |-> gor[g].lm[Head(gor[g].todo)], at |-> gor[g].at]
  <1>3. IsFiniteSet(HeadBills(g))
    <2>1. HeadBills(g) \subseteq {rec("ips")} \cup {rec("drive")}
      BY DEF HeadBills, Billed
    <2> DEFINE a == rec("ips")
               b == rec("drive")
    <2> HIDE DEF rec, a, b
    <2>2. IsFiniteSet({a}) /\ IsFiniteSet({b})
      BY FS_Singleton
    <2>3. IsFiniteSet({a} \cup {b})
      BY <2>2, FS_Union
    <2> QED BY <2>1, <2>3, FS_Subset DEF a, b
  <1>4. ASSUME gor[g].read, NEW res \in Billed PROVE rec(res) \in Records
    <2>1. /\ gor[g].diff[res] \in Int /\ gor[g].at \in Periods
          /\ gor[g].lm[Head(gor[g].todo)] \in 0 .. MaxTime
      BY <1>1, <1>2, <1>4 DEF GorTyped, Jobs
    <2>2. gor[g].lm[Head(gor[g].todo)] \in Nat
      BY <2>1, UpdateAssumption, SMT
    <2> QED BY <1>2, <2>1, <2>2 DEF Records
  <1>5. gor[g].read => HeadBills(g) \subseteq Records
    BY <1>4 DEF HeadBills
  <1> QED BY <1>2, <1>3, <1>5

LEMMA PriceJob ==
    ASSUME GorTyped, NEW g \in Goroutines, Price(g)
    PROVE  /\ GorTyped'
           /\ \A h \in Goroutines \ {g} : gor'[h] = gor[h]
           /\ gor'[g].todo = Tail(gor[g].todo)
           /\ gor'[g].records = gor[g].records \cup HeadBills(g)
           /\ gor'[g].want = gor[g].want /\ gor'[g].lm = gor[g].lm
           /\ gor'[g].diff = Zero /\ ~gor'[g].read
  <1>1. gor \in [Goroutines -> Jobs] /\ gor[g] \in Jobs
    BY DEF GorTyped
  <1>2. /\ gor[g].todo # << >> /\ gor[g].read
        /\ gor' = [gor EXCEPT ![g].records = @ \cup HeadBills(g), ![g].todo = Tail(@),
                              ![g].read = FALSE, ![g].diff = Zero]
    BY DEF Price, HeadBills
  <1> DEFINE recs == gor[g].records \cup HeadBills(g)
             j == [gor[g] EXCEPT !.records = recs, !.todo = Tail(gor[g].todo),
                                 !.read = FALSE, !.diff = Zero]
  <1>3. gor' = [gor EXCEPT ![g] = j]
    BY <1>1, <1>2 DEF Jobs
  <1>4. /\ recs \in SUBSET Records /\ IsFiniteSet(recs)
        /\ Tail(gor[g].todo) \in Seq(Instances) /\ Zero \in [Billed -> Int]
    <2>1. IsFiniteSet(gor[g].records) /\ gor[g].records \in SUBSET Records
      BY <1>1 DEF GorTyped, Jobs
    <2>2. Zero \in [Billed -> Int]
      BY DEF Zero
    <2> QED BY <1>2, <2>1, <2>2, HeadBillsTyped, FS_Union
  <1> HIDE DEF recs
  <1>5. j \in Jobs
    BY <1>1, <1>4 DEF Jobs
  <1>6. /\ j.todo = Tail(gor[g].todo) /\ j.records = recs
        /\ j.want = gor[g].want /\ j.lm = gor[g].lm /\ j.diff = Zero
    BY <1>1 DEF Jobs
  <1>7. j.read = FALSE
    BY <1>1 DEF Jobs
  <1> HIDE DEF j
  <1>8. /\ gor' \in [Goroutines -> Jobs] /\ gor'[g] = j
        /\ \A h \in Goroutines \ {g} : gor'[h] = gor[h]
    BY <1>1, <1>3, <1>5
  <1>9. \A h \in Goroutines :
          IsFiniteSet(gor'[h].records) /\ (gor'[h].read => gor'[h].at \in Periods)
    <2> TAKE h \in Goroutines
    <2>1. CASE h = g
      BY <1>4, <1>6, <1>7, <1>8, <2>1
    <2>2. CASE h # g
      BY <1>8, <2>2 DEF GorTyped
    <2> QED BY <2>1, <2>2
  <1>10. GorTyped'
    BY <1>8, <1>9 DEF GorTyped, Periods
  <1> QED BY <1>6, <1>7, <1>8, <1>10 DEF recs

LEMMA PriceCore == ASSUME CoreInv, NEW g \in Goroutines, Price(g) PROVE CoreInv'
  <1>1. UNCHANGED <<one, core, round, ledger, bounds>>
    BY DEF Price
  <1>2. GorTyped'
    BY PriceJob DEF CoreInv
  <1>3. faults' \in Nat
    BY <1>1 DEF bounds, CoreInv, LedgerTyped
  <1> QED BY <1>1, <1>2, <1>3, OneFrame, CoreFrame, LedgerFrame, RoundFrame DEF CoreInv, one

\* Records are for whole units of every period.
LEMMA RecordUnits ==
    ASSUME NEW rec, rec.units \in Int, NEW k PROVE Units(rec, k) \in Int
  BY SMT DEF Units

\* What the records of a goroutine say of an instance and a resource.
For(R, i, res) == {rec \in R : rec.inst = i /\ rec.res = res}

LEMMA PublishCore == ASSUME CoreInv, NEW g \in Goroutines, PublishRecords(g) PROVE CoreInv'
  <1>1. /\ UNCHANGED <<one, core, round, past, due, excused, bounds>>
        /\ gor' = [gor EXCEPT ![g] = NoWork]
        /\ charged' = [i \in Instances |-> [res \in Billed |-> [k \in Periods |->
              IF i \in excused THEN charged[i][res][k]
              ELSE charged[i][res][k] + UnitsOf(For(gor[g].records, i, res), k)]]]
    BY DEF PublishRecords, UnitsOf, For
  <1>2. GorTyped'
    <2>1. NoWork \in Jobs /\ IsFiniteSet(NoWork.records) /\ ~NoWork.read
      BY NoWorkTyped, FS_EmptySet DEF CoreInv
    <2> QED BY <1>1, <2>1 DEF CoreInv, GorTyped, Periods
  <1>3. charged' \in [Instances -> [Billed -> [Periods -> Int]]]
    <2>1. ASSUME NEW i \in Instances, NEW res \in Billed, NEW k \in Periods
          PROVE  UnitsOf(For(gor[g].records, i, res), k) \in Int
      <3>1. IsFiniteSet(gor[g].records) /\ gor[g].records \in SUBSET Records
        BY DEF CoreInv, GorTyped, Jobs
      <3>2. IsFiniteSet(For(gor[g].records, i, res))
        BY <3>1, FS_Subset DEF For
      <3>3. \A rec \in For(gor[g].records, i, res) : Units(rec, k) \in Int
        BY <3>1, RecordUnits DEF For, Records
      <3> QED BY <3>2, <3>3, UnitsSum
    <2>2. \A i \in Instances, res \in Billed, k \in Periods :
             (IF i \in excused THEN charged[i][res][k]
              ELSE charged[i][res][k] + UnitsOf(For(gor[g].records, i, res), k)) \in Int
      BY <2>1 DEF CoreInv, LedgerTyped
    <2> QED BY <1>1, <2>2
  <1>4. LedgerTyped'
    BY <1>1, <1>3 DEF CoreInv, LedgerTyped, bounds
  <1> QED BY <1>1, <1>2, <1>4, OneFrame, CoreFrame, RoundFrame DEF CoreInv, one

LEMMA BeginCore == ASSUME CoreInv, Begin PROVE CoreInv'
  <1>1. /\ pc = "idle" /\ pc' = "check" /\ req' = want
        /\ UNCHANGED <<one, core, todo, seen, mine, gor, ledger, bounds>>
    BY DEF Begin
  <1>2. RoundInv'
    BY <1>1 DEF CoreInv, CoreTyped, RoundInv, Between, Busy, Address
  <1>3. faults' \in Nat
    BY <1>1 DEF bounds, CoreInv, LedgerTyped
  <1> QED BY <1>1, <1>2, <1>3, OneFrame, CoreFrame, GorFrame, LedgerFrame DEF CoreInv

LEMMA SetWantCore == ASSUME CoreInv, SetWant PROVE CoreInv'
  <1>1. UNCHANGED <<one, lm, now, ban, round, gor, ledger, faults>>
    BY DEF SetWant
  <1>2. CoreTyped'
    <2>1. PICK i \in Instances : \E w \in Options[i] : want' = [want EXCEPT ![i] = w]
      BY DEF SetWant
    <2>2. PICK w \in Options[i] : want' = [want EXCEPT ![i] = w]
      BY <2>1
    <2>3. w \in Resources
      BY UpdateAssumption
    <2> QED BY <1>1, <2>2, <2>3 DEF CoreInv, CoreTyped
  <1>3. faults' \in Nat
    BY <1>1 DEF CoreInv, LedgerTyped
  <1> QED BY <1>1, <1>2, <1>3, OneFrame, GorFrame, LedgerFrame, RoundFrame DEF CoreInv, one

LEMMA PowerTurns == ASSUME CoreInv, StartVM \/ PoweredOff PROVE CoreInv'
  <1>1. UNCHANGED <<vm, spare, core, round, gor, ledger, faults>>
    BY DEF StartVM, PoweredOff, bounds
  <1>2. OneTyped'
    BY <1>1 DEF StartVM, PoweredOff, CoreInv, OneTyped
  <1>3. faults' \in Nat
    BY <1>1 DEF CoreInv, LedgerTyped
  <1> QED BY <1>1, <1>2, <1>3, CoreFrame, GorFrame, LedgerFrame, RoundFrame DEF CoreInv

LEMMA TickCore == ASSUME CoreInv, Tick PROVE CoreInv'
  <1>1. /\ now < MaxTime /\ now' = now + 1
        /\ past' = [i \in Instances |-> [res \in Billed |->
                      [past[i][res] EXCEPT ![now] = vm[i][res]]]]
        /\ UNCHANGED <<one, want, lm, ban, round, gor, charged, due, bounds>>
    BY DEF Tick
  <1>2. CoreTyped'
    <2>1. now' \in Periods
      BY <1>1, UpdateAssumption, SMT DEF CoreInv, CoreTyped, Periods
    <2>2. \A i \in Instances : lm[i] \in Int /\ lm[i] <= now
      BY UpdateAssumption DEF CoreInv, CoreTyped
    <2>3. \A i \in Instances : lm[i] <= now'
      BY <1>1, <2>2, SMT DEF CoreInv, CoreTyped, Periods
    <2> QED BY <1>1, <2>1, <2>3 DEF CoreInv, CoreTyped, Periods
  <1>3. past' \in [Instances -> [Billed -> [Periods -> Nat]]]
    <2>1. \A i \in Instances, res \in Billed :
             past[i][res] \in [Periods -> Nat] /\ vm[i][res] \in Nat
      BY UnitsTyped DEF CoreInv, LedgerTyped
    <2>2. \A i \in Instances, res \in Billed :
             [past[i][res] EXCEPT ![now] = vm[i][res]] \in [Periods -> Nat]
      BY <2>1
    <2> QED BY <1>1, <2>2
  <1>4. LedgerTyped'
    BY <1>1, <1>3 DEF CoreInv, LedgerTyped, bounds
  <1> QED BY <1>1, <1>2, <1>4, OneFrame, GorFrame, RoundFrame DEF CoreInv, one

LEMMA CrashCore == ASSUME CoreInv, Crash PROVE CoreInv'
  <1>1. /\ pc' = "idle" /\ todo' = << >> /\ mine' = None
        /\ gor' = [g \in Goroutines |-> NoWork] /\ due' = [i \in Instances |-> {}]
        /\ UNCHANGED <<one, core, charged, past>>
    BY DEF Crash
  <1>2. faults' \in Nat
    BY FaultsNat DEF Crash, CoreInv, LedgerTyped
  <1>3. GorTyped'
    BY <1>1, NoWorkTyped, FS_EmptySet DEF CoreInv, GorTyped
  <1>4. LedgerTyped'
    BY <1>1, <1>2 DEF CoreInv, LedgerTyped
  <1>5. RoundInv'
    BY <1>1, EmptySeq DEF RoundInv, Between, Busy, Address
  <1> QED BY <1>1, <1>3, <1>4, <1>5, OneFrame, CoreFrame DEF CoreInv

LEMMA CoreStep == ASSUME CoreInv, [Next]_vars PROVE CoreInv'
  <1>1. ASSUME NEW g \in Goroutines, Bill(g) PROVE CoreInv'
    BY <1>1, ReadDiffCore, PriceCore, PublishCore DEF Bill
  <1>2. ASSUME Update PROVE CoreInv'
    BY <1>2, CheckCore, ReadCore, FreeCore, ReserveCore, AttachCore, DetachCore, PrivateCore,
       PowerCore, ResizeCore, DriveCore, RenewCore DEF Update
  <1>3. CASE UNCHANGED vars
    <2>1. UNCHANGED <<one, core, round, gor, ledger, vm>> /\ faults' \in Nat
      BY <1>3 DEF vars, one, bounds, CoreInv, LedgerTyped
    <2> QED BY <2>1, OneFrame, CoreFrame, GorFrame, LedgerFrame, RoundFrame DEF CoreInv
  <1> QED BY <1>1, <1>2, <1>3, BeginCore, SetWantCore, PowerTurns, TickCore, CrashCore DEF Next

LEMMA CoreInit == ASSUME Init PROVE CoreInv
  <1>1. /\ MaxTime \in Nat \ {0} /\ 0 \in 0 .. MaxTime /\ 1 \in Periods
    BY UpdateAssumption, SMT DEF Periods
  <1>2. OneTyped
    <2>1. \A i \in Instances : vm[i] \in Resources /\ vm[i].ips > 0
      BY UpdateAssumption DEF Init
    <2>2. vm \in [Instances -> Resources]
      BY <2>1 DEF Init
    <2> QED BY <2>1, <2>2 DEF Init, OneTyped
  <1>3. CoreTyped
    BY <1>1, <1>2 DEF Init, CoreTyped, OneTyped
  <1>4. GorTyped
    BY <1>3, NoWorkTyped, FS_EmptySet DEF Init, GorTyped
  <1>5. LedgerTyped
    BY DEF Init, LedgerTyped
  <1>6. RoundInv
    BY EmptySeq DEF Init, RoundInv, Between, Busy, Address
  <1> QED BY <1>2, <1>3, <1>4, <1>5, <1>6 DEF CoreInv

-----------------------------------------------------------------------------
(* Goroutines.                                                              *)

\* Most steps leave the goroutines and their round alone, and at most make what
\* is due or excuse an instance.
LEMMA JobFrame ==
    ASSUME JobInv, UNCHANGED <<gor, req, lm, mine>>, excused \subseteq excused',
           \A i \in Instances : due'[i] \subseteq due[i]
    PROVE  JobInv'
  <1>1. \A g \in Goroutines : Proper(gor'[g])
    BY DEF JobInv
  <1>2. MineInv'
    BY DEF JobInv, MineInv
  <1>3. DueInv'
    BY DEF JobInv, DueInv
  <1> QED BY <1>1, <1>2, <1>3 DEF JobInv, Proper, Zero

LEMMA ProperStarts ==
    ASSUME CoreInv PROVE Proper(NoWork) /\ NoWork.todo = << >>
  BY NoWorkTyped DEF CoreInv, Proper

\* What a change makes is not due any more.
LEMMA ChangedJobs ==
    ASSUME CoreInv, JobInv, UNCHANGED <<gor, req, lm, mine>>, NEW res, NEW n, Changed(res, n)
    PROVE  JobInv'
  <1>1. due \in [Instances -> SUBSET Billed]
    BY DEF CoreInv, LedgerTyped
  <1>2. excused \subseteq excused' /\ \A i \in Instances : due'[i] \subseteq due[i]
    BY <1>1 DEF Changed
  <1> QED BY <1>2, JobFrame

LEMMA LoopJobs ==
    ASSUME CoreInv, JobInv,
           \/ Read \/ FreeARs \/ Reserve \/ Attach \/ Detach \/ PrivateNIC
           \/ Poweroff \/ Wait \/ Resize \/ ResizeDrive
    PROVE  JobInv'
  <1> USE DEF Go, NextInstance, core, ledger
  <1>1. CASE Read \/ FreeARs \/ Reserve \/ Poweroff \/ Wait \/ Resize
    <2>1. UNCHANGED <<gor, req, lm, mine, excused, due>>
      BY <1>1 DEF Read, FreeARs, Reserve, Poweroff, Wait, Resize
    <2> QED BY <2>1, JobFrame
  <1>2. CASE Attach
    <2>1. UNCHANGED <<gor, req, lm, mine>>
      BY <1>2 DEF Attach
    <2>2. UNCHANGED <<excused, due>> \/ Changed("ips", 1)
      BY <1>2 DEF Attach
    <2> QED BY <2>1, <2>2, JobFrame, ChangedJobs
  <1>3. CASE Detach
    <2>1. UNCHANGED <<gor, req, lm, mine>>
      BY <1>3 DEF Detach
    <2>2. UNCHANGED <<excused, due>> \/ Changed("ips", -1)
      BY <1>3 DEF Detach
    <2> QED BY <2>1, <2>2, JobFrame, ChangedJobs
  <1>4. CASE PrivateNIC
    <2>1. UNCHANGED <<gor, req, lm, mine>>
      BY <1>4 DEF PrivateNIC
    <2>2. UNCHANGED <<excused, due>> \/ \E n : Changed("private", n)
      BY <1>4 DEF PrivateNIC
    <2> QED BY <2>1, <2>2, JobFrame, ChangedJobs
  <1>5. CASE ResizeDrive
    <2>1. UNCHANGED <<gor, req, lm, mine>>
      BY <1>5 DEF ResizeDrive
    <2>2. UNCHANGED <<excused, due>> \/ \E n : Changed("drive", n)
      BY <1>5 DEF ResizeDrive
    <2> QED BY <2>1, <2>2, JobFrame, ChangedJobs
  <1> QED BY <1>1, <1>2, <1>3, <1>4, <1>5

LEMMA OtherJobs ==
    ASSUME CoreInv, JobInv, SetWant \/ StartVM \/ PoweredOff \/ Tick \/ UNCHANGED vars
    PROVE  JobInv'
  <1> USE DEF core, round, ledger
  <1>1. UNCHANGED <<gor, req, lm, mine, due>>
    BY DEF SetWant, StartVM, PoweredOff, Tick, vars
  <1>2. excused \subseteq excused'
    BY DEF SetWant, StartVM, PoweredOff, Tick, vars
  <1> QED BY <1>1, <1>2, JobFrame

LEMMA BeginJobs == ASSUME CoreInv, JobInv, Begin PROVE JobInv'
  <1>1. mine = None /\ UNCHANGED <<gor, lm, mine, due, excused>>
    BY DEF Begin, CoreInv, RoundInv, core, ledger
  <1>2. MineInv'
    BY <1>1 DEF MineInv
  <1>3. DueInv'
    BY <1>1 DEF JobInv, DueInv
  <1> QED BY <1>1, <1>2, <1>3 DEF JobInv, Proper, Zero

\* Without a goroutine of the round nothing is due.
LEMMA NoneDue ==
    ASSUME JobInv, mine = None, NEW i \in Instances \ excused PROVE due[i] = {}
  BY DEF JobInv, DueInv

LEMMA CheckJobs == ASSUME CoreInv, JobInv, Check PROVE JobInv'
  <1>1. mine = None /\ UNCHANGED <<req, lm, due, excused>>
    BY DEF Check, CoreInv, RoundInv, core, ledger
  <1>2. DueInv'
    BY <1>1, NoneDue DEF DueInv
  <1>3. PICK some \in SUBSET Differing :
          /\ todo' \in InOrder(some)
          /\ IF some = {} THEN mine' = None /\ UNCHANGED gor
             ELSE \E g \in Goroutines :
                     mine' = g /\ gor' = [gor EXCEPT ![g] = Started(todo', req, lm)]
    BY DEF Check, Started
  <1>4. CASE some = {}
    BY <1>2, <1>3, <1>4 DEF JobInv, MineInv, Proper, Zero
  <1>5. CASE some # {}
    <2>1. PICK g \in Goroutines :
             mine' = g /\ gor' = [gor EXCEPT ![g] = Started(todo', req, lm)]
      BY <1>3, <1>5
    <2> DEFINE j == Started(todo', req, lm)
    <2>2. /\ todo' \in Seq(Instances) /\ todo' # << >>
          /\ \A m, n \in DOMAIN todo' : todo'[m] = todo'[n] => m = n
      BY <1>3, <1>5, InOrderFacts DEF Differing
    <2>3. req \in [Instances -> Resources] /\ lm \in [Instances -> 0 .. MaxTime] /\ CoreTyped
      BY DEF Check, CoreInv, RoundInv, CoreTyped
    <2>4. /\ j.todo = todo' /\ j.want = req /\ j.lm = lm /\ j.records = {} /\ j.diff = Zero
          /\ ~j.read
      BY <2>2, <2>3, StartedTyped
    <2>5. gor \in [Goroutines -> Jobs]
      BY DEF CoreInv, GorTyped
    <2> HIDE DEF j
    <2>6. gor'[g] = j /\ \A h \in Goroutines \ {g} : gor'[h] = gor[h]
      BY <2>1, <2>5 DEF j
    <2>7. Proper(j)
      BY <2>2, <2>4 DEF Proper
    <2>8. \A h \in Goroutines : Proper(gor'[h])
      BY <2>6, <2>7 DEF JobInv
    <2>9. MineInv'
      BY <1>1, <2>1, <2>4, <2>6 DEF MineInv
    <2> QED BY <1>2, <2>8, <2>9 DEF JobInv, Proper, Zero
  <1> QED BY <1>4, <1>5

LEMMA RenewJobs == ASSUME CoreInv, JobInv, Renew PROVE JobInv'
  <1>1. PICK to :
          gor' = IF mine = None THEN gor ELSE [gor EXCEPT ![mine].lm = to]
    BY DEF Renew
  <1>2. mine' = None /\ \A i \in Instances : due'[i] = {}
    BY DEF Renew
  <1>3. \A g \in Goroutines : Proper(gor'[g])
    <2>1. CASE mine = None
      BY <1>1, <2>1 DEF JobInv
    <2>2. CASE mine # None
      <3>1. /\ gor' = [gor EXCEPT ![mine].lm = to]
            /\ mine \in Goroutines /\ gor \in [Goroutines -> Jobs]
        BY <1>1, <2>2 DEF CoreInv, RoundInv, GorTyped
      <3>2. \A g \in Goroutines : /\ gor'[g].records = gor[g].records /\ gor'[g].todo = gor[g].todo
                                  /\ gor'[g].diff = gor[g].diff
        BY <3>1 DEF Jobs
      <3>3. \A g \in Goroutines : gor'[g].read = gor[g].read
        BY <3>1 DEF Jobs
      <3> QED BY <3>2, <3>3 DEF JobInv, Proper
    <2> QED BY <2>1, <2>2
  <1> QED BY <1>2, <1>3 DEF JobInv, MineInv, DueInv, Proper, Zero

LEMMA ReadDiffJobs == ASSUME CoreInv, JobInv, NEW g \in Goroutines, ReadDiff(g) PROVE JobInv'
  <1> DEFINE i == Head(gor[g].todo)
  <1>1. PICK d \in {Diff(i, gor[g].want[i]), Zero} :
          LET more == {res \in Billed : d[res] # 0} IN
          /\ gor' = [gor EXCEPT ![g].diff = d, ![g].read = TRUE,
                                ![g].at = IF @ = 0 THEN now ELSE @]
          /\ due' = [due EXCEPT ![i] = @ \cup more]
          /\ excused' = IF more # {} /\ (g # mine \/ gor[g].at \notin {0, now})
                        THEN excused \cup {i} ELSE excused
    BY DEF ReadDiff
  <1>2. /\ UNCHANGED <<req, mine, lm>> /\ gor[g].todo # << >> /\ ~gor[g].read
        /\ now \in Periods
    BY DEF ReadDiff, core, round, CoreInv, CoreTyped
  <1>3. gor[g] \in Jobs /\ i \in Instances /\ gor[g].want[i] \in Resources
    <2>1. gor[g] \in Jobs
      BY DEF CoreInv, GorTyped
    <2>2. gor[g].todo \in Seq(Instances) /\ gor[g].want \in [Instances -> Resources]
      BY <2>1 DEF Jobs
    <2> QED BY <1>2, <2>1, <2>2, HeadTailProperties
  <1>4. d \in [Billed -> Int]
    <2>1. \A res \in Billed : Diff(i, gor[g].want[i])[res] \in Int
      BY <1>3, UnitsTyped DEF CoreInv
    <2>2. Diff(i, gor[g].want[i]) \in [Billed -> Int]
      BY <2>1 DEF Diff
    <2> QED BY <2>2 DEF Zero
  <1>5. 1 \in DOMAIN gor[g].todo /\ gor[g].todo[1] = i
    BY <1>2, <1>3, HeadTailProperties, SMT DEF Jobs
  <1> HIDE DEF i
  <1>6. /\ \A h \in Goroutines \ {g} : gor'[h] = gor[h]
        /\ gor'[g].todo = gor[g].todo /\ gor'[g].records = gor[g].records
        /\ gor'[g].want = gor[g].want /\ gor'[g].lm = gor[g].lm
        /\ gor'[g].diff = d /\ gor'[g].read
    BY <1>1, <1>2, <1>4, ReadJob DEF CoreInv
  <1>7. \A h \in Goroutines : Proper(gor'[h])
    <2> TAKE h \in Goroutines
    <2>1. Proper(gor[h])
      BY DEF JobInv
    <2>2. CASE h # g
      BY <1>6, <2>1, <2>2
    <2>3. CASE h = g
      BY <1>2, <1>6, <2>1, <2>3 DEF Proper
    <2> QED BY <2>2, <2>3
  <1>8. MineInv'
    <2> SUFFICES ASSUME mine # None, gor'[mine].todo # << >>
                 PROVE  gor'[mine].want = req /\ gor'[mine].lm = lm
      BY <1>2 DEF MineInv
    <2>1. mine \in Goroutines
      BY DEF CoreInv, RoundInv
    <2>2. gor'[mine].todo = gor[mine].todo /\ gor'[mine].want = gor[mine].want
          /\ gor'[mine].lm = gor[mine].lm
      BY <1>6, <2>1
    <2> QED BY <2>2 DEF JobInv, MineInv
  <1>9. DueInv'
    <2> SUFFICES ASSUME NEW x \in Instances, x \notin excused', due'[x] # {}
                 PROVE  /\ mine # None
                        /\ \A n \in DOMAIN gor'[mine].todo :
                              gor'[mine].todo[n] = x => n = 1 /\ gor'[mine].read
      BY <1>2 DEF DueInv
    <2>1. x \notin excused /\ due \in [Instances -> SUBSET Billed]
      BY <1>1 DEF CoreInv, LedgerTyped
    <2>2. CASE due[x] # {}
      <3>1. /\ mine # None
            /\ \A n \in DOMAIN gor[mine].todo : gor[mine].todo[n] = x => n = 1 /\ gor[mine].read
        BY <2>1, <2>2 DEF JobInv, DueInv
      <3>2. mine \in Goroutines
        BY <3>1 DEF CoreInv, RoundInv
      <3> QED BY <1>6, <3>1, <3>2
    <2>3. CASE due[x] = {}
      <3>1. x = i /\ {res \in Billed : d[res] # 0} # {}
        BY <1>1, <1>3, <2>1, <2>3
      <3>2. g = mine
        BY <1>1, <3>1
      <3>3. \A n \in DOMAIN gor[g].todo : gor[g].todo[n] = x => n = 1
        BY <1>5, <3>1 DEF JobInv, Proper
      <3>4. g # None
        BY UpdateAssumption
      <3> QED BY <1>6, <3>2, <3>3, <3>4
    <2> QED BY <2>2, <2>3
  <1> QED BY <1>7, <1>8, <1>9 DEF JobInv, Proper, Zero

LEMMA PriceJobs == ASSUME CoreInv, JobInv, NEW g \in Goroutines, Price(g) PROVE JobInv'
  <1> DEFINE t == gor[g].todo
  <1>1. /\ UNCHANGED <<req, mine, lm, due, excused>> /\ t # << >> /\ gor[g].read
    BY DEF Price, core, round, ledger
  <1>2. gor[g] \in Jobs /\ t \in Seq(Instances)
    BY DEF CoreInv, GorTyped, Jobs
  <1> HIDE DEF t
  <1>3. /\ Len(t) \in Nat /\ Tail(t) \in Seq(Instances) /\ Len(Tail(t)) = Len(t) - 1
        /\ \A n \in 1 .. Len(Tail(t)) : Tail(t)[n] = t[n + 1]
        /\ Head(t) = t[1] /\ Len(t) # 0
    BY <1>1, <1>2, HeadTailProperties, LenProperties, EmptySeq
  <1>4. /\ DOMAIN t = 1 .. Len(t) /\ DOMAIN Tail(t) = 1 .. Len(Tail(t)) /\ 1 \in DOMAIN t
        /\ \A n \in DOMAIN Tail(t) : n + 1 \in DOMAIN t /\ n + 1 # 1 /\ n \in Int
                                     /\ Tail(t)[n] = t[n + 1]
    BY <1>2, <1>3, LenProperties, SMT
  <1>5. /\ \A h \in Goroutines \ {g} : gor'[h] = gor[h]
        /\ gor'[g].todo = Tail(t)
        /\ gor'[g].records = gor[g].records \cup HeadBills(g)
        /\ gor'[g].want = gor[g].want /\ gor'[g].lm = gor[g].lm
        /\ gor'[g].diff = Zero /\ ~gor'[g].read
    BY PriceJob DEF CoreInv, t
  <1>6. \A rec \in HeadBills(g) : rec.inst = Head(t)
    BY DEF HeadBills, t
  <1>7. Proper(gor'[g])
    <2>1. \A m, n \in DOMAIN t : t[m] = t[n] => m = n
      BY DEF JobInv, Proper, t
    <2>2. \A n \in DOMAIN t, rec \in gor[g].records : rec.inst # t[n]
      BY DEF JobInv, Proper, t
    <2>3. \A m, n \in DOMAIN Tail(t) : Tail(t)[m] = Tail(t)[n] => m = n
      <3> SUFFICES ASSUME NEW m \in DOMAIN Tail(t), NEW n \in DOMAIN Tail(t),
                          Tail(t)[m] = Tail(t)[n]
                   PROVE  m = n
        OBVIOUS
      <3>1. m + 1 = n + 1 /\ m \in Int /\ n \in Int
        BY <1>4, <2>1
      <3> QED BY <3>1, SMT
    <2>4. \A n \in DOMAIN Tail(t) : Tail(t)[n] # Head(t)
      BY <1>3, <1>4, <2>1
    <2>5. \A n \in DOMAIN Tail(t), rec \in gor'[g].records : rec.inst # Tail(t)[n]
      BY <1>4, <1>5, <1>6, <2>2, <2>4
    <2> QED BY <1>5, <2>3, <2>5 DEF Proper
  <1>8. \A h \in Goroutines : Proper(gor'[h])
    BY <1>5, <1>7 DEF JobInv
  <1>9. MineInv'
    BY <1>1, <1>5 DEF JobInv, MineInv, CoreInv, RoundInv, t
  <1>10. DueInv'
    <2> SUFFICES ASSUME NEW x \in Instances, x \notin excused, due[x] # {}
                 PROVE  /\ mine # None
                        /\ \A n \in DOMAIN gor'[mine].todo :
                              gor'[mine].todo[n] = x => n = 1 /\ gor'[mine].read
      BY <1>1 DEF DueInv
    <2>1. /\ mine # None
          /\ \A n \in DOMAIN gor[mine].todo : gor[mine].todo[n] = x => n = 1 /\ gor[mine].read
      BY DEF JobInv, DueInv
    <2>2. mine \in Goroutines
      BY <2>1 DEF CoreInv, RoundInv
    <2>3. CASE mine # g
      BY <1>5, <2>1, <2>2, <2>3
    <2>4. CASE mine = g
      <3>1. \A n \in DOMAIN Tail(t) : Tail(t)[n] # x
        BY <1>4, <2>1, <2>4 DEF t
      <3> QED BY <1>5, <2>1, <2>4, <3>1
    <2> QED BY <2>3, <2>4
  <1> QED BY <1>8, <1>9, <1>10 DEF JobInv, Proper, Zero

LEMMA PublishJobs ==
    ASSUME CoreInv, JobInv, NEW g \in Goroutines, PublishRecords(g) PROVE JobInv'
  <1>1. UNCHANGED <<req, mine, lm, due, excused>> /\ gor' = [gor EXCEPT ![g] = NoWork]
    BY DEF PublishRecords, core, round
  <1>2. gor'[g] = NoWork /\ \A h \in Goroutines \ {g} : gor'[h] = gor[h]
    BY <1>1 DEF CoreInv, GorTyped
  <1>3. \A h \in Goroutines : Proper(gor'[h])
    BY <1>2, ProperStarts DEF JobInv
  <1>4. gor'[g].todo = << >> /\ DOMAIN gor'[g].todo = {}
    BY <1>2, ProperStarts, EmptySeq
  <1>5. MineInv'
    BY <1>1, <1>2, <1>4 DEF JobInv, MineInv, CoreInv, RoundInv
  <1>6. DueInv'
    <2> SUFFICES ASSUME NEW x \in Instances, x \notin excused, due[x] # {}
                 PROVE  /\ mine # None
                        /\ \A n \in DOMAIN gor'[mine].todo :
                              gor'[mine].todo[n] = x => n = 1 /\ gor'[mine].read
      BY <1>1 DEF DueInv
    <2>1. /\ mine # None
          /\ \A n \in DOMAIN gor[mine].todo : gor[mine].todo[n] = x => n = 1 /\ gor[mine].read
      BY DEF JobInv, DueInv
    <2>2. mine \in Goroutines
      BY <2>1 DEF CoreInv, RoundInv
    <2> QED BY <1>2, <1>4, <2>1, <2>2
  <1> QED BY <1>3, <1>5, <1>6 DEF JobInv, Proper, Zero

LEMMA CrashJobs == ASSUME CoreInv, JobInv, Crash PROVE JobInv'
  <1>1. /\ mine' = None /\ gor' = [g \in Goroutines |-> NoWork]
        /\ \A i \in Instances : due'[i] = {}
    BY DEF Crash
  <1>2. \A g \in Goroutines : Proper(gor'[g])
    BY <1>1, ProperStarts
  <1> QED BY <1>1, <1>2 DEF JobInv, MineInv, DueInv, Proper, Zero

LEMMA JobStep == ASSUME CoreInv, JobInv, [Next]_vars PROVE JobInv'
  <1>1. ASSUME NEW g \in Goroutines, Bill(g) PROVE JobInv'
    BY <1>1, ReadDiffJobs, PriceJobs, PublishJobs DEF Bill
  <1>2. ASSUME Update PROVE JobInv'
    BY <1>2, CheckJobs, LoopJobs, RenewJobs DEF Update
  <1> QED BY <1>1, <1>2, BeginJobs, OtherJobs, CrashJobs DEF Next

LEMMA JobInit == ASSUME Init PROVE JobInv
  <1>1. CoreInv
    BY CoreInit
  <1>2. \A g \in Goroutines : Proper(gor[g])
    BY <1>1, ProperStarts DEF Init
  <1>3. mine = None /\ \A i \in Instances : due[i] = {}
    BY DEF Init
  <1> QED BY <1>2, <1>3 DEF JobInv, MineInv, DueInv

\* The bills a goroutine has still to send: its records, and those that the
\* difference it has read will be.
Bills(g) == gor[g].records \cup IF gor[g].todo = << >> THEN {} ELSE HeadBills(g)

OwedBy(i, res, k) == [g \in Goroutines |-> UnitsOf(For(Bills(g), i, res), k)]
Owed(i, res, k)   == SumOf(OwedBy(i, res, k), Goroutines)

\* A difference that is billed, before the VM is changed.
Unmade(i, res, k) ==
    IF res \in due[i]
    THEN Units([units |-> Diff(i, req[i])[res], lm |-> lm[i], at |-> now], k) ELSE 0

\* What is charged and what is to be charged comes to what the VM had, or will
\* have when what is due is made; for a period in arrears, less what it has.
Sums(i, res, k) ==
    charged[i][res][k] + Owed(i, res, k) =
        Level(i, res, k) - (IF k > lm[i] THEN vm[i][res] ELSE 0) + Unmade(i, res, k)

BookInv == \A i \in Instances \ excused, res \in Billed, k \in Periods : Sums(i, res, k)

-----------------------------------------------------------------------------
(* The books.                                                               *)

LEMMA OwedTyped ==
    ASSUME GorTyped, NEW i, NEW res, NEW k
    PROVE  /\ OwedBy(i, res, k) \in [Goroutines -> Int] /\ Owed(i, res, k) \in Int
           /\ \A g \in Goroutines : IsFiniteSet(For(Bills(g), i, res))
           /\ \A g \in Goroutines : \A rec \in For(Bills(g), i, res) : Units(rec, k) \in Int
  <1>1. ASSUME NEW g \in Goroutines
        PROVE  /\ IsFiniteSet(For(Bills(g), i, res))
               /\ \A rec \in For(Bills(g), i, res) : Units(rec, k) \in Int
    <2>1. gor[g] \in Jobs /\ IsFiniteSet(gor[g].records)
      BY DEF GorTyped
    <2>2. IsFiniteSet(Bills(g))
      BY <2>1, HeadBillsTyped, FS_Union, FS_EmptySet DEF Bills
    <2>3. \A rec \in HeadBills(g) : rec.units \in Int
      BY <2>1 DEF HeadBills, Jobs
    <2>4. \A rec \in Bills(g) : rec.units \in Int
      BY <2>1, <2>3 DEF Bills, Jobs, Records
    <2> QED BY <2>2, <2>4, RecordUnits, FS_Subset DEF For
  <1>2. OwedBy(i, res, k) \in [Goroutines -> Int]
    <2>1. \A g \in Goroutines : UnitsOf(For(Bills(g), i, res), k) \in Int
      BY <1>1, UnitsSum
    <2> QED BY <2>1 DEF OwedBy
  <1>3. Owed(i, res, k) \in Int
    BY <1>2, SumInt, UpdateAssumption DEF Owed
  <1> QED BY <1>1, <1>2, <1>3

\* Bills that do not change are as much as before.
LEMMA OwedKept ==
    ASSUME NEW i, NEW res, NEW k,
           \A g \in Goroutines : For(Bills(g)', i, res) = For(Bills(g), i, res)
    PROVE  Owed(i, res, k)' = Owed(i, res, k)
  <1>1. OwedBy(i, res, k)' = OwedBy(i, res, k)
    BY DEF OwedBy, For
  <1> QED BY <1>1 DEF Owed, SumOf, SumUp

\* Of an instance with nothing pending there are no bills.
LEMMA NothingPending ==
    ASSUME GorTyped, NEW i \in Instances, ~Pending(i), NEW g \in Goroutines, NEW res
    PROVE  For(Bills(g), i, res) = {}
  <1>1. \A rec \in gor[g].records : rec.inst # i
    BY DEF Pending
  <1>2. ASSUME gor[g].todo # << >> PROVE \A rec \in HeadBills(g) : rec.inst # i
    <2>1. Head(gor[g].todo) # i \/ gor[g].diff = Zero
      BY <1>2 DEF Pending, Unpriced
    <2>2. gor[g].diff = Zero => HeadBills(g) = {}
      BY DEF HeadBills, Zero
    <2>3. \A rec \in HeadBills(g) : rec.inst = Head(gor[g].todo)
      BY DEF HeadBills
    <2> QED BY <2>1, <2>2, <2>3
  <1> QED BY <1>1, <1>2 DEF Bills, For

LEMMA NothingOwed ==
    ASSUME GorTyped, NEW i, NEW res, NEW k,
           \A g \in Goroutines : For(Bills(g), i, res) = {}
    PROVE  Owed(i, res, k) = 0
  <1>1. \A g \in Goroutines : UnitsOf(For(Bills(g), i, res), k) = 0
    BY OwedTyped, UnitsSum
  <1>2. OwedBy(i, res, k) \in [Goroutines -> {0}]
    BY <1>1 DEF OwedBy
  <1> QED BY <1>2, SumZeros, UpdateAssumption DEF Owed

\* The invariant gives what the run checks.
LEMMA BooksGiveSettled == ASSUME CoreInv, BookInv PROVE Settled
  <1> SUFFICES ASSUME NEW i \in Instances \ excused, ~Pending(i), due[i] = {},
                      NEW res \in Billed, NEW k \in Periods
               PROVE  charged[i][res][k] =
                         Level(i, res, k) - (IF k > lm[i] THEN vm[i][res] ELSE 0)
    BY DEF Settled
  <1>1. Owed(i, res, k) = 0
    BY NothingPending, NothingOwed DEF CoreInv
  <1>2. Unmade(i, res, k) = 0
    BY DEF Unmade
  <1>3. Sums(i, res, k)
    BY DEF BookInv
  <1>4. /\ charged[i][res][k] \in Int /\ Level(i, res, k) \in Int /\ vm[i][res] \in Int
    BY UnitsTyped DEF CoreInv, LedgerTyped, Level
  <1> DEFINE c == charged[i][res][k]
             a == Level(i, res, k)
             b == IF k > lm[i] THEN vm[i][res] ELSE 0
  <1>5. c \in Int /\ a \in Int /\ b \in Int /\ c + 0 = a - b + 0
    BY <1>1, <1>2, <1>3, <1>4 DEF Sums
  <1> HIDE DEF a, b, c
  <1>6. c = a - b
    BY <1>5, SMT
  <1> QED BY <1>6 DEF a, b, c

\* The difference in a resource depends on what the VM has of it.
LEMMA DiffKept ==
    ASSUME NEW i \in Instances, NEW res \in Billed, vm'[i][res] = vm[i][res], req'[i] = req[i]
    PROVE  Diff(i, req[i])'[res] = Diff(i, req[i])[res]
  <1>1. CASE res = "ips"
    <2>1. vm'[i].ips = vm[i].ips
      BY <1>1
    <2> QED BY <1>1, <2>1 DEF Diff, Sign
  <1>2. CASE res = "drive"
    <2>1. vm'[i].drive = vm[i].drive
      BY <1>2
    <2> QED BY <1>2, <2>1 DEF Diff, Sign
  <1> QED BY <1>1, <1>2 DEF Billed

\* A step that changes nothing that the books depend on keeps them right.
LEMMA SumsKept ==
    ASSUME NEW i \in Instances, NEW res \in Billed, NEW k, Sums(i, res, k),
           UNCHANGED <<charged, past, lm, now>>,
           \A g \in Goroutines : For(Bills(g)', i, res) = For(Bills(g), i, res),
           vm'[i][res] = vm[i][res], res \in due'[i] <=> res \in due[i],
           res \in due[i] => req'[i] = req[i]
    PROVE  Sums(i, res, k)'
  <1>1. Owed(i, res, k)' = Owed(i, res, k)
    BY OwedKept
  <1>2. Unmade(i, res, k)' = Unmade(i, res, k)
    BY DiffKept DEF Unmade, Units
  <1>3. Level(i, res, k)' = Level(i, res, k)
    BY DEF Level
  <1> QED BY <1>1, <1>2, <1>3 DEF Sums

LEMMA BookFrame ==
    ASSUME BookInv, UNCHANGED <<charged, past, lm, now>>, excused \subseteq excused',
           \A i \in Instances \ excused' : \A res \in Billed :
              /\ \A g \in Goroutines : For(Bills(g)', i, res) = For(Bills(g), i, res)
              /\ vm'[i][res] = vm[i][res]
              /\ res \in due'[i] <=> res \in due[i]
              /\ res \in due[i] => req'[i] = req[i]
    PROVE  BookInv'
  <1> SUFFICES ASSUME NEW i \in Instances \ excused', NEW res \in Billed, NEW k \in Periods
               PROVE  Sums(i, res, k)'
    BY DEF BookInv, Periods
  <1>1. Sums(i, res, k)
    BY DEF BookInv
  <1> QED BY <1>1, SumsKept

LEMMA BillsKept == ASSUME UNCHANGED gor, NEW g PROVE Bills(g)' = Bills(g)
  BY DEF Bills, HeadBills

LEMMA QuietBooks ==
    ASSUME CoreInv, JobInv, BookInv,
           \/ Begin \/ Read \/ FreeARs \/ Reserve \/ Poweroff \/ Wait
           \/ SetWant \/ StartVM \/ PoweredOff \/ UNCHANGED vars
    PROVE  BookInv'
  <1> USE DEF Go, NextInstance, one, core, ledger, round
  <1>1. UNCHANGED <<charged, past, lm, now, excused, due, gor, vm>>
    BY DEF Begin, Read, FreeARs, Reserve, Poweroff, Wait, SetWant, StartVM, PoweredOff, vars
  <1>2. UNCHANGED req \/ Begin
    BY DEF Read, FreeARs, Reserve, Poweroff, Wait, SetWant, StartVM, PoweredOff, vars
  <1>3. Begin => \A i \in Instances \ excused : due[i] = {}
    BY NoneDue DEF Begin, CoreInv, RoundInv
  <1>4. \A i \in Instances \ excused : \A res \in due[i] : req'[i] = req[i]
    BY <1>2, <1>3
  <1> QED BY <1>1, <1>4, BillsKept, BookFrame

LEMMA ResizeBooks == ASSUME CoreInv, BookInv, Resize PROVE BookInv'
  <1>1. UNCHANGED <<charged, past, lm, now, excused, due, gor, req>> /\ pc \notin Between
    BY DEF Resize, Go, core, ledger, Between
  <1>2. \A i \in Instances, res \in Billed : vm'[i][res] = vm[i][res]
    <2>1. vm \in [Instances -> Resources]
      BY DEF CoreInv, OneTyped
    <2>2. UNCHANGED vm \/ vm' = [vm EXCEPT ![Inst].size = Wanted.size]
      BY DEF Resize
    <2>3. \A i \in Instances : vm'[i].ips = vm[i].ips /\ vm'[i].drive = vm[i].drive
      BY <2>1, <2>2 DEF Resources
    <2> QED BY <2>3 DEF Billed
  <1> QED BY <1>1, <1>2, BillsKept, BookFrame

LEMMA CheckBooks == ASSUME CoreInv, BookInv, Check PROVE BookInv'
  <1>1. UNCHANGED <<charged, past, lm, now, excused, due, vm, req>>
    BY DEF Check, one, core, ledger
  <1>2. ASSUME NEW g \in Goroutines PROVE Bills(g)' = Bills(g)
    <2>1. CASE UNCHANGED gor
      BY <2>1, BillsKept
    <2>2. CASE ~UNCHANGED gor
      <3>1. PICK some \in SUBSET Differing, h \in Goroutines :
               /\ todo' \in InOrder(some) /\ some # {}
               /\ gor[h].todo = << >> /\ gor[h].records = {}
               /\ gor' = [gor EXCEPT ![h] = Started(todo', req, lm)]
        BY <2>2 DEF Check, Started
      <3>2. gor \in [Goroutines -> Jobs]
        BY DEF CoreInv, GorTyped
      <3>3. CASE g # h
        BY <3>1, <3>2, <3>3 DEF Bills, HeadBills
      <3>4. CASE g = h
        <4> DEFINE j == Started(todo', req, lm)
        <4>1. todo' \in Seq(Instances)
          BY <3>1, InOrderFacts DEF Differing
        <4>2. req \in [Instances -> Resources] /\ lm \in [Instances -> 0 .. MaxTime] /\ CoreTyped
          BY DEF Check, CoreInv, RoundInv, CoreTyped
        <4>3. j.records = {} /\ j.diff = Zero
          BY <4>1, <4>2, StartedTyped
        <4> HIDE DEF j
        <4>4. gor'[g] = j
          BY <3>1, <3>2, <3>4 DEF j
        <4>5. \A b \in Billed : gor'[g].diff[b] = 0
          BY <4>3, <4>4 DEF Zero
        <4>6. HeadBills(g)' = {}
          BY <4>5 DEF HeadBills, Billed
        <4>7. Bills(g)' = {} /\ Bills(g) = {}
          BY <3>1, <3>4, <4>3, <4>4, <4>6 DEF Bills
        <4> QED BY <4>7
      <3> QED BY <3>3, <3>4
    <2> QED BY <2>1, <2>2
  <1> QED BY <1>1, <1>2, BookFrame

LEMMA BookInts ==
    ASSUME CoreInv, NEW i \in Instances, NEW res \in Billed, NEW k \in Periods
    PROVE  /\ charged[i][res][k] \in Int /\ past[i][res][k] \in Int /\ vm[i][res] \in Int
           /\ Owed(i, res, k) \in Int /\ lm[i] \in Int /\ now \in Int /\ k \in Int
  <1>1. charged[i][res][k] \in Int /\ past[i][res][k] \in Int
    BY DEF CoreInv, LedgerTyped
  <1>2. vm[i][res] \in Int
    BY UnitsTyped DEF CoreInv
  <1>3. Owed(i, res, k) \in Int
    BY OwedTyped DEF CoreInv
  <1>4. MaxTime \in Int
    BY UpdateAssumption
  <1>5. lm[i] \in 0 .. MaxTime /\ now \in 1 .. MaxTime /\ k \in 1 .. MaxTime
    BY DEF CoreInv, CoreTyped, Periods
  <1>6. lm[i] \in Int /\ now \in Int /\ k \in Int
    BY <1>4, <1>5, SMT
  <1> QED BY <1>1, <1>2, <1>3, <1>6

\* A change is what was billed, and makes it.
LEMMA ChangedBooks ==
    ASSUME CoreInv, JobInv, BookInv, pc \notin Between, UNCHANGED <<core, gor, req>>,
           NEW what \in Billed, NEW n \in Int, Changed(what, n),
           n = Diff(Head(todo), req[Head(todo)])[what]
    PROVE  BookInv'
  <1> DEFINE x == Head(todo)
  <1>1. /\ vm' = [vm EXCEPT ![x][what] = @ + n] /\ due' = [due EXCEPT ![x] = @ \ {what}]
        /\ excused' = IF what \notin due[x] THEN excused \cup {x} ELSE excused
        /\ UNCHANGED <<charged, past>>
    BY DEF Changed, Inst
  <1>2. x \in Instances /\ vm \in [Instances -> Resources] /\ due \in [Instances -> SUBSET Billed]
    BY InstFacts DEF CoreInv, OneTyped, LedgerTyped
  <1> HIDE DEF x
  <1>3. UNCHANGED <<lm, now>>
    BY DEF core
  <1> SUFFICES ASSUME NEW i \in Instances \ excused', NEW res \in Billed, NEW k \in Periods
               PROVE  Sums(i, res, k)'
    BY <1>3 DEF BookInv, Periods
  <1>4. i \notin excused /\ Sums(i, res, k)
    BY <1>1 DEF BookInv
  <1>5. CASE i # x
    <2>1. vm'[i] = vm[i] /\ due'[i] = due[i]
      BY <1>1, <1>2, <1>5
    <2> QED BY <1>1, <1>3, <1>4, <2>1, BillsKept, SumsKept
  <1>6. CASE i = x /\ res # what
    <2>1. vm'[i] = [vm[i] EXCEPT ![what] = @ + n] /\ due'[i] = due[i] \ {what}
      BY <1>1, <1>2, <1>6
    <2>2. vm'[i][res] = vm[i][res]
      <3>1. vm[i] \in Resources
        BY <1>2
      <3>2. (what = "ips" /\ res = "drive") \/ (what = "drive" /\ res = "ips")
        BY <1>6 DEF Billed
      <3> QED BY <2>1, <3>1, <3>2 DEF Resources
    <2> QED BY <1>1, <1>3, <1>4, <1>6, <2>1, <2>2, BillsKept, SumsKept
  <1>7. CASE i = x /\ res = what
    <2>1. what \in due[x]
      BY <1>1, <1>7
    <2>2. vm'[i][res] = vm[i][res] + n
      <3>1. vm[i] \in Resources
        BY <1>2
      <3>2. vm'[i] = [vm[i] EXCEPT ![what] = @ + n]
        BY <1>1, <1>2, <1>7
      <3>3. res = "ips" \/ res = "drive"
        BY DEF Billed
      <3> QED BY <1>7, <3>1, <3>2, <3>3 DEF Resources
    <2>3. Owed(i, res, k)' = Owed(i, res, k)
      BY BillsKept, OwedKept
    <2>4. Unmade(i, res, k) = Units([units |-> n, lm |-> lm[i], at |-> now], k)
      BY <1>7, <2>1 DEF Unmade, x
    <2>5. Unmade(i, res, k)' = 0
      <3>1. res \notin due'[i]
        BY <1>1, <1>2, <1>7
      <3> QED BY <3>1 DEF Unmade
    <2>6. /\ charged[i][res][k] \in Int /\ past[i][res][k] \in Int /\ vm[i][res] \in Int
          /\ Owed(i, res, k) \in Int /\ lm[i] \in Int /\ now \in Int /\ k \in Int
      BY BookInts
    <2> DEFINE c == charged[i][res][k] + Owed(i, res, k)
               p == past[i][res][k]
               v == vm[i][res]
               l == lm[i]
    <2>7. c \in Int
      BY <2>6
    <2>8. c = (IF k < now THEN past[i][res][k] ELSE vm[i][res])
                - (IF k > lm[i] THEN vm[i][res] ELSE 0)
                + Units([units |-> n, lm |-> lm[i], at |-> now], k)
      BY <1>4, <2>4 DEF Sums, Level
    <2>9. c = (IF k < now THEN past[i][res][k] ELSE vm[i][res] + n)
                - (IF k > lm[i] THEN vm[i][res] + n ELSE 0) + 0
      <3>1. p \in Int /\ v \in Int /\ l \in Int
        BY <2>6
      <3>2. c = (IF k < now THEN p ELSE v) - (IF k > l THEN v ELSE 0)
                  + Units([units |-> n, lm |-> l, at |-> now], k)
        BY <2>8
      <3> HIDE DEF c, p, v, l
      <3>3. c = (IF k < now THEN p ELSE v + n) - (IF k > l THEN v + n ELSE 0) + 0
        <4>1. Units([units |-> n, lm |-> l, at |-> now], k) =
                 IF k >= now /\ k <= l THEN n ELSE IF k > l /\ k < now THEN -n ELSE 0
          BY DEF Units
        <4>2. /\ c \in Int /\ n \in Int /\ k \in Int /\ now \in Int
              /\ c = (IF k < now THEN p ELSE v) - (IF k > l THEN v ELSE 0)
                       + (IF k >= now /\ k <= l THEN n
                          ELSE IF k > l /\ k < now THEN -n ELSE 0)
          BY <2>6, <2>7, <3>2, <4>1
        <4> QED BY <3>1, <4>2, SMT
      <3> QED BY <3>3 DEF p, v, l
    <2>10. charged'[i][res][k] + Owed(i, res, k)' = c
      BY <1>1, <2>3
    <2>11. Level(i, res, k)' = IF k < now THEN past[i][res][k] ELSE vm[i][res] + n
      BY <1>1, <1>3, <2>2 DEF Level
    <2> HIDE DEF c
    <2> QED BY <1>3, <2>2, <2>5, <2>9, <2>10, <2>11 DEF Sums
  <1> QED BY <1>5, <1>6, <1>7

\* The loop's other outcomes leave the books alone.
LEMMA StillBooks ==
    ASSUME BookInv, UNCHANGED <<vm, ledger, core, gor, req>> PROVE BookInv'
  BY BillsKept, BookFrame DEF ledger, core

LEMMA NICBooks == ASSUME CoreInv, JobInv, BookInv, Attach \/ Detach PROVE BookInv'
  <1> DEFINE x == Head(todo)
             n == IF pc = "attach" THEN 1 ELSE -1
  <1>1. pc \in {"attach", "detach"} /\ UNCHANGED <<core, gor, req>>
    BY DEF Attach, Detach, Go
  <1>2. UNCHANGED <<vm, ledger>> \/ Changed("ips", n)
    BY DEF Attach, Detach, one
  <1>3. pc \notin Between /\ pc \in Busy /\ pc \in Address
    BY <1>1 DEF Between, Busy, Address
  <1>4. n = Diff(x, req[x])["ips"]
    <2>1. /\ vm[x].ips \in Nat /\ req[x].ips \in Nat
          /\ pc = "attach" => vm[x].ips < req[x].ips
          /\ pc = "detach" => vm[x].ips > req[x].ips
      BY <1>3, InstFacts DEF SeenInv, Resources
    <2>2. Diff(x, req[x])["ips"] = Sign(req[x].ips - vm[x].ips)
      BY DEF Diff, Billed
    <2> HIDE DEF x
    <2>3. CASE pc = "attach"
      BY <2>1, <2>2, <2>3, SMT DEF Sign
    <2>4. CASE pc = "detach"
      BY <2>1, <2>2, <2>4, SMT DEF Sign
    <2> QED BY <1>1, <2>3, <2>4
  <1>5. n \in Int /\ "ips" \in Billed
    BY DEF Billed
  <1> HIDE DEF n
  <1>6. CASE Changed("ips", n)
    BY <1>1, <1>3, <1>4, <1>5, <1>6, ChangedBooks
  <1> QED BY <1>1, <1>2, <1>6, StillBooks

LEMMA DriveBooks == ASSUME CoreInv, JobInv, BookInv, ResizeDrive PROVE BookInv'
  <1> DEFINE x == Head(todo)
             more == req[x].drive - seen.vm.drive
  <1>1. pc = "drive" /\ UNCHANGED <<core, gor, req>>
    BY DEF ResizeDrive, NextInstance
  <1>2. UNCHANGED <<vm, ledger>> \/ Changed("drive", more)
    BY DEF ResizeDrive, Wanted, Inst
  <1>3. pc \notin Between /\ pc \in Busy
    BY <1>1 DEF Between, Busy
  <1>4. more = Diff(x, req[x])["drive"] /\ more \in Int /\ "drive" \in Billed
    BY <1>3, InstFacts DEF SeenInv, Diff, Billed, Resources
  <1> HIDE DEF more
  <1>5. CASE Changed("drive", more)
    BY <1>1, <1>3, <1>4, <1>5, ChangedBooks
  <1> QED BY <1>1, <1>2, <1>5, StillBooks

LEMMA PrivateBooks == ASSUME CoreInv, BookInv, PrivateNIC PROVE BookInv'
  <1>1. pc = "private" /\ UNCHANGED <<core, gor, req>>
    BY DEF PrivateNIC, Go
  <1>2. UNCHANGED <<vm, ledger>> \/ \E n : Changed("private", n)
    BY DEF PrivateNIC, one
  <1>3. CASE \E n : Changed("private", n)
    <2>1. PICK n : Changed("private", n)
      BY <1>3
    <2>2. /\ vm' = [vm EXCEPT ![Inst]["private"] = @ + n]
          /\ UNCHANGED <<charged, past, due, excused>>
      BY <2>1 DEF Changed, Billed
    <2>3. vm \in [Instances -> Resources]
      BY DEF CoreInv, OneTyped
    <2>4. \A i \in Instances : vm'[i].ips = vm[i].ips /\ vm'[i].drive = vm[i].drive
      BY <2>2, <2>3 DEF Resources
    <2>5. \A i \in Instances, res \in Billed : vm'[i][res] = vm[i][res]
      BY <2>4 DEF Billed
    <2> QED BY <1>1, <2>2, <2>5, BillsKept, BookFrame DEF core
  <1> QED BY <1>1, <1>2, <1>3, StillBooks

\* A period that ends was level with what the VM had.
LEMMA TickBooks == ASSUME CoreInv, BookInv, Tick PROVE BookInv'
  <1>1. /\ now' = now + 1 /\ excused' = excused \cup {i \in Instances : due[i] # {}}
        /\ past' = [i \in Instances |-> [res \in Billed |->
                      [past[i][res] EXCEPT ![now] = vm[i][res]]]]
        /\ UNCHANGED <<vm, lm, gor, charged, due>>
    BY DEF Tick, one
  <1> SUFFICES ASSUME NEW i \in Instances \ excused', NEW res \in Billed, NEW k \in Periods
               PROVE  Sums(i, res, k)'
    BY DEF BookInv, Periods
  <1>2. Sums(i, res, k) /\ due[i] = {}
    BY <1>1 DEF BookInv
  <1>3. Owed(i, res, k)' = Owed(i, res, k)
    BY <1>1, BillsKept, OwedKept
  <1>4. Unmade(i, res, k)' = 0 /\ Unmade(i, res, k) = 0
    BY <1>1, <1>2 DEF Unmade
  <1>5. Level(i, res, k)' = Level(i, res, k)
    <2>1. now \in Periods /\ past[i][res] \in [Periods -> Nat]
      BY DEF CoreInv, CoreTyped, LedgerTyped
    <2>2. past'[i][res] = [past[i][res] EXCEPT ![now] = vm[i][res]]
      BY <1>1
    <2>3. past'[i][res][k] = IF k = now THEN vm[i][res] ELSE past[i][res][k]
      BY <2>1, <2>2
    <2>4. now \in Int /\ k \in Int
      BY BookInts
    <2>5. k < now + 1 <=> (k < now \/ k = now)
      BY <2>4, SMT
    <2>6. ~(now < now)
      BY <2>4, SMT
    <2> QED BY <1>1, <2>3, <2>5, <2>6 DEF Level
  <1> QED BY <1>1, <1>2, <1>3, <1>4, <1>5 DEF Sums

\* Nothing is due of an instance that a crash excuses no more than before, and no
\* bill of it is lost.
LEMMA CrashBooks == ASSUME CoreInv, BookInv, Crash PROVE BookInv'
  <1>1. /\ gor' = [g \in Goroutines |-> NoWork]
        /\ excused' = excused \cup {i \in Instances : due[i] # {} \/ Pending(i)}
        /\ due' = [i \in Instances |-> {}]
        /\ UNCHANGED <<vm, lm, now, charged, past>>
    BY DEF Crash, one, core
  <1>2. ASSUME NEW g \in Goroutines PROVE Bills(g)' = {}
    <2>1. gor'[g].todo = << >> /\ gor'[g].records = {}
      BY <1>1, NoWorkTyped DEF CoreInv
    <2> QED BY <2>1 DEF Bills
  <1>3. ASSUME NEW i \in Instances \ excused', NEW res \in Billed
        PROVE  /\ \A g \in Goroutines : For(Bills(g)', i, res) = For(Bills(g), i, res)
               /\ vm'[i][res] = vm[i][res]
               /\ res \in due'[i] <=> res \in due[i]
               /\ res \in due[i] => req'[i] = req[i]
    <2>1. due[i] = {} /\ ~Pending(i)
      BY <1>1
    <2>2. \A g \in Goroutines : For(Bills(g), i, res) = {}
      BY <2>1, NothingPending DEF CoreInv
    <2>3. \A g \in Goroutines : For(Bills(g)', i, res) = {}
      BY <1>2 DEF For
    <2> QED BY <1>1, <2>1, <2>2, <2>3
  <1> QED BY <1>1, <1>3, BookFrame

\* A difference becomes records.
LEMMA PriceBooks ==
    ASSUME CoreInv, BookInv, NEW g \in Goroutines, Price(g) PROVE BookInv'
  <1>1. UNCHANGED <<vm, lm, now, charged, past, due, excused, req>> /\ gor[g].todo # << >>
    BY DEF Price, one, core, ledger, round
  <1>2. /\ \A h \in Goroutines \ {g} : gor'[h] = gor[h]
        /\ gor'[g].records = gor[g].records \cup HeadBills(g)
        /\ gor'[g].diff = Zero
    BY PriceJob DEF CoreInv
  <1>3. ASSUME NEW h \in Goroutines PROVE Bills(h)' = Bills(h)
    <2>1. CASE h = g
      <3>1. \A b \in Billed : gor'[g].diff[b] = 0
        BY <1>2 DEF Zero
      <3>2. HeadBills(g)' = {}
        BY <3>1 DEF HeadBills, Billed
      <3> QED BY <1>1, <1>2, <2>1, <3>2 DEF Bills
    <2>2. CASE h # g
      BY <1>2, <2>2 DEF Bills, HeadBills
    <2> QED BY <2>1, <2>2
  <1> QED BY <1>1, <1>3, BookFrame

\* What a renewal charges is what it does not leave to be charged.
LEMMA RenewBooks == ASSUME CoreInv, BookInv, Renew PROVE BookInv'
  <1>1. PICK to \in {lm, [i \in Instances |-> now]} :
          /\ lm' = to
          /\ charged' = [i \in Instances |-> [res \in Billed |-> [k \in Periods |->
                charged[i][res][k] +
                    IF i \notin excused /\ k > lm[i] /\ k <= to[i]
                    THEN vm[i][res] ELSE 0]]]
          /\ gor' = IF mine = None THEN gor ELSE [gor EXCEPT ![mine].lm = to]
    BY DEF Renew
  <1>2. /\ excused' = excused \cup {i \in Instances : due[i] # {} \/ Unpriced(i)}
        /\ due' = [i \in Instances |-> {}]
        /\ UNCHANGED <<vm, now, past>>
    BY DEF Renew, one
  <1>3. \A g \in Goroutines : /\ gor'[g].records = gor[g].records /\ gor'[g].todo = gor[g].todo
                              /\ gor'[g].diff = gor[g].diff
    <2>1. CASE mine = None
      BY <1>1, <2>1
    <2>2. CASE mine # None
      <3>1. /\ gor' = [gor EXCEPT ![mine].lm = to]
            /\ mine \in Goroutines /\ gor \in [Goroutines -> Jobs]
        BY <1>1, <2>2 DEF CoreInv, RoundInv, GorTyped
      <3> QED BY <3>1 DEF Jobs
    <2> QED BY <2>1, <2>2
  <1> SUFFICES ASSUME NEW i \in Instances \ excused', NEW res \in Billed, NEW k \in Periods
               PROVE  Sums(i, res, k)'
    BY DEF BookInv, Periods
  <1>4. Sums(i, res, k) /\ i \notin excused /\ due[i] = {} /\ ~Unpriced(i)
    BY <1>2 DEF BookInv
  <1>5. ASSUME NEW g \in Goroutines PROVE For(Bills(g)', i, res) = For(Bills(g), i, res)
    <2>1. gor[g].todo = << >> \/ Head(gor[g].todo) # i \/ \A b \in Billed : gor[g].diff[b] = 0
      BY <1>4 DEF Unpriced, Zero
    <2>2. gor[g].todo = << >> \/ \A rec \in HeadBills(g) : rec.inst # i
      BY <2>1 DEF HeadBills
    <2>3. gor'[g].todo = << >> \/ \A rec \in HeadBills(g)' : rec.inst # i
      BY <1>3, <2>1 DEF HeadBills, Billed
    <2> QED BY <1>3, <2>2, <2>3 DEF Bills, For
  <1>6. Owed(i, res, k)' = Owed(i, res, k)
    BY <1>5, OwedKept
  <1>7. Unmade(i, res, k)' = 0 /\ Unmade(i, res, k) = 0
    BY <1>2, <1>4 DEF Unmade
  <1>8. Level(i, res, k)' = Level(i, res, k)
    BY <1>2 DEF Level
  <1>9. to[i] \in Int /\ lm[i] <= to[i]
    <2>1. lm[i] \in Int /\ now \in Int /\ lm[i] <= now
      BY BookInts DEF CoreInv, CoreTyped
    <2>2. lm[i] <= lm[i]
      BY <2>1, SMT
    <2> QED BY <2>1, <2>2
  <1> DEFINE c == charged[i][res][k]
             o == Owed(i, res, k)
             a == Level(i, res, k)
             v == vm[i][res]
             l == lm[i]
             t == to[i]
  <1>10. charged'[i][res][k] = c + IF k > l /\ k <= t THEN v ELSE 0
    BY <1>1, <1>4
  <1>11. c \in Int /\ o \in Int /\ a \in Int /\ v \in Int /\ l \in Int /\ t \in Int /\ k \in Int
    BY <1>9, BookInts DEF Level
  <1>12. c + o = a - (IF k > l THEN v ELSE 0) + 0
    BY <1>4, <1>7 DEF Sums
  <1>13. l <= t
    BY <1>9
  <1> HIDE DEF c, o, a, v, l, t
  <1>14. (c + (IF k > l /\ k <= t THEN v ELSE 0)) + o = a - (IF k > t THEN v ELSE 0) + 0
    BY <1>11, <1>12, <1>13, SMT
  <1>15. /\ charged'[i][res][k] + Owed(i, res, k)' = (c + (IF k > l /\ k <= t THEN v ELSE 0)) + o
         /\ Level(i, res, k)' = a /\ lm'[i] = t /\ vm'[i][res] = v
    BY <1>1, <1>2, <1>6, <1>8, <1>10 DEF o, a, v, t
  <1> QED BY <1>7, <1>14, <1>15 DEF Sums

\* One goroutine's bills change: so much more is owed, or less.
LEMMA OwedChange ==
    ASSUME GorTyped, NEW g \in Goroutines, NEW i, NEW res, NEW k, NEW u \in Int,
           \A h \in Goroutines \ {g} : For(Bills(h)', i, res) = For(Bills(h), i, res),
           UnitsOf(For(Bills(g)', i, res), k) = u
    PROVE  /\ UnitsOf(For(Bills(g), i, res), k) \in Int
           /\ Owed(i, res, k)' = Owed(i, res, k) + (u - UnitsOf(For(Bills(g), i, res), k))
  <1> DEFINE w == OwedBy(i, res, k)
             v == [h \in Goroutines |-> UnitsOf(For(Bills(h)', i, res), k)]
  <1>1. w \in [Goroutines -> Int]
    BY OwedTyped
  <1>2. /\ \A h \in Goroutines : w[h] = UnitsOf(For(Bills(h), i, res), k)
        /\ \A h \in Goroutines \ {g} : v[h] = w[h]
        /\ v[g] = u
    BY DEF OwedBy
  <1>3. v = OwedBy(i, res, k)'
    BY DEF OwedBy, For
  <1>4. Owed(i, res, k) = SumOf(w, Goroutines)
    BY DEF Owed
  <1>5. Owed(i, res, k)' = SumOf(v, Goroutines)
    <2> HIDE DEF v
    <2> QED BY <1>3 DEF Owed, SumOf, SumUp
  <1>6. v \in [Goroutines -> Int]
    BY <1>1, <1>2
  <1> HIDE DEF w, v
  <1>7. SumOf(v, Goroutines) = SumOf(w, Goroutines) + (v[g] - w[g])
    BY <1>1, <1>2, <1>6, SumChange, UpdateAssumption
  <1> QED BY <1>1, <1>2, <1>4, <1>5, <1>7

\* What is sent was owed.
LEMMA PublishBooks ==
    ASSUME CoreInv, BookInv, NEW g \in Goroutines, PublishRecords(g) PROVE BookInv'
  <1>1. /\ UNCHANGED <<vm, lm, now, past, due, excused, req>>
        /\ gor[g].todo = << >> /\ gor' = [gor EXCEPT ![g] = NoWork]
        /\ charged' = [i \in Instances |-> [res \in Billed |-> [k \in Periods |->
              IF i \in excused THEN charged[i][res][k]
              ELSE charged[i][res][k] + UnitsOf(For(gor[g].records, i, res), k)]]]
    BY DEF PublishRecords, UnitsOf, For, one, core, round
  <1>2. gor'[g] = NoWork /\ \A h \in Goroutines \ {g} : gor'[h] = gor[h]
    BY <1>1 DEF CoreInv, GorTyped
  <1>3. Bills(g) = gor[g].records
    BY <1>1 DEF Bills
  <1>4. Bills(g)' = {}
    <2>1. gor'[g].todo = << >> /\ gor'[g].records = {}
      BY <1>2, NoWorkTyped DEF CoreInv
    <2> QED BY <2>1 DEF Bills
  <1> SUFFICES ASSUME NEW i \in Instances \ excused, NEW res \in Billed, NEW k \in Periods
               PROVE  Sums(i, res, k)'
    BY <1>1 DEF BookInv, Periods
  <1> DEFINE c == charged[i][res][k]
             o == Owed(i, res, k)
             u == UnitsOf(For(Bills(g), i, res), k)
  <1>5. UnitsOf(For(Bills(g)', i, res), k) = 0
    <2>1. For(Bills(g)', i, res) = {}
      BY <1>4 DEF For
    <2> QED BY <2>1, UnitsSum, FS_EmptySet
  <1>6. \A h \in Goroutines \ {g} : For(Bills(h)', i, res) = For(Bills(h), i, res)
    BY <1>2 DEF Bills, HeadBills
  <1>7. u \in Int /\ Owed(i, res, k)' = o + (0 - u)
    BY <1>5, <1>6, OwedChange DEF CoreInv
  <1>8. charged'[i][res][k] = c + u
    BY <1>1, <1>3
  <1>9. c \in Int /\ o \in Int
    BY BookInts
  <1> HIDE DEF c, o, u
  <1>10. (c + u) + (o + (0 - u)) = c + o
    BY <1>7, <1>9, SMT
  <1>11. Sums(i, res, k) /\ charged'[i][res][k] + Owed(i, res, k)' = c + o
    BY <1>7, <1>8, <1>10 DEF BookInv
  <1>12. Unmade(i, res, k)' = Unmade(i, res, k)
    BY <1>1, DiffKept DEF Unmade, Units
  <1>13. Level(i, res, k)' = Level(i, res, k)
    BY <1>1 DEF Level
  <1> QED BY <1>1, <1>11, <1>12, <1>13 DEF Sums, c, o

\* A difference that is read is billed and due at once.
LEMMA ReadDiffBooks ==
    ASSUME CoreInv, JobInv, BookInv, NEW g \in Goroutines, ReadDiff(g) PROVE BookInv'
  <1> DEFINE x == Head(gor[g].todo)
  <1>1. PICK d \in {Diff(x, gor[g].want[x]), Zero} :
          LET more == {res \in Billed : d[res] # 0} IN
          /\ gor' = [gor EXCEPT ![g].diff = d, ![g].read = TRUE,
                                ![g].at = IF @ = 0 THEN now ELSE @]
          /\ due' = [due EXCEPT ![x] = @ \cup more]
          /\ excused' = IF more # {} /\ (g # mine \/ gor[g].at \notin {0, now})
                        THEN excused \cup {x} ELSE excused
    BY DEF ReadDiff
  <1>2. /\ UNCHANGED <<vm, req, mine, lm, now, charged, past>>
        /\ gor[g].todo # << >> /\ ~gor[g].read /\ now \in Periods
    BY DEF ReadDiff, one, core, round, CoreInv, CoreTyped
  <1>3. gor[g] \in Jobs /\ x \in Instances /\ gor[g].want[x] \in Resources
    <2>1. gor[g] \in Jobs
      BY DEF CoreInv, GorTyped
    <2>2. gor[g].todo \in Seq(Instances) /\ gor[g].want \in [Instances -> Resources]
      BY <2>1 DEF Jobs
    <2> QED BY <1>2, <2>1, <2>2, HeadTailProperties
  <1>4. d \in [Billed -> Int]
    <2>1. \A res \in Billed : Diff(x, gor[g].want[x])[res] \in Int
      BY <1>3, UnitsTyped DEF CoreInv
    <2>2. Diff(x, gor[g].want[x]) \in [Billed -> Int]
      BY <2>1 DEF Diff
    <2> QED BY <2>2 DEF Zero
  <1>5. 1 \in DOMAIN gor[g].todo /\ gor[g].todo[1] = x
    BY <1>2, <1>3, HeadTailProperties, SMT DEF Jobs
  <1>6. HeadBills(g) = {}
    <2>1. gor[g].diff = Zero
      BY <1>2 DEF JobInv, Proper
    <2> QED BY <2>1 DEF HeadBills, Zero
  <1>7. /\ \A h \in Goroutines \ {g} : gor'[h] = gor[h]
        /\ gor'[g].todo = gor[g].todo /\ gor'[g].records = gor[g].records
        /\ gor'[g].lm = gor[g].lm /\ gor'[g].diff = d
        /\ gor'[g].at = IF gor[g].at = 0 THEN now ELSE gor[g].at
    BY <1>1, <1>2, <1>4, ReadJob DEF CoreInv
  <1> DEFINE rec(b) == [inst |-> x, res |-> b, units |-> d[b],
                        lm |-> gor[g].lm[x], at |-> gor'[g].at]
  <1>8. HeadBills(g)' = {rec(b) : b \in {b \in Billed : d[b] # 0}}
    BY <1>7 DEF HeadBills, Billed
  <1>9. Bills(g) = gor[g].records /\ Bills(g)' = gor[g].records \cup HeadBills(g)'
    BY <1>2, <1>6, <1>7 DEF Bills
  <1>10. due \in [Instances -> SUBSET Billed]
    BY DEF CoreInv, LedgerTyped
  <1> HIDE DEF x
  <1> SUFFICES ASSUME NEW i \in Instances \ excused', NEW res \in Billed, NEW k \in Periods
               PROVE  Sums(i, res, k)'
    BY DEF BookInv, Periods
  <1>11. i \notin excused /\ Sums(i, res, k)
    BY <1>1 DEF BookInv
  <1>12. \A h \in Goroutines \ {g} : For(Bills(h)', i, res) = For(Bills(h), i, res)
    BY <1>7 DEF Bills, HeadBills
  <1>13. CASE i # x \/ d[res] = 0
    <2>1. For(Bills(g)', i, res) = For(Bills(g), i, res)
      <3>1. \A r \in HeadBills(g)' : r.inst # i \/ r.res # res
        BY <1>8, <1>13
      <3> QED BY <1>9, <3>1 DEF For
    <2>2. res \in due'[i] <=> res \in due[i]
      BY <1>1, <1>3, <1>10, <1>13
    <2>3. \A h \in Goroutines : For(Bills(h)', i, res) = For(Bills(h), i, res)
      BY <1>12, <2>1
    <2> QED BY <1>2, <1>11, <2>2, <2>3, SumsKept
  <1>14. CASE i = x /\ d[res] # 0
    <2>1. g = mine /\ gor[g].at \in {0, now}
      BY <1>1, <1>14
    <2>2. gor'[g].at = now
      BY <1>7, <2>1
    <2>3. d = Diff(x, req[x]) /\ gor[g].lm = lm
      <3>1. gor[g].want = req /\ gor[g].lm = lm
        BY <1>2, <2>1, UpdateAssumption DEF JobInv, MineInv
      <3>2. d # Zero
        BY <1>14 DEF Zero
      <3> QED BY <3>1, <3>2
    <2>4. due[x] = {}
      BY <1>2, <1>5, <1>11, <1>14, <2>1 DEF JobInv, DueInv
    <2>5. res \in due'[x]
      BY <1>1, <1>3, <1>10, <1>14
    <2>6. For(Bills(g), i, res) = {}
      <3>1. \A r \in gor[g].records : r.inst # x
        BY <1>5 DEF JobInv, Proper
      <3> QED BY <1>9, <1>14, <3>1 DEF For
    <2> DEFINE r == rec(res)
    <2>7. For(Bills(g)', i, res) = {r}
      <3>1. \A q \in gor[g].records : q.inst # x
        BY <1>5 DEF JobInv, Proper
      <3>2. r \in HeadBills(g)' /\ r.inst = x /\ r.res = res
        BY <1>8, <1>14
      <3>3. \A q \in HeadBills(g)' : q.res = res => q = r
        BY <1>8
      <3> HIDE DEF r, rec
      <3> QED BY <1>9, <1>14, <3>1, <3>2, <3>3 DEF For
    <2>8. r.units = d[res] /\ r.lm = lm[x] /\ r.at = now
      BY <2>2, <2>3
    <2> HIDE DEF r, rec
    <2> DEFINE u == Units(r, k)
    <2>9. u \in Int
      BY <1>4, <2>8, RecordUnits
    <2>10. UnitsOf(For(Bills(g)', i, res), k) = u
      <3>1. IsFiniteSet({r}) /\ \A q \in {r} : Units(q, k) \in Int
        BY <2>9, FS_Singleton
      <3>2. UnitsOf({r}, k) = u
        BY <3>1, UnitsSum
      <3> QED BY <2>7, <3>2
    <2>11. UnitsOf(For(Bills(g), i, res), k) = 0
      BY <2>6, UnitsSum, FS_EmptySet
    <2>12. Owed(i, res, k)' = Owed(i, res, k) + (u - 0)
      BY <1>12, <2>9, <2>10, <2>11, OwedChange DEF CoreInv
    <2>13. Unmade(i, res, k) = 0
      BY <1>14, <2>4 DEF Unmade
    <2>14. Unmade(i, res, k)' = u
      <3>1. Diff(i, req[i])'[res] = d[res]
        BY <1>2, <1>14, <2>3, DiffKept
      <3> QED BY <1>2, <1>14, <2>5, <2>8, <3>1 DEF Unmade, Units
    <2>15. Level(i, res, k)' = Level(i, res, k)
      BY <1>2 DEF Level
    <2> DEFINE c == charged[i][res][k]
               o == Owed(i, res, k)
               a == Level(i, res, k)
               v == IF k > lm[i] THEN vm[i][res] ELSE 0
    <2>16. c \in Int /\ o \in Int /\ a \in Int /\ v \in Int
      BY BookInts DEF Level
    <2>17. c + o = a - v + 0
      BY <1>11, <2>13 DEF Sums
    <2>18. /\ charged'[i][res][k] = c /\ Level(i, res, k)' = a
           /\ v = IF k > lm'[i] THEN vm'[i][res] ELSE 0
      BY <1>2, <2>15
    <2> HIDE DEF c, o, a, v, u
    <2>19. c + (o + (u - 0)) = a - v + u
      BY <2>9, <2>16, <2>17, SMT
    <2> QED BY <2>12, <2>14, <2>18, <2>19 DEF Sums, o
  <1> QED BY <1>13, <1>14

LEMMA BookStep == ASSUME CoreInv, JobInv, BookInv, [Next]_vars PROVE BookInv'
  <1>1. ASSUME NEW g \in Goroutines, Bill(g) PROVE BookInv'
    BY <1>1, ReadDiffBooks, PriceBooks, PublishBooks DEF Bill
  <1>2. ASSUME Update PROVE BookInv'
    BY <1>2, CheckBooks, QuietBooks, NICBooks, PrivateBooks, ResizeBooks, DriveBooks,
       RenewBooks DEF Update
  <1> QED BY <1>1, <1>2, QuietBooks, TickBooks, CrashBooks DEF Next

\* Nothing is charged yet, and the first period is not paid.
LEMMA BookInit == ASSUME Init PROVE BookInv
  <1> SUFFICES ASSUME NEW i \in Instances, NEW res \in Billed, NEW k \in Periods
               PROVE  Sums(i, res, k)
    BY DEF BookInv
  <1>1. CoreInv
    BY CoreInit
  <1>2. /\ charged[i][res][k] = 0 /\ lm[i] = 0 /\ now = 1 /\ due[i] = {}
        /\ \A g \in Goroutines : gor[g] = NoWork
    BY DEF Init
  <1>3. \A g \in Goroutines : For(Bills(g), i, res) = {}
    BY <1>1, <1>2, NoWorkTyped DEF Bills, For, CoreInv
  <1>4. Owed(i, res, k) = 0
    BY <1>1, <1>3, NothingOwed DEF CoreInv
  <1>5. Unmade(i, res, k) = 0
    BY <1>2 DEF Unmade
  <1>6. k \in Nat /\ k >= 1
    BY UpdateAssumption, SMT DEF Periods
  <1>7. k > 0 /\ ~(k < 1)
    BY <1>6, SMT
  <1>8. Level(i, res, k) = vm[i][res] /\ vm[i][res] \in Int
    BY <1>1, <1>2, <1>7, UnitsTyped DEF Level, CoreInv
  <1> DEFINE v == vm[i][res]
  <1>9. 0 + 0 = v - v + 0
    BY <1>8, SMT
  <1> QED BY <1>2, <1>4, <1>5, <1>7, <1>8, <1>9 DEF Sums

\* Addresses and resources, the core's data, goroutines and the books keep their
\* types in every reachable state; in particular every VM keeps an address.
THEOREM TypeCorrect == Spec => []TypeOK
  <1>1. Init => CoreInv
    BY CoreInit
  <1>2. CoreInv /\ [Next]_vars => CoreInv'
    BY CoreStep
  <1>3. CoreInv => TypeOK
    BY TypesGiveTypeOK
  <1> QED BY <1>1, <1>2, <1>3, PTL DEF Spec

\* Whatever goroutines, changes, rounds, failures and crashes come in between: of
\* an instance that is not excused and has no bill under way every period that is
\* paid was charged what the VM had, and one in arrears the difference to what the
\* next round will charge.
THEOREM BooksSettled == Spec => []Settled
  <1> DEFINE IInv == CoreInv /\ JobInv /\ BookInv
  <1>1. Init => IInv
    BY CoreInit, JobInit, BookInit
  <1>2. IInv /\ [Next]_vars => IInv'
    BY CoreStep, JobStep, BookStep
  <1>3. IInv => Settled
    BY BooksGiveSettled
  <1> QED BY <1>1, <1>2, <1>3, PTL DEF Spec

=============================================================================
