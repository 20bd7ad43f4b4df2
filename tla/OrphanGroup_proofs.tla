------------------------- MODULE OrphanGroup_proofs -------------------------
(***************************************************************************)
(* For any group, any number of overlapping rounds, failures and crashes:  *)
(* no VM is moved without its networks, and no round names a new user to   *)
(* whom not all VMs belong.                                                *)
(***************************************************************************)
EXTENDS OrphanGroup, FiniteSetTheorems, TLAPS

\* From CreateUser to the end of the loops a round has a user of its own ...
Working == {"find private", "find public", "chown private", "chown public", "detach",
            "rename private", "rename public", "undo private", "undo public",
            "chown vm", "attach"}

\* ... and until the networks are renamed it has moved no VM.
Early == {"find private", "find public", "chown private", "chown public", "detach",
          "rename private", "rename public", "undo private", "undo public"}

\* OpenNebula's refusal of a second user of the name keeps rounds apart.
Alone == \A r, s \in Requests : pc[r] \in Working /\ pc[s] \in Working => r = s

Own == \A r \in Requests : pc[r] \in Working => named # 0 /\ req[r].new = named

Untouched ==
    named = 0 \/ (\E r \in Requests : pc[r] \in Early)
        => \A i \in Instances : vm[i].owner = Former

\* What a round that is at a stage has done to the networks ...
GivenAt(st) ==
    /\ st \in {"chown public", "detach", "rename private", "rename public",
               "chown vm", "attach"} => net["private"].owner = named
    /\ st \in {"detach", "rename private", "rename public", "chown vm", "attach"}
          => net["public"].owner = named
    /\ st \in {"rename public", "chown vm", "attach"} => net["private"].name = named
    /\ st \in {"chown vm", "attach"} => net["public"].name = named

Given == \A r \in Requests : GivenAt(pc[r])

\* ... and to the VMs before the one it has come to.
MovingAt(st, a) ==
    /\ a \in Instances
    /\ st \in {"rename private", "rename public"} => a = 1
    /\ st = "chown vm" => \A i \in Instances : i < a => vm[i].owner = named
    /\ st = "attach" => \A i \in Instances : i <= a => vm[i].owner = named

Moving == \A r \in Requests : MovingAt(pc[r], req[r].at)

\* A user ID the core may have been told.
Right(u) == u \notin {0, Former} => u = named /\ \A i \in Instances : vm[i].owner = u

IInv ==
    /\ TypeOK /\ Alone /\ Own /\ Untouched /\ Given /\ Moving
    /\ MovedWhole
    /\ Right(userid) /\ \A r \in Requests : Right(req[r].userid)

VMs  == [owner : Nat, nics : [Nets -> Nat]]
Reqs == [userid : Nat, old : Nat, new : Nat, at : Nat]

SameOwners == \A i \in Instances : vm'[i].owner = vm[i].owner

-----------------------------------------------------------------------------

LEMMA FirstInstance ==
    1 \in Instances /\ Instances \subseteq Nat \ {0} /\ \A i \in Instances : ~(i < 1)
  <1>1. Cardinality(Instances) \in Nat
    BY OrphanAssumption, FS_CardinalityType
  <1>2. Instances = 1 .. Cardinality(Instances) /\ Instances # {}
    BY OrphanAssumption
  <1> DEFINE n == Cardinality(Instances)
  <1>3. n \in Nat /\ Instances = 1 .. n /\ Instances # {}
    BY <1>1, <1>2
  <1> HIDE DEF n
  <1> QED BY <1>3

\* After the last instance all have had their turn.
LEMMA LastInstance ==
    ASSUME NEW a \in Instances, a + 1 \notin Instances
    PROVE  \A i \in Instances : i <= a
  <1>1. Cardinality(Instances) \in Nat
    BY OrphanAssumption, FS_CardinalityType
  <1>2. Instances = 1 .. Cardinality(Instances)
    BY OrphanAssumption
  <1> DEFINE n == Cardinality(Instances)
  <1>3. n \in Nat /\ Instances = 1 .. n
    BY <1>1, <1>2
  <1> HIDE DEF n
  <1> QED BY <1>3

\* Records of which one field changes.
LEMMA OwnerChange ==
    ASSUME NEW v \in VMs, NEW u \in Nat
    PROVE  LET w == [v EXCEPT !.owner = u] IN w \in VMs /\ w.owner = u
  BY SMT DEF VMs

LEMMA AtChange ==
    ASSUME NEW q \in Reqs, NEW a \in Nat
    PROVE  LET e == [q EXCEPT !.at = a] IN
           e \in Reqs /\ e.userid = q.userid /\ e.at = a /\ e.new = q.new
  BY SMT DEF Reqs

\* A NIC more or less leaves the owners as they are.
LEMMA NICChange ==
    ASSUME vm \in [Instances -> VMs], NEW i \in Instances, NEW k \in Nets, NEW n \in Nat,
           vm' = [vm EXCEPT ![i].nics[k] = n]
    PROVE  vm' \in [Instances -> VMs] /\ SameOwners
  <1> DEFINE nics == [vm[i].nics EXCEPT ![k] = n]
             v    == [vm[i] EXCEPT !.nics = nics]
  <1>1. vm' = [vm EXCEPT ![i] = v]
    OBVIOUS
  <1>2. vm[i] \in VMs
    OBVIOUS
  <1>3. nics \in [Nets -> Nat]
    BY <1>2, SMT DEF VMs
  <1>4. v \in VMs /\ v.owner = vm[i].owner
    <2> HIDE DEF nics
    <2> QED BY <1>2, <1>3, SMT DEF VMs
  <1> HIDE DEF v
  <1> QED BY <1>1, <1>4, SMT DEF SameOwners

\* A step after which a round is in no stage that matters, and that moves
\* nothing, keeps the invariant.
LEMMA Quiet ==
    ASSUME IInv, TypeOK', NEW r \in Requests, NEW st \in Stages \ Working,
           pc' = [pc EXCEPT ![r] = st],
           UNCHANGED <<named, net>>, SameOwners,
           \A s \in Requests : s # r => req'[s] = req[s],
           req'[r].at \in Instances,
           Right(req'[r].userid),
           userid' \in {userid, req[r].userid}
    PROVE  IInv'
  <1>1. ASSUME NEW s \in Requests, pc'[s] \in Working
        PROVE  s # r /\ pc'[s] = pc[s] /\ req'[s] = req[s]
    <2>1. pc \in [Requests -> Stages] /\ st \notin Working
      BY DEF IInv, TypeOK
    <2> HIDE DEF Working, Stages
    <2> QED BY <1>1, <2>1
  <1>2. Alone' /\ Own'
    BY <1>1 DEF IInv, Alone, Own, Working
  <1>3. Untouched'
    <2>1. SUFFICES ASSUME named = 0 \/ \E s \in Requests : pc'[s] \in Early
                   PROVE  named = 0 \/ \E s \in Requests : pc[s] \in Early
      BY DEF IInv, Untouched, SameOwners, Early, Former
    <2>2. \A e \in Early : e \in Working
      BY DEF Early, Working
    <2> QED BY <1>1, <2>1, <2>2
  <1>4. Given'
    <2> SUFFICES ASSUME NEW s \in Requests PROVE GivenAt(pc[s])'
      BY DEF Given
    <2>1. CASE pc'[s] \in Working
      <3>1. GivenAt(pc[s]) /\ pc'[s] = pc[s]
        BY <1>1, <2>1 DEF IInv, Given
      <3> QED BY <3>1, Zenon DEF GivenAt
    <2>2. CASE pc'[s] \notin Working
      BY <2>2, Zenon DEF GivenAt, Working
    <2> QED BY <2>1, <2>2
  <1>5. Moving'
    <2> SUFFICES ASSUME NEW s \in Requests PROVE MovingAt(pc[s], req[s].at)'
      BY DEF Moving
    <2>1. MovingAt(pc[s], req[s].at)
      BY DEF IInv, Moving
    <2>2. CASE pc'[s] \in Working
      BY <1>1, <2>1, <2>2 DEF MovingAt, SameOwners
    <2>3. CASE pc'[s] \notin Working
      <3>1. req'[s].at \in Instances
        BY <2>1 DEF MovingAt
      <3> QED BY <2>3, <3>1, Zenon DEF MovingAt, Working
    <2> QED BY <2>2, <2>3
  <1>6. MovedWhole'
    BY DEF IInv, MovedWhole, SameOwners
  <1>7. \A u : Right(u) => Right(u)'
    BY DEF Right, SameOwners
  <1>8. Right(userid)' /\ \A s \in Requests : Right(req[s].userid)'
    BY <1>7 DEF IInv
  <1> QED BY <1>2, <1>3, <1>4, <1>5, <1>6, <1>8 DEF IInv

\* So does one from stage to stage, if it does what the next one takes as done
\* and moves VMs to the new user only.
LEMMA Advance ==
    ASSUME IInv, TypeOK', NEW r \in Requests, NEW st \in Working, pc[r] \in Working,
           pc' = [pc EXCEPT ![r] = st],
           UNCHANGED <<named, userid>>,
           \A s \in Requests : s # r => req'[s] = req[s],
           req'[r].new = req[r].new, req'[r].userid = req[r].userid,
           st \in Early => pc[r] \in Early /\ SameOwners,
           \A i \in Instances : vm'[i].owner \in {vm[i].owner, named},
           GivenAt(st)', MovingAt(st, req[r].at)', MovedWhole'
    PROVE  IInv'
  <1>1. pc'[r] = st /\ \A s \in Requests : s # r => pc'[s] = pc[s]
    BY DEF IInv, TypeOK
  <1>2. \A s \in Requests : s # r => pc'[s] \notin Working
    BY <1>1 DEF IInv, Alone
  <1>3. Alone' /\ Own'
    <2>1. \A s \in Requests : pc'[s] \in Working => s = r
      BY <1>2
    <2>2. named # 0 /\ req'[r].new = named
      BY DEF IInv, Own
    <2> QED BY <2>1, <2>2, Zenon DEF Alone, Own, Working
  <1>4. Untouched'
    <2>1. SUFFICES ASSUME \E s \in Requests : pc'[s] \in Early
                   PROVE  \A i \in Instances : vm'[i].owner = Former
      BY DEF IInv, Own, Untouched, Early, Former
    <2>2. \A e \in Early : e \in Working
      BY DEF Early, Working
    <2>3. st \in Early
      BY <1>1, <1>2, <2>1, <2>2
    <2> QED BY <2>3 DEF IInv, Untouched, SameOwners
  <1>5. Given'
    <2> SUFFICES ASSUME NEW s \in Requests PROVE GivenAt(pc[s])'
      BY DEF Given
    <2>1. CASE s = r
      BY <1>1, <2>1
    <2>2. CASE pc'[s] \notin Working
      BY <2>2, Zenon DEF GivenAt, Working
    <2> QED BY <1>2, <2>1, <2>2
  <1>6. Moving'
    <2> SUFFICES ASSUME NEW s \in Requests PROVE MovingAt(pc[s], req[s].at)'
      BY DEF Moving
    <2>1. CASE s = r
      BY <1>1, <2>1
    <2>2. CASE s # r
      <3>1. req'[s].at \in Instances
        BY <2>2 DEF IInv, Moving, MovingAt
      <3> QED BY <1>2, <2>2, <3>1, Zenon DEF MovingAt, Working
    <2> QED BY <2>1, <2>2
  <1>7. \A u : Right(u) => Right(u)'
    BY DEF Right
  <1>8. Right(userid)' /\ \A s \in Requests : Right(req[s].userid)'
    BY <1>7 DEF IInv
  <1> QED BY <1>3, <1>4, <1>5, <1>6, <1>8 DEF IInv

-----------------------------------------------------------------------------
(* Steps that only change where a round is.                                *)

LEMMA BoundsStep ==
    ASSUME TypeOK, Works \/ Fails
    PROVE  failures' \in 0 .. MaxFailures /\ crashes' \in 0 .. MaxCrashes
  BY OrphanAssumption, SMT DEF TypeOK, Works, Fails, bounds

LEMMA Typed ==
    ASSUME IInv, NEW r \in Requests, NEW st \in Stages, pc' = [pc EXCEPT ![r] = st],
           Works \/ Fails, UNCHANGED need,
           named' \in Nat /\ lastUser' \in Nat /\ userid' \in Nat,
           net' \in [Nets -> [owner : Nat, name : Nat]],
           vm' \in [Instances -> VMs], req' \in [Requests -> Reqs]
    PROVE  TypeOK'
  <1>1. pc' \in [Requests -> Stages]
    <2> HIDE DEF Stages
    <2> QED BY DEF IInv, TypeOK
  <1>2. failures' \in 0 .. MaxFailures /\ crashes' \in 0 .. MaxCrashes
    BY BoundsStep DEF IInv
  <1>3. need' \in Needs
    BY DEF IInv, TypeOK
  <1> QED BY <1>1, <1>2, <1>3 DEF TypeOK, VMs, Reqs

\* A round that goes to another stage and does nothing else.
LEMMA GoesTo ==
    ASSUME IInv, NEW r \in Requests, NEW st \in Stages, Works \/ Fails,
           Go(r, st), UNCHANGED <<one, core, req>>
    PROVE  /\ TypeOK' /\ SameOwners /\ MovedWhole'
           /\ pc' = [pc EXCEPT ![r] = st]
           /\ UNCHANGED <<named, lastUser, net, vm, need, userid, req>>
  <1>1. /\ pc' = [pc EXCEPT ![r] = st]
        /\ UNCHANGED <<named, lastUser, net, vm, need, userid, req>>
    BY DEF Go, one, core
  <1>2. TypeOK'
    BY <1>1, Typed DEF IInv, TypeOK, VMs, Reqs
  <1>3. SameOwners /\ MovedWhole'
    BY <1>1 DEF SameOwners, IInv, MovedWhole
  <1> QED BY <1>1, <1>2, <1>3

\* To a stage that is none of Working.
LEMMA Leaves ==
    ASSUME IInv, NEW r \in Requests, NEW st \in Stages \ Working, Works \/ Fails,
           Go(r, st), UNCHANGED <<one, core, req>>
    PROVE  IInv'
  <1>1. /\ TypeOK' /\ SameOwners
        /\ pc' = [pc EXCEPT ![r] = st]
        /\ UNCHANGED <<named, net, userid, req>>
    BY GoesTo
  <1>2. req[r].at \in Instances /\ Right(req[r].userid)
    BY DEF IInv, Moving, MovingAt
  <1> QED BY <1>1, <1>2, Quiet

LEMMA ReturnIInv ==
    ASSUME IInv, NEW r \in Requests, Works \/ Fails, Return(r), UNCHANGED core
    PROVE  IInv'
  <1>1. "end" \in Stages \ Working
    BY DEF Stages, Working
  <1> QED BY <1>1, Leaves DEF Return

\* To another of the stages before the networks are renamed.
LEMMA StaysEarly ==
    ASSUME IInv, NEW r \in Requests, NEW st \in Early, Works \/ Fails, pc[r] \in Early,
           Go(r, st), UNCHANGED <<one, core, req>>, GivenAt(st),
           st \in {"rename private", "rename public"} => req[r].at = 1
    PROVE  IInv'
  <1>1. st \in Stages /\ st \in Working /\ pc[r] \in Working
    BY DEF Stages, Working, Early
  <1>2. /\ TypeOK' /\ SameOwners /\ MovedWhole'
        /\ pc' = [pc EXCEPT ![r] = st]
        /\ UNCHANGED <<named, net, vm, userid, req>>
    BY <1>1, GoesTo
  <1>3. GivenAt(st)'
    BY <1>2 DEF GivenAt
  <1>4. MovingAt(st, req[r].at)'
    <2>1. req[r].at \in Instances /\ st \notin {"chown vm", "attach"}
      BY DEF IInv, Moving, MovingAt, Early
    <2> QED BY <1>2, <2>1 DEF MovingAt
  <1>5. \A i \in Instances : vm'[i].owner \in {vm[i].owner, named}
    BY <1>2
  <1> HIDE DEF Early, Working, Stages
  <1> QED BY <1>1, <1>2, <1>3, <1>4, <1>5, Advance

LEMMA BeginIInv == ASSUME IInv, NEW r \in Requests, Begin(r) PROVE IInv'
  <1> DEFINE e == [Idle EXCEPT !.userid = userid]
  <1>1. /\ pc' = [pc EXCEPT ![r] = "info"] /\ Works
        /\ req' = [req EXCEPT ![r] = e]
        /\ UNCHANGED <<named, lastUser, net, vm, need, userid>>
    BY DEF Begin, Go, Works, one, core
  <1>2. e \in Reqs /\ e.userid = userid /\ e.at = 1
    BY DEF Reqs, Idle, IInv, TypeOK
  <1> HIDE DEF e
  <1>3. /\ req' \in [Requests -> Reqs] /\ req'[r] = e
        /\ \A s \in Requests : s # r => req'[s] = req[s]
    BY <1>1, <1>2 DEF IInv, TypeOK, Reqs
  <1>4. "info" \in Stages \ Working
    BY DEF Stages, Working
  <1>5. TypeOK'
    BY <1>1, <1>3, <1>4, Typed DEF IInv, TypeOK, VMs
  <1>6. SameOwners /\ req'[r].at \in Instances /\ Right(req'[r].userid)
    BY <1>1, <1>2, <1>3, FirstInstance DEF SameOwners, IInv
  <1> QED BY <1>1, <1>3, <1>4, <1>5, <1>6, Quiet

LEMMA InfoIInv == ASSUME IInv, NEW r \in Requests, Info(r) PROVE IInv'
  <1>1. CASE Fails /\ Return(r)
    BY <1>1, ReturnIInv DEF Info
  <1>2. CASE /\ Works /\ Go(r, "byname")
             /\ req' = [req EXCEPT ![r].old = vm[1].owner]
             /\ UNCHANGED <<one, left>>
    <2> DEFINE e == [req[r] EXCEPT !.old = vm[1].owner]
    <2>1. /\ pc' = [pc EXCEPT ![r] = "byname"] /\ Works
          /\ req' = [req EXCEPT ![r] = e]
          /\ UNCHANGED <<named, lastUser, net, vm, need, userid>>
      BY <1>2 DEF Info, Go, one, core
    <2>2. vm[1].owner \in Nat /\ req[r] \in Reqs
      BY FirstInstance DEF IInv, TypeOK, Reqs
    <2>3. e \in Reqs /\ e.userid = req[r].userid /\ e.at = req[r].at
      BY <2>2, SMT DEF Reqs
    <2> HIDE DEF e
    <2>4. /\ req' \in [Requests -> Reqs] /\ req'[r] = e
          /\ \A s \in Requests : s # r => req'[s] = req[s]
      BY <2>1, <2>3 DEF IInv, TypeOK, Reqs
    <2>5. "byname" \in Stages \ Working
      BY DEF Stages, Working
    <2>6. TypeOK'
      BY <2>1, <2>4, <2>5, Typed DEF IInv, TypeOK, VMs
    <2>7. SameOwners /\ req'[r].at \in Instances /\ Right(req'[r].userid)
      BY <2>1, <2>3, <2>4 DEF SameOwners, IInv, Moving, MovingAt
    <2> QED BY <2>1, <2>4, <2>5, <2>6, <2>7, Quiet
  <1> QED BY <1>1, <1>2 DEF Info

LEMMA ByNameIInv == ASSUME IInv, NEW r \in Requests, ByName(r) PROVE IInv'
  <1>1. CASE Works /\ ~Orphan /\ Return(r)
    BY <1>1, ReturnIInv DEF ByName
  <1>2. CASE /\ (Orphan /\ Works) \/ (~Orphan /\ Fails)
             /\ Go(r, "create") /\ UNCHANGED <<one, req, left>>
    <2>1. "create" \in Stages \ Working
      BY DEF Stages, Working
    <2> QED BY <1>2, <2>1, Leaves DEF ByName
  <1> QED BY <1>1, <1>2 DEF ByName

LEMMA EndIInv == ASSUME IInv, NEW r \in Requests, End(r) PROVE IInv'
  <1>1. /\ pc' = [pc EXCEPT ![r] = "idle"] /\ Works
        /\ req' = [req EXCEPT ![r] = Idle]
        /\ userid' \in {userid, req[r].userid}
        /\ UNCHANGED <<named, lastUser, net, vm, need>>
    BY DEF End, Go, Works, one
  <1>2. Idle \in Reqs /\ Idle.userid = 0 /\ Idle.at = 1
    BY DEF Reqs, Idle
  <1>3. /\ req' \in [Requests -> Reqs] /\ req'[r] = Idle
        /\ \A s \in Requests : s # r => req'[s] = req[s]
    BY <1>1, <1>2 DEF IInv, TypeOK, Reqs
  <1>4. "idle" \in Stages \ Working
    BY DEF Stages, Working
  <1>5. TypeOK'
    <2>1. userid' \in Nat
      BY <1>1 DEF IInv, TypeOK
    <2> QED BY <1>1, <1>3, <1>4, <2>1, Typed DEF IInv, TypeOK, VMs
  <1>6. SameOwners /\ req'[r].at \in Instances /\ Right(req'[r].userid)
    BY <1>1, <1>2, <1>3, FirstInstance DEF SameOwners, Right
  <1> QED BY <1>1, <1>3, <1>4, <1>5, <1>6, Quiet

-----------------------------------------------------------------------------
(* Steps that change OpenNebula.                                           *)

\* A new user gets a new ID: nobody was told it, and it owns nothing.
LEMMA CreateUserIInv == ASSUME IInv, NEW r \in Requests, CreateUser(r) PROVE IInv'
  <1>1. CASE Return(r) /\ (Works \/ Fails)
    BY <1>1, ReturnIInv DEF CreateUser
  <1>2. CASE /\ named = 0 /\ Works /\ Go(r, "find private")
             /\ lastUser' = lastUser + 1 /\ named' = lastUser + 1
             /\ req' = [req EXCEPT ![r].new = lastUser + 1]
             /\ UNCHANGED <<net, vm, left>>
    <2> DEFINE e == [req[r] EXCEPT !.new = lastUser + 1]
    <2>1. /\ pc' = [pc EXCEPT ![r] = "find private"]
          /\ req' = [req EXCEPT ![r] = e]
          /\ UNCHANGED <<net, vm, need, userid>>
      BY <1>2 DEF CreateUser, Go, core
    <2>2. lastUser \in Nat /\ req[r] \in Reqs
      BY DEF IInv, TypeOK, Reqs
    <2>3. /\ lastUser + 1 \in Nat /\ lastUser + 1 # 0
          /\ e \in Reqs /\ e.userid = req[r].userid /\ e.at = req[r].at
          /\ e.new = lastUser + 1
      BY <2>2, SMT DEF Reqs
    <2> HIDE DEF e
    <2>4. /\ req' \in [Requests -> Reqs] /\ req'[r] = e
          /\ \A s \in Requests : s # r => req'[s] = req[s]
      BY <2>1, <2>3 DEF IInv, TypeOK, Reqs
    <2>5. TypeOK'
      <3>1. "find private" \in Stages
        BY DEF Stages
      <3> QED BY <1>2, <2>1, <2>3, <2>4, <3>1, Typed DEF IInv, TypeOK, VMs
    <2>6. \A i \in Instances : vm[i].owner = Former
      BY <1>2 DEF IInv, Untouched
    <2>7. pc'[r] = "find private" /\ \A s \in Requests : s # r => pc'[s] = pc[s]
      BY <2>1 DEF IInv, TypeOK
    <2>8. \A s \in Requests : s # r => pc[s] \notin Working
      BY <1>2 DEF IInv, Own
    <2>9. Alone' /\ Own'
      <3>1. \A s \in Requests : pc'[s] \in Working => s = r
        BY <2>7, <2>8
      <3> QED BY <1>2, <2>3, <2>4, <3>1, Zenon DEF Alone, Own, Working
    <2>10. Untouched'
      BY <2>1, <2>6, Zenon DEF Untouched, Early, Former
    <2>11. Given'
      <3> SUFFICES ASSUME NEW s \in Requests PROVE GivenAt(pc[s])'
        BY DEF Given
      <3>1. CASE s = r
        BY <2>7, <3>1 DEF GivenAt
      <3>2. CASE s # r
        BY <2>7, <2>8, <3>2, Zenon DEF GivenAt, Working
      <3> QED BY <3>1, <3>2
    <2>12. Moving'
      <3> SUFFICES ASSUME NEW s \in Requests PROVE MovingAt(pc[s], req[s].at)'
        BY DEF Moving
      <3>1. req'[s].at \in Instances
        BY <2>3, <2>4 DEF IInv, Moving, MovingAt
      <3>2. CASE s = r
        BY <2>7, <3>1, <3>2 DEF MovingAt
      <3>3. CASE s # r
        BY <2>7, <2>8, <3>1, <3>3, Zenon DEF MovingAt, Working
      <3> QED BY <3>2, <3>3
    <2>13. MovedWhole'
      BY <2>1, <2>6, Zenon DEF MovedWhole, Former
    <2>14. \A u : Right(u) => u \in {0, Former}
      BY <1>2 DEF Right
    <2>15. \A u \in {0, Former} : Right(u)'
      BY Zenon DEF Right, Former
    <2>16. Right(userid)' /\ \A s \in Requests : Right(req[s].userid)'
      <3>1. userid' \in {0, Former}
        BY <2>1, <2>14 DEF IInv
      <3>2. \A s \in Requests : req'[s].userid \in {0, Former}
        BY <2>3, <2>4, <2>14 DEF IInv
      <3> QED BY <2>15, <3>1, <3>2
    <2> QED BY <2>5, <2>9, <2>10, <2>11, <2>12, <2>13, <2>16 DEF IInv
  <1> QED BY <1>1, <1>2 DEF CreateUser

LEMMA FindNetsIInv == ASSUME IInv, NEW r \in Requests, FindNets(r) PROVE IInv'
  <1>1. ASSUME NEW k, NEW step \in {"find private", "find public"},
               NEW then \in {"find public", "chown private"}, FindNet(r, k, step, then)
        PROVE  IInv'
    <2>1. CASE Fails /\ Return(r)
      BY <1>1, <2>1, ReturnIInv DEF FindNet
    <2>2. CASE /\ Works /\ UNCHANGED <<one, req, left>>
               /\ \/ Go(r, then)
                  \/ Go(r, "end")
      <3>1. CASE Go(r, then)
        <4>1. then \in Early /\ pc[r] \in Early
          BY <1>1 DEF FindNet, Early
        <4>2. GivenAt(then) /\ then \notin {"rename private", "rename public"}
          BY DEF GivenAt
        <4> QED BY <1>1, <2>2, <3>1, <4>1, <4>2, StaysEarly DEF FindNet
      <3>2. CASE Go(r, "end")
        <4>1. "end" \in Stages \ Working
          BY DEF Stages, Working
        <4> QED BY <1>1, <2>2, <3>2, <4>1, Leaves DEF FindNet
      <3> QED BY <2>2, <3>1, <3>2
    <2>3. \/ Fails /\ Return(r)
          \/ /\ Works /\ UNCHANGED <<one, req, left>>
             /\ Go(r, then) \/ Go(r, "end")
      BY <1>1 DEF FindNet
    <2> QED BY <2>1, <2>2, <2>3
  <1> QED BY <1>1 DEF FindNets

\* A network changes while no VM is moved.
LEMMA NetChange ==
    ASSUME IInv, NEW r \in Requests, NEW st \in Early \cup {"chown vm"}, pc[r] \in Early,
           Works \/ Fails, pc' = [pc EXCEPT ![r] = st],
           UNCHANGED <<named, lastUser, vm, core, req>>,
           net' \in [Nets -> [owner : Nat, name : Nat]],
           GivenAt(st)',
           st \in {"rename private", "rename public", "chown vm"} => req[r].at = 1
    PROVE  IInv'
  <1>1. st \in Stages /\ st \in Working /\ pc[r] \in Working
    BY DEF Stages, Working, Early
  <1>2. UNCHANGED <<named, lastUser, vm, userid, need, req>>
    BY DEF core
  <1>3. TypeOK'
    BY <1>1, <1>2, Typed DEF IInv, TypeOK, VMs, Reqs
  <1>4. \A i \in Instances : vm[i].owner = Former
    BY DEF IInv, Untouched
  <1>5. MovedWhole' /\ SameOwners
    BY <1>2, <1>4, Zenon DEF MovedWhole, SameOwners, Former
  <1>6. MovingAt(st, req[r].at)'
    <2>1. req[r].at \in Instances /\ st # "attach"
      BY DEF IInv, Moving, MovingAt, Early
    <2> QED BY <1>2, <2>1, FirstInstance DEF MovingAt
  <1>7. \A i \in Instances : vm'[i].owner \in {vm[i].owner, named}
    BY <1>2
  <1> HIDE DEF Early, Working, Stages
  <1> QED BY <1>1, <1>2, <1>3, <1>5, <1>6, <1>7, Advance

LEMMA ChownNetsIInv == ASSUME IInv, NEW r \in Requests, ChownNets(r) PROVE IInv'
  <1>1. ASSUME NEW k \in Nets, NEW step, NEW then,
               \/ k = "private" /\ step = "chown private" /\ then = "chown public"
               \/ k = "public" /\ step = "chown public" /\ then = "detach",
               ChownNet(r, k, step, then)
        PROVE  IInv'
    <2>1. CASE Fails /\ Return(r)
      BY <1>1, <2>1, ReturnIInv DEF ChownNet
    <2>2. CASE /\ Works /\ Go(r, then)
               /\ net' = [net EXCEPT ![k].owner = req[r].new]
               /\ UNCHANGED <<named, lastUser, vm, req, left>>
      <3>1. pc[r] = step /\ pc[r] \in Early /\ then \in Early /\ pc[r] \in Working
        BY <1>1 DEF ChownNet, Early, Working
      <3>2. req[r].new = named /\ named \in Nat /\ GivenAt(step)
        BY <3>1 DEF IInv, Own, TypeOK, Given
      <3>3. net \in [Nets -> [owner : Nat, name : Nat]]
        BY DEF IInv, TypeOK
      <3>4. /\ net' \in [Nets -> [owner : Nat, name : Nat]]
            /\ net'[k].owner = named /\ \A n \in Nets : n # k => net'[n] = net[n]
        BY <2>2, <3>2, <3>3, SMT
      <3>5. GivenAt(then)'
        BY <1>1, <2>2, <3>2, <3>4 DEF GivenAt, Nets
      <3>6. then \notin {"rename private", "rename public", "chown vm"}
        BY <1>1
      <3>7. pc' = [pc EXCEPT ![r] = then] /\ UNCHANGED core
        BY <1>1, <2>2 DEF ChownNet, Go
      <3> QED BY <2>2, <3>1, <3>4, <3>5, <3>6, <3>7, NetChange
    <2> QED BY <1>1, <2>1, <2>2 DEF ChownNet
  <1> QED BY <1>1 DEF ChownNets, Nets

LEMMA RenameNetsIInv == ASSUME IInv, NEW r \in Requests, RenameNets(r) PROVE IInv'
  <1>1. ASSUME NEW k \in Nets, NEW step, NEW then, NEW undo,
               \/ /\ k = "private" /\ step = "rename private"
                  /\ then = "rename public" /\ undo = "undo private"
               \/ /\ k = "public" /\ step = "rename public"
                  /\ then = "chown vm" /\ undo = "undo public",
               Rename(r, k, step, then, undo)
        PROVE  IInv'
    <2>1. pc[r] = step /\ pc[r] \in Early /\ pc[r] \in Working
      BY <1>1 DEF Rename, Early, Working
    <2>2. req[r].new = named /\ named \in Nat /\ GivenAt(step) /\ req[r].at = 1
      BY <1>1, <2>1 DEF IInv, Own, TypeOK, Given, Moving, MovingAt
    <2>3. net \in [Nets -> [owner : Nat, name : Nat]]
      BY DEF IInv, TypeOK
    <2>4. UNCHANGED <<named, lastUser, vm, core, req>>
      BY <1>1 DEF Rename
    <2>5. CASE Fails /\ Go(r, undo) /\ UNCHANGED net
      <3>1. undo \in Early
        BY <1>1 DEF Early
      <3>2. GivenAt(undo)' /\ pc' = [pc EXCEPT ![r] = undo]
        BY <1>1, <2>5 DEF GivenAt, Go
      <3> QED BY <2>1, <2>2, <2>3, <2>4, <2>5, <3>1, <3>2, NetChange
    <2>6. CASE Works /\ Go(r, then) /\ net' = [net EXCEPT ![k].name = req[r].new]
      <3>1. then \in Early \cup {"chown vm"}
        BY <1>1 DEF Early
      <3>2. /\ net' \in [Nets -> [owner : Nat, name : Nat]]
            /\ net'[k].name = named /\ net'[k].owner = net[k].owner
            /\ \A n \in Nets : n # k => net'[n] = net[n]
        BY <2>2, <2>3, <2>6, SMT
      <3>3. GivenAt(then)'
        BY <1>1, <2>2, <2>4, <3>2 DEF GivenAt, Nets
      <3>4. pc' = [pc EXCEPT ![r] = then]
        BY <2>6 DEF Go
      <3> QED BY <2>1, <2>2, <2>4, <2>6, <3>1, <3>2, <3>3, <3>4, NetChange
    <2> QED BY <1>1, <2>5, <2>6 DEF Rename
  <1> QED BY <1>1 DEF RenameNets, Nets

\* A VM changes in a stage and the round stays, or goes on.
LEMMA DetachNICIInv == ASSUME IInv, NEW r \in Requests, DetachNIC(r) PROVE IInv'
  <1>0. /\ pc[r] = "detach" /\ pc[r] \in Early /\ pc[r] \in Working /\ pc[r] \in Stages
        /\ UNCHANGED core /\ req[r] \in Reqs
    BY DEF DetachNIC, Early, Working, Stages, IInv, TypeOK, Reqs
  <1>1. GivenAt("detach") /\ req[r].at \in Instances
    BY <1>0 DEF IInv, Given, Moving, MovingAt
  <1>2. ASSUME NEW k \in Nets, vm[req[r].at].nics[k] > 0, Fails, Return(r) PROVE IInv'
    BY <1>0, <1>2, ReturnIInv
  <1>3. ASSUME NEW k \in Nets, vm[req[r].at].nics[k] > 0, Works,
               vm' = [vm EXCEPT ![req[r].at].nics[k] = @ - 1],
               UNCHANGED <<named, lastUser, net, pc, req, left>>
        PROVE  IInv'
    <2>1. vm \in [Instances -> VMs]
      BY DEF IInv, TypeOK, VMs
    <2>2. vm[req[r].at].nics[k] - 1 \in Nat
      <3>1. vm[req[r].at].nics[k] \in Nat
        BY <1>1, <2>1 DEF VMs
      <3> QED BY <1>3, <3>1, SMT
    <2>3. vm' \in [Instances -> VMs] /\ SameOwners
      BY <1>1, <1>3, <2>1, <2>2, NICChange
    <2>4. pc' = [pc EXCEPT ![r] = "detach"]
      BY <1>0, <1>3 DEF IInv, TypeOK
    <2>5. UNCHANGED <<need, userid, named, net, req>>
      BY <1>0, <1>3 DEF core
    <2>6. TypeOK'
      BY <1>0, <1>3, <2>3, <2>4, <2>5, Typed DEF IInv, TypeOK, Reqs
    <2>7. MovedWhole'
      BY <2>3, <2>5 DEF IInv, MovedWhole, SameOwners
    <2>8. GivenAt("detach")' /\ MovingAt("detach", req[r].at)'
      BY <1>1, <2>5 DEF GivenAt, MovingAt
    <2>9. \A i \in Instances : vm'[i].owner \in {vm[i].owner, named}
      BY <2>3 DEF SameOwners
    <2>10. "detach" \in Working
      BY DEF Working
    <2> HIDE DEF Early, Working, Stages
    <2> QED BY <1>0, <2>3, <2>4, <2>5, <2>6, <2>7, <2>8, <2>9, <2>10, Advance
  <1>4. ASSUME NEW a \in Instances, NEW st \in {"detach", "rename private"},
               st = "rename private" => a = 1,
               Works, UNCHANGED <<one, left>>,
               req' = [req EXCEPT ![r].at = a], pc' = [pc EXCEPT ![r] = st]
        PROVE  IInv'
    <2> DEFINE e == [req[r] EXCEPT !.at = a]
    <2>1. a \in Nat
      BY FirstInstance
    <2>2. e \in Reqs /\ e.userid = req[r].userid /\ e.at = a /\ e.new = req[r].new
      BY <1>0, <2>1, AtChange
    <2>3. req' = [req EXCEPT ![r] = e]
      BY <1>4
    <2> HIDE DEF e
    <2>4. /\ req' \in [Requests -> Reqs] /\ req'[r] = e
          /\ \A s \in Requests : s # r => req'[s] = req[s]
      BY <2>2, <2>3 DEF IInv, TypeOK, Reqs
    <2>5. UNCHANGED <<need, userid, named, lastUser, net, vm>>
      BY <1>0, <1>4 DEF core, one
    <2>6. st \in Stages /\ st \in Working
      BY DEF Stages, Working
    <2>7. TypeOK'
      BY <1>4, <2>4, <2>5, <2>6, Typed DEF IInv, TypeOK, VMs
    <2>8. MovedWhole' /\ SameOwners
      BY <2>5 DEF IInv, MovedWhole, SameOwners
    <2>9. GivenAt(st)' /\ MovingAt(st, req[r].at)'
      BY <1>1, <1>4, <2>2, <2>4, <2>5 DEF GivenAt, MovingAt
    <2>10. \A i \in Instances : vm'[i].owner \in {vm[i].owner, named}
      BY <2>5
    <2> HIDE DEF Early, Working, Stages
    <2> QED BY <1>0, <1>4, <2>2, <2>4, <2>5, <2>6, <2>7, <2>8, <2>9, <2>10, Advance
  <1>5. ASSUME Works, UNCHANGED one, UNCHANGED left,
               IF req[r].at + 1 \in Instances
               THEN req' = [req EXCEPT ![r].at = @ + 1] /\ UNCHANGED pc
               ELSE req' = [req EXCEPT ![r].at = 1] /\ Go(r, "rename private")
        PROVE  IInv'
    <2>1. CASE req[r].at + 1 \in Instances
      <3>1. pc' = [pc EXCEPT ![r] = "detach"]
        BY <1>0, <1>5, <2>1 DEF IInv, TypeOK
      <3> QED BY <1>4, <1>5, <2>1, <3>1
    <2>2. CASE req[r].at + 1 \notin Instances
      BY <1>4, <1>5, <2>2, FirstInstance DEF Go
    <2> QED BY <2>1, <2>2
  <1> QED BY <1>2, <1>3, <1>5 DEF DetachNIC

LEMMA ChownVMIInv == ASSUME IInv, NEW r \in Requests, ChownVM(r) PROVE IInv'
  <1>1. CASE Fails /\ Return(r)
    BY <1>1, ReturnIInv DEF ChownVM
  <1>2. CASE /\ Works /\ Go(r, "attach")
             /\ vm' = [vm EXCEPT ![req[r].at].owner = req[r].new]
             /\ left' = [left EXCEPT ![r] = Resources]
             /\ UNCHANGED <<named, lastUser, net, req>>
    <2> DEFINE a == req[r].at
               v == [vm[a] EXCEPT !.owner = req[r].new]
    <2>1. pc[r] = "chown vm" /\ pc[r] \in Working /\ pc' = [pc EXCEPT ![r] = "attach"]
      BY <1>2 DEF ChownVM, Working, Go
    <2>2. /\ req[r].new = named /\ named \in Nat /\ GivenAt("chown vm")
          /\ a \in Instances /\ \A i \in Instances : i < a => vm[i].owner = named
      BY <2>1 DEF IInv, Own, TypeOK, Given, Moving, MovingAt
    <2>3. vm \in [Instances -> VMs] /\ vm[a] \in VMs
      BY <2>2 DEF IInv, TypeOK, VMs
    <2>4. v \in VMs /\ v.owner = named
      BY <2>2, <2>3, OwnerChange
    <2>5. vm' = [vm EXCEPT ![a] = v] /\ UNCHANGED <<named, lastUser, net, req, need, userid>>
      BY <1>2 DEF ChownVM, core
    <2> HIDE DEF a, v
    <2>6. /\ vm' \in [Instances -> VMs] /\ vm'[a].owner = named
          /\ \A i \in Instances : i # a => vm'[i] = vm[i]
      BY <2>2, <2>3, <2>4, <2>5
    <2>7. TypeOK'
      <3>1. "attach" \in Stages
        BY DEF Stages
      <3> QED BY <1>2, <2>1, <2>5, <2>6, <3>1, Typed DEF IInv, TypeOK, Reqs
    <2>8. \A i \in Instances : vm'[i].owner \in {vm[i].owner, named}
      BY <2>6
    <2>9. GivenAt("attach")'
      BY <2>2, <2>5 DEF GivenAt
    <2>10. net["private"] = [owner |-> named, name |-> named]
           /\ net["public"] = [owner |-> named, name |-> named]
      <3>1. /\ net["private"] \in [owner : Nat, name : Nat]
            /\ net["public"] \in [owner : Nat, name : Nat]
        BY DEF IInv, TypeOK, Nets
      <3> QED BY <2>2, <3>1, SMT DEF GivenAt
    <2>11. MovedWhole'
      BY <2>5, <2>8, <2>10 DEF IInv, MovedWhole, Nets
    <2>12. MovingAt("attach", req[r].at)'
      <3>1. ASSUME NEW i \in Instances, i <= a PROVE vm'[i].owner = named
        <4>1. i \in Nat /\ a \in Nat
          BY <2>2, FirstInstance
        <4>2. i = a \/ i < a
          BY <3>1, <4>1, SMT
        <4> QED BY <2>2, <2>6, <4>2
      <3>2. req'[r].at = a
        BY <2>5 DEF a
      <3> QED BY <2>2, <2>5, <3>1, <3>2 DEF MovingAt
    <2>13. "attach" \in Working /\ "attach" \notin Early
      BY DEF Working, Early
    <2> HIDE DEF Early, Working, Stages
    <2> QED BY <2>1, <2>5, <2>7, <2>8, <2>9, <2>11, <2>12, <2>13, Advance
  <1> QED BY <1>1, <1>2 DEF ChownVM

LEMMA AttachNICIInv == ASSUME IInv, NEW r \in Requests, AttachNIC(r) PROVE IInv'
  <1> DEFINE k == Attaching(r)
  <1>0. /\ pc[r] = "attach" /\ pc[r] \in Working /\ pc[r] \in Stages /\ pc[r] \notin Early
        /\ UNCHANGED core /\ k \in Nets
    BY DEF AttachNIC, Working, Stages, Early, Attaching, Nets
  <1> HIDE DEF k
  <1>1. CASE (Fails \/ Works) /\ Return(r)
    BY <1>0, <1>1, ReturnIInv
  <1>2. CASE /\ Works
             /\ vm' = [vm EXCEPT ![req[r].at].nics[k] = @ + 1]
             /\ UNCHANGED <<named, lastUser, net, pc, req>>
    <2>1. vm \in [Instances -> VMs]
      BY DEF IInv, TypeOK, VMs
    <2>2. GivenAt("attach") /\ MovingAt("attach", req[r].at) /\ req[r].at \in Instances
      BY <1>0 DEF IInv, Given, Moving, MovingAt
    <2>3. vm[req[r].at].nics[k] + 1 \in Nat
      <3>1. vm[req[r].at].nics[k] \in Nat
        BY <1>0, <2>1, <2>2 DEF VMs
      <3> QED BY <3>1, SMT
    <2>4. vm' \in [Instances -> VMs] /\ SameOwners
      BY <1>0, <1>2, <2>1, <2>2, <2>3, NICChange
    <2>5. pc' = [pc EXCEPT ![r] = "attach"]
      BY <1>0, <1>2 DEF IInv, TypeOK
    <2>6. UNCHANGED <<need, userid, named, net, req>>
      BY <1>0, <1>2 DEF core
    <2>7. TypeOK'
      BY <1>0, <1>2, <2>4, <2>5, <2>6, Typed DEF IInv, TypeOK, Reqs
    <2>8. MovedWhole'
      BY <2>4, <2>6 DEF IInv, MovedWhole, SameOwners
    <2>9. GivenAt("attach")' /\ MovingAt("attach", req[r].at)'
      BY <2>2, <2>4, <2>6 DEF GivenAt, MovingAt, SameOwners
    <2>10. \A i \in Instances : vm'[i].owner \in {vm[i].owner, named}
      BY <2>4 DEF SameOwners
    <2> HIDE DEF Early, Working, Stages
    <2> QED BY <1>0, <2>4, <2>5, <2>6, <2>7, <2>8, <2>9, <2>10, Advance
  <1> QED BY <1>1, <1>2 DEF AttachNIC, k

\* After the last VM all belong to the new user, who is now named.
LEMMA AttachedIInv == ASSUME IInv, NEW r \in Requests, Attached(r) PROVE IInv'
  <1>0. /\ pc[r] = "attach" /\ pc[r] \in Working /\ Works
        /\ UNCHANGED <<named, lastUser, net, vm, need, userid>>
    BY DEF Attached, Working, one, core, Works
  <1>1. /\ req[r] \in Reqs /\ req[r].new = named /\ named \in Nat
        /\ GivenAt("attach") /\ req[r].at \in Instances
        /\ \A i \in Instances : i <= req[r].at => vm[i].owner = named
    BY <1>0 DEF IInv, TypeOK, Reqs, Own, Given, Moving, MovingAt
  <1>2. SameOwners /\ MovedWhole'
    BY <1>0 DEF SameOwners, IInv, MovedWhole
  <1>3. CASE /\ req[r].at + 1 \in Instances
             /\ req' = [req EXCEPT ![r].at = @ + 1] /\ Go(r, "chown vm")
    <2> DEFINE a == req[r].at + 1
               e == [req[r] EXCEPT !.at = a]
    <2>1. req[r].at \in Nat /\ a \in Nat /\ a \in Instances
      BY <1>1, <1>3, FirstInstance
    <2>2. e \in Reqs /\ e.userid = req[r].userid /\ e.at = a /\ e.new = req[r].new
      <3> HIDE DEF a
      <3> QED BY <1>1, <2>1, SMT DEF Reqs
    <2>3. req' = [req EXCEPT ![r] = e] /\ pc' = [pc EXCEPT ![r] = "chown vm"]
      BY <1>3 DEF Go
    <2>4. ASSUME NEW i \in Instances, i < a PROVE vm[i].owner = named
      <3>1. i \in Nat
        BY FirstInstance
      <3>2. i <= req[r].at
        BY <2>1, <2>4, <3>1, SMT
      <3> QED BY <1>1, <3>2
    <2> HIDE DEF a, e
    <2>5. /\ req' \in [Requests -> Reqs] /\ req'[r] = e
          /\ \A s \in Requests : s # r => req'[s] = req[s]
      BY <2>2, <2>3 DEF IInv, TypeOK, Reqs
    <2>6. "chown vm" \in Stages /\ "chown vm" \in Working /\ "chown vm" \notin Early
      BY DEF Stages, Working, Early
    <2>7. TypeOK'
      BY <1>0, <2>3, <2>5, <2>6, Typed DEF IInv, TypeOK, VMs
    <2>8. GivenAt("chown vm")' /\ MovingAt("chown vm", req[r].at)'
      BY <1>0, <1>1, <2>1, <2>2, <2>4, <2>5 DEF GivenAt, MovingAt
    <2>9. \A i \in Instances : vm'[i].owner \in {vm[i].owner, named}
      BY <1>0
    <2> HIDE DEF Early, Working, Stages
    <2> QED BY <1>0, <1>2, <2>2, <2>3, <2>5, <2>6, <2>7, <2>8, <2>9, Advance
  <1>4. CASE /\ req[r].at + 1 \notin Instances
             /\ req' = [req EXCEPT ![r].userid = req[r].new] /\ Go(r, "end")
    <2> DEFINE e == [req[r] EXCEPT !.userid = req[r].new]
    <2>1. e \in Reqs /\ e.userid = named /\ e.at = req[r].at
      BY <1>1, SMT DEF Reqs
    <2>2. req' = [req EXCEPT ![r] = e] /\ pc' = [pc EXCEPT ![r] = "end"]
      BY <1>4 DEF Go
    <2> HIDE DEF e
    <2>3. /\ req' \in [Requests -> Reqs] /\ req'[r] = e
          /\ \A s \in Requests : s # r => req'[s] = req[s]
      BY <2>1, <2>2 DEF IInv, TypeOK, Reqs
    <2>4. "end" \in Stages \ Working
      BY DEF Stages, Working
    <2>5. TypeOK'
      BY <1>0, <2>2, <2>3, <2>4, Typed DEF IInv, TypeOK, VMs
    <2>6. Right(req'[r].userid)
      <3>1. \A i \in Instances : vm[i].owner = named
        BY <1>1, <1>4, LastInstance
      <3> QED BY <2>1, <2>3, <3>1 DEF Right
    <2>7. req'[r].at \in Instances
      BY <1>1, <2>1, <2>3
    <2> QED BY <1>0, <1>2, <2>2, <2>3, <2>4, <2>5, <2>6, <2>7, Quiet
  <1> QED BY <1>3, <1>4 DEF Attached

\* The user is deleted while it owns no VM, and nobody was told of it.
LEMMA DeleteUserIInv == ASSUME IInv, NEW r \in Requests, DeleteUser(r) PROVE IInv'
  <1>0. /\ pc[r] \in Early /\ pc[r] \in Working /\ pc' = [pc EXCEPT ![r] = "end"]
        /\ Works \/ Fails
        /\ UNCHANGED <<lastUser, net, vm, need, userid, req>>
    BY DEF DeleteUser, Early, Working, Go, core
  <1>1. \A i \in Instances : vm[i].owner = Former
    BY <1>0 DEF IInv, Untouched
  <1>2. named' \in {0, named} /\ named' \in Nat
    <2>1. named \in Nat /\ 0 \in Nat
      BY DEF IInv, TypeOK
    <2>2. named' = named \/ named' = 0
      BY DEF DeleteUser
    <2> QED BY <2>1, <2>2
  <1>3. TypeOK'
    <2>1. "end" \in Stages
      BY DEF Stages
    <2> QED BY <1>0, <1>2, <2>1, Typed DEF IInv, TypeOK, VMs, Reqs
  <1>4. ASSUME NEW s \in Requests PROVE pc'[s] \notin Working
    <2>1. pc \in [Requests -> Stages] /\ "end" \notin Working
      BY DEF IInv, TypeOK, Working
    <2>2. s # r => pc[s] \notin Working
      BY <1>0 DEF IInv, Alone
    <2> HIDE DEF Working, Stages
    <2> QED BY <1>0, <2>1, <2>2
  <1>5. Alone' /\ Own'
    BY <1>4, Zenon DEF Alone, Own, Working
  <1>6. Untouched' /\ MovedWhole'
    BY <1>0, <1>1, Zenon DEF Untouched, MovedWhole, Former
  <1>7. Given'
    BY <1>4, Zenon DEF Given, GivenAt, Working
  <1>8. Moving'
    <2>1. \A s \in Requests : req'[s].at \in Instances
      BY <1>0 DEF IInv, Moving, MovingAt
    <2> QED BY <1>4, <2>1, Zenon DEF Moving, MovingAt, Working
  <1>9. \A u : Right(u) => u \in {0, Former}
    BY <1>1, FirstInstance DEF Right
  <1>10. \A u \in {0, Former} : Right(u)'
    BY Zenon DEF Right, Former
  <1>11. Right(userid)' /\ \A s \in Requests : Right(req[s].userid)'
    BY <1>0, <1>9, <1>10 DEF IInv
  <1> QED BY <1>3, <1>5, <1>6, <1>7, <1>8, <1>11 DEF IInv

-----------------------------------------------------------------------------
(* Crashes, and the theorems.                                              *)

LEMMA CrashIInv == ASSUME IInv, Crash PROVE IInv'
  <1>0. /\ pc' = [s \in Requests |-> "idle"] /\ req' = [s \in Requests |-> Idle]
        /\ UNCHANGED <<named, lastUser, net, vm, need, userid, failures>>
        /\ crashes < MaxCrashes /\ crashes' = crashes + 1
    BY DEF Crash, one, core
  <1>1. Idle \in Reqs /\ Idle.userid = 0 /\ Idle.at = 1 /\ "idle" \in Stages
    BY DEF Idle, Reqs, Stages
  <1>2. "idle" \notin Working
    BY DEF Working
  <1>3. \A s \in Requests : pc'[s] \notin Working /\ req'[s] = Idle
    BY <1>0, <1>2
  <1>4. TypeOK'
    <2>1. crashes' \in 0 .. MaxCrashes
      BY <1>0, OrphanAssumption, SMT DEF IInv, TypeOK
    <2>2. req' \in [Requests -> Reqs] /\ pc' \in [Requests -> Stages]
      BY <1>0, <1>1
    <2> QED BY <1>0, <2>1, <2>2 DEF IInv, TypeOK, Reqs
  <1>5. Alone' /\ Own'
    BY <1>3, Zenon DEF Alone, Own, Working
  <1>6. MovedWhole'
    BY <1>0 DEF IInv, MovedWhole
  <1>7. Untouched'
    <2>1. \A e \in Early : e \in Working
      BY DEF Early, Working
    <2>2. ~\E s \in Requests : pc'[s] \in Early
      BY <1>3, <2>1
    <2> QED BY <1>0, <2>2 DEF IInv, Untouched, Early, Former
  <1>8. Given'
    BY <1>3, Zenon DEF Given, GivenAt, Working
  <1>9. Moving'
    <2>1. \A s \in Requests : req'[s].at \in Instances
      BY <1>1, <1>3, FirstInstance
    <2> QED BY <1>3, <2>1, Zenon DEF Moving, MovingAt, Working
  <1>10. \A u : Right(u) => Right(u)'
    BY <1>0 DEF Right
  <1>11. Right(0)
    BY DEF Right
  <1>12. Right(userid)' /\ \A s \in Requests : Right(req[s].userid)'
    BY <1>0, <1>1, <1>3, <1>10, <1>11 DEF IInv
  <1> QED BY <1>4, <1>5, <1>6, <1>7, <1>8, <1>9, <1>12 DEF IInv

LEMMA InitIInv == Init => IInv
  <1> SUFFICES ASSUME Init PROVE IInv
    OBVIOUS
  <1>0. /\ named = 0 /\ lastUser = Former /\ userid = Former
        /\ net = [k \in Nets |-> [owner |-> Former, name |-> Former]]
        /\ need \in Needs
        /\ vm = [i \in Instances |-> [owner |-> Former, nics |-> need[i]]]
        /\ pc = [s \in Requests |-> "idle"] /\ req = [s \in Requests |-> Idle]
        /\ failures = 0 /\ crashes = 0
    BY DEF Init
  <1>1. Idle \in Reqs /\ Idle.userid = 0 /\ Idle.at = 1 /\ Former \in Nat
    BY DEF Idle, Reqs, Former
  <1>2. \A s \in Requests : pc[s] = "idle" /\ req[s] = Idle
    BY <1>0
  <1>3. TypeOK
    <2>1. need \in [Instances -> [Nets -> Nat]]
      BY <1>0, OrphanAssumption DEF Nets
    <2>2. vm \in [Instances -> [owner : Nat, nics : [Nets -> Nat]]]
      BY <1>0, <1>1, <2>1
    <2>3. net \in [Nets -> [owner : Nat, name : Nat]]
      BY <1>0, <1>1
    <2>4. req \in [Requests -> Reqs]
      BY <1>0, <1>1
    <2>5. pc \in [Requests -> Stages]
      BY <1>0 DEF Stages
    <2>6. failures \in 0 .. MaxFailures /\ crashes \in 0 .. MaxCrashes
      BY <1>0, OrphanAssumption, SMT
    <2> QED BY <1>0, <1>1, <2>2, <2>3, <2>4, <2>5, <2>6 DEF TypeOK, Reqs
  <1>4. \A i \in Instances : vm[i].owner = Former
    BY <1>0
  <1>5. Alone /\ Own /\ Given
    BY <1>2 DEF Alone, Own, Given, GivenAt, Working
  <1>6. Untouched /\ MovedWhole
    BY <1>4, Zenon DEF Untouched, MovedWhole
  <1>7. Moving
    BY <1>1, <1>2, FirstInstance DEF Moving, MovingAt
  <1>8. Right(userid) /\ \A s \in Requests : Right(req[s].userid)
    BY <1>0, <1>1, <1>2 DEF Right
  <1> QED BY <1>3, <1>5, <1>6, <1>7, <1>8 DEF IInv

LEMMA StutterIInv == ASSUME IInv, UNCHANGED vars PROVE IInv'
  <1> USE DEF vars, one, core, bounds
  <1>1. TypeOK'
    BY DEF IInv, TypeOK
  <1>2. Alone' /\ Own' /\ Untouched'
    BY DEF IInv, Alone, Own, Untouched, Working, Early, Former
  <1>3. Given' /\ Moving'
    BY DEF IInv, Given, GivenAt, Moving, MovingAt
  <1>4. MovedWhole'
    BY DEF IInv, MovedWhole
  <1>5. Right(userid)' /\ \A s \in Requests : Right(req[s].userid)'
    BY DEF IInv, Right
  <1> QED BY <1>1, <1>2, <1>3, <1>4, <1>5 DEF IInv

\* What rounds have done to networks and VMs is what their stages say, rounds
\* that have a user of their own do not overlap, and what is claimed of moved
\* VMs holds, in every reachable state.
THEOREM Invariance == Spec => []IInv
  <1>1. IInv /\ [Next]_vars => IInv'
    <2> SUFFICES ASSUME IInv, [Next]_vars PROVE IInv'
      OBVIOUS
    <2>1. ASSUME NEW r \in Requests, Step(r) PROVE IInv'
      BY <2>1, InfoIInv, ByNameIInv, CreateUserIInv, FindNetsIInv, ChownNetsIInv,
         DetachNICIInv, RenameNetsIInv, DeleteUserIInv, ChownVMIInv, AttachNICIInv,
         AttachedIInv, EndIInv DEF Step
    <2> QED BY <2>1, BeginIInv, CrashIInv, StutterIInv DEF Next
  <1> QED BY <1>1, InitIInv, PTL DEF Spec

\* The variables keep their types (left, a sum, is not typed).
THEOREM TypeCorrect == Spec => []TypeOK
  <1>1. IInv => TypeOK
    BY DEF IInv
  <1> QED BY <1>1, Invariance, PTL

\* For groups of any size and any number of overlapping rounds, failures and
\* crashes: a VM that has been moved belongs to the user of the group's name, and
\* so do both networks.
THEOREM MovedWithNets == Spec => []MovedWhole
  <1>1. IInv => MovedWhole
    BY DEF IInv
  <1> QED BY <1>1, Invariance, PTL

\* "Should only happen if everything is ok" does: a new user that a round
\* names, or the core knows, owns every VM of the group.
THEOREM NamedIfOK == Spec => []OnlyIfOK
  <1>1. IInv => OnlyIfOK
    BY DEF IInv, OnlyIfOK, Right
  <1> QED BY <1>1, Invariance, PTL

=============================================================================
