------------------------ MODULE VMProvisioning_proofs -----------------------
(***************************************************************************)
(* For any number of instances, requests, failures, crashes and downs:     *)
(* Monitoring terminates no VM but those of deleted instances, and an      *)
(* instance has no two VMs unless its lookup failed or two requests were   *)
(* about to create it.                                                     *)
(***************************************************************************)
EXTENDS VMProvisioning, FiniteSetTheorems, TLAPS

\* In the list of VMs l, k is no VM or one of instance i.
Names(l, i, k) == k # 0 => k \in 1 .. Len(l) /\ l[k].inst = i

\* An ID in the data of an instance, wherever it is, is that of one of its
\* VMs.
Known ==
    /\ \A i \in Instances : Names(vms, i, data[i])
    /\ \A m \in wire : Names(vms, m[1], m[2])
    /\ \A r \in Requests, i \in Instances : Names(vms, i, req[r].data[i])
    /\ \A r \in Requests :
          pc[r] \in {"chown", "publish"} => fresh[r] \in 1 .. Len(vms)

\* An instance that a request has as deleted is deleted, and so are those
\* whose VMs it is about to terminate.
Deleted ==
    \A r \in Requests :
        /\ \A i \in Instances : req[r].status[i] = "DEL" => status[i] = "DEL"
        /\ \A v \in doomed[r] : v \in 1 .. Len(vms) /\ status[vms[v].inst] = "DEL"

IInv == TypeOK /\ Known /\ Deleted

\* VMs stay, and stay those of their instances.
Grows(l, m) ==
    /\ Len(l) <= Len(m)
    /\ \A v \in 1 .. Len(l) : m[v].inst = l[v].inst

-----------------------------------------------------------------------------

\* What names a VM of an instance goes on doing so.
LEMMA NamesGrows ==
    ASSUME NEW l \in Seq(VM), NEW m \in Seq(VM), Grows(l, m), NEW i, NEW k \in Nat,
           Names(l, i, k)
    PROVE  Names(m, i, k)
  BY DEF Names, Grows

LEMMA TerminatedGrows ==
    ASSUME TypeOK, NEW some
    PROVE  Terminated(some) \in Seq(VM) /\ Grows(vms, Terminated(some))
  <1> DEFINE t == Terminated(some)
  <1>1. DOMAIN vms = 1 .. Len(vms) /\ Len(vms) \in Nat /\ \A v \in 1 .. Len(vms) : vms[v] \in VM
    BY DEF TypeOK
  <1>2. \A v \in 1 .. Len(vms) : t[v] \in VM /\ t[v].inst = vms[v].inst
    BY <1>1 DEF Terminated, VM
  <1>3. t \in [1 .. Len(vms) -> VM]
    BY <1>1, <1>2 DEF Terminated
  <1>4. t \in Seq(VM) /\ Len(t) = Len(vms)
    BY <1>1, <1>3
  <1> QED BY <1>1, <1>2, <1>4 DEF Grows

\* One VM changes, but not its instance.
LEMMA UpdatedGrows ==
    ASSUME TypeOK, NEW v \in 1 .. Len(vms), NEW w \in VM, w.inst = vms[v].inst
    PROVE  [vms EXCEPT ![v] = w] \in Seq(VM) /\ Grows(vms, [vms EXCEPT ![v] = w])
  <1> DEFINE t == [vms EXCEPT ![v] = w]
  <1>1. DOMAIN vms = 1 .. Len(vms) /\ Len(vms) \in Nat /\ vms \in [1 .. Len(vms) -> VM]
    BY DEF TypeOK
  <1>2. t \in [1 .. Len(vms) -> VM]
    BY <1>1
  <1>3. t \in Seq(VM) /\ Len(t) = Len(vms)
    BY <1>1, <1>2
  <1> QED BY <1>1, <1>3 DEF Grows

LEMMA AppendedGrows ==
    ASSUME TypeOK, NEW w \in VM
    PROVE  /\ Append(vms, w) \in Seq(VM) /\ Grows(vms, Append(vms, w))
           /\ Len(Append(vms, w)) = Len(vms) + 1 /\ Append(vms, w)[Len(vms) + 1] = w
  BY DEF TypeOK, Grows

\* Deletion is for good.
LEMMA DeletedGrows ==
    ASSUME IInv, vms' \in Seq(VM), Grows(vms, vms'),
           \A i \in Instances : status[i] = "DEL" => status'[i] = "DEL",
           \A r \in Requests : req'[r].status = req[r].status,
           \A r \in Requests : doomed'[r] \subseteq doomed[r]
    PROVE  Deleted'
  <1> SUFFICES ASSUME NEW r \in Requests
               PROVE  /\ \A i \in Instances : req'[r].status[i] = "DEL" => status'[i] = "DEL"
                      /\ \A v \in doomed'[r] : v \in 1 .. Len(vms') /\ status'[vms'[v].inst] = "DEL"
    BY DEF Deleted
  <1>1. ASSUME NEW v \in doomed'[r]
        PROVE  v \in 1 .. Len(vms') /\ status'[vms'[v].inst] = "DEL"
    <2>1. v \in 1 .. Len(vms) /\ status[vms[v].inst] = "DEL"
      BY <1>1 DEF IInv, Deleted
    <2>2. vms \in Seq(VM) /\ Len(vms) \in Nat /\ Len(vms') \in Nat
      BY DEF IInv, TypeOK
    <2>3. vms[v] \in VM
      BY <2>1, <2>2
    <2>4. vms'[v].inst = vms[v].inst /\ v \in 1 .. Len(vms')
      BY <2>1, <2>2 DEF Grows
    <2> QED BY <2>1, <2>3, <2>4 DEF VM
  <1> QED BY <1>1 DEF IInv, Deleted

LEMMA InitIInv == Init => IInv
  <1> SUFFICES ASSUME Init PROVE IInv
    OBVIOUS
  <1>1. vms \in Seq(VM) /\ Len(vms) = 0
    BY DEF Init
  <1>2. TypeOK
    <2>1. NoRequest \in Copy
      BY DEF NoRequest, Copy
    <2>2. req \in [Requests -> Copy] /\ pc \in [Requests -> Phases]
      BY <2>1 DEF Init, Phases
    <2>3. status \in [Instances -> {"live", "DEL"}] /\ data \in [Instances -> Nat]
      BY DEF Init
    <2>4. /\ unseen \in [Requests -> SUBSET Instances] /\ missing \in [Requests -> SUBSET Instances]
          /\ doomed \in [Requests -> SUBSET Nat] /\ fresh \in [Requests -> Nat]
      BY DEF Init
    <2>5. userid \in Nat /\ users \in Nat /\ wire \subseteq Instances \X Nat
      BY DEF Init
    <2> QED BY <1>1, <2>2, <2>3, <2>4, <2>5 DEF TypeOK
  <1>3. Known
    BY DEF Init, Known, Names, NoRequest
  <1>4. Deleted
    BY DEF Init, Deleted, NoRequest
  <1> QED BY <1>2, <1>3, <1>4 DEF IInv

-----------------------------------------------------------------------------
(* Every step preserves it.                                                *)

\* What IDs name, they name in a longer list.
LEMMA KnownGrows ==
    ASSUME IInv, vms' \in Seq(VM), Grows(vms, vms')
    PROVE  /\ \A i \in Instances : Names(vms', i, data[i])
           /\ \A m \in wire : Names(vms', m[1], m[2])
           /\ \A r \in Requests, i \in Instances : Names(vms', i, req[r].data[i])
           /\ \A r \in Requests :
                 pc[r] \in {"chown", "publish"} => fresh[r] \in 1 .. Len(vms')
  <1>1. vms \in Seq(VM) /\ Len(vms) \in Nat /\ Len(vms') \in Nat
    BY DEF IInv, TypeOK
  <1>2. \A i, k : k \in Nat /\ Names(vms, i, k) => Names(vms', i, k)
    BY <1>1, NamesGrows
  <1>3. \A i \in Instances : Names(vms', i, data[i])
    BY <1>2 DEF IInv, TypeOK, Known
  <1>4. \A m \in wire : Names(vms', m[1], m[2])
    <2> SUFFICES ASSUME NEW m \in wire PROVE Names(vms', m[1], m[2])
      OBVIOUS
    <2>1. m[2] \in Nat
      BY DEF IInv, TypeOK
    <2> QED BY <1>2, <2>1 DEF IInv, Known
  <1>5. \A r \in Requests, i \in Instances : Names(vms', i, req[r].data[i])
    <2> SUFFICES ASSUME NEW r \in Requests, NEW i \in Instances
                 PROVE  Names(vms', i, req[r].data[i])
      OBVIOUS
    <2>1. req[r].data[i] \in Nat
      BY DEF IInv, TypeOK, Copy
    <2> QED BY <1>2, <2>1 DEF IInv, Known
  <1>6. \A r \in Requests :
           pc[r] \in {"chown", "publish"} => fresh[r] \in 1 .. Len(vms')
    BY <1>1 DEF IInv, Known, Grows
  <1> QED BY <1>3, <1>4, <1>5, <1>6

\* The same list is one that grows.
LEMMA Same ==
    ASSUME IInv, UNCHANGED vms
    PROVE  vms' \in Seq(VM) /\ Grows(vms, vms')
  BY DEF IInv, TypeOK, Grows

LEMMA BeginIInv == ASSUME IInv, NEW r \in Requests, Begin(r) PROVE IInv'
  <1> DEFINE copy == [status |-> status, data |-> data, userid |-> userid]
  <1>1. copy \in Copy
    BY DEF IInv, TypeOK, Copy
  <1>2. \A q \in Requests : req'[q] = IF q = r THEN copy ELSE req[q]
    BY DEF Begin, IInv, TypeOK
  <1>3. UNCHANGED <<vms, status, data, userid, users, wire, unseen, doomed, missing, fresh>>
    BY DEF Begin, core
  <1>4. pc' = [pc EXCEPT ![r] = "pool"]
    BY DEF Begin, Go
  <1>5. TypeOK'
    <2>1. pc' \in [Requests -> Phases]
      BY <1>4 DEF IInv, TypeOK, Phases
    <2>2. req' \in [Requests -> Copy]
      BY <1>1 DEF Begin, IInv, TypeOK
    <2> QED BY <1>3, <2>1, <2>2 DEF IInv, TypeOK
  <1>6. copy.data = data /\ copy.status = status
    OBVIOUS
  <1> HIDE DEF copy
  <1>7. \A q \in Requests, i \in Instances : Names(vms, i, req'[q].data[i])
    BY <1>2, <1>6 DEF IInv, Known
  <1>8. \A q \in Requests :
           pc'[q] \in {"chown", "publish"} => fresh[q] \in 1 .. Len(vms)
    BY <1>4 DEF IInv, TypeOK, Known
  <1>9. Known'
    BY <1>3, <1>7, <1>8 DEF IInv, Known
  <1>10. Deleted'
    BY <1>2, <1>3, <1>6 DEF IInv, Deleted
  <1> QED BY <1>5, <1>9, <1>10 DEF IInv

LEMMA ReadPoolIInv == ASSUME IInv, NEW r \in Requests, ReadPool(r) PROVE IInv'
  <1>1. \A v \in Doomed(r) : v \in 1 .. Len(vms) /\ status[vms[v].inst] = "DEL"
    <2> SUFFICES ASSUME NEW v \in Doomed(r)
                 PROVE  v \in 1 .. Len(vms) /\ status[vms[v].inst] = "DEL"
      OBVIOUS
    <2>1. v \in 1 .. Len(vms) /\ Len(vms) \in Nat
      BY DEF Doomed, Pool, Exists, IInv, TypeOK
    <2>2. PICK i \in Instances : req[r].data[i] = v /\ req[r].status[i] = "DEL"
      BY DEF Doomed
    <2>3. vms[v].inst = i
      BY <2>1, <2>2 DEF IInv, Known, Names
    <2> QED BY <2>1, <2>2, <2>3 DEF IInv, Deleted
  <1>2. /\ UNCHANGED <<vms, status, data, userid, users, wire, req, missing, fresh>>
        /\ \E step \in {"end", "delete", "find"} : pc' = [pc EXCEPT ![r] = step]
        /\ \/ UNCHANGED <<unseen, doomed>>
           \/ /\ \E some \in SUBSET Doomed(r) : doomed' = [doomed EXCEPT ![r] = some]
              /\ \E s \in SUBSET Instances : unseen' = [unseen EXCEPT ![r] = s]
    BY DEF ReadPool, Go, core, local
  <1>3. TypeOK'
    <2>1. pc' \in [Requests -> Phases]
      BY <1>2 DEF IInv, TypeOK, Phases
    <2>2. unseen' \in [Requests -> SUBSET Instances]
      BY <1>2 DEF IInv, TypeOK
    <2>3. Doomed(r) \subseteq Nat
      BY <1>1 DEF IInv, TypeOK
    <2>4. doomed' \in [Requests -> SUBSET Nat]
      BY <1>2, <2>3 DEF IInv, TypeOK
    <2> QED BY <1>2, <2>1, <2>2, <2>3, <2>4 DEF IInv, TypeOK
  <1>4. Known'
    BY <1>2 DEF IInv, TypeOK, Known
  <1>5. \A q \in Requests : \A v \in doomed'[q] : v \in doomed[q] \/ v \in Doomed(r)
    BY <1>2 DEF IInv, TypeOK
  <1>6. Deleted'
    BY <1>1, <1>2, <1>5 DEF IInv, Deleted
  <1> QED BY <1>3, <1>4, <1>6 DEF IInv

LEMMA FindIInv == ASSUME IInv, NEW r \in Requests, Find(r) PROVE IInv'
  <1>1. /\ UNCHANGED <<vms, status, data, userid, users, wire, req, doomed, fresh>>
        /\ \E step \in {"delete", "find"} : pc' = [pc EXCEPT ![r] = step]
        /\ \E i \in unseen[r] :
              /\ unseen' = [unseen EXCEPT ![r] = @ \ {i}]
              /\ missing' \in {missing, [missing EXCEPT ![r] = @ \cup {i}]}
    BY DEF Find, Go, core
  <1>2. TypeOK'
    <2>1. pc' \in [Requests -> Phases]
      BY <1>1 DEF IInv, TypeOK, Phases
    <2>2. unseen' \in [Requests -> SUBSET Instances]
      BY <1>1 DEF IInv, TypeOK
    <2>3. PICK i \in Instances :
             missing' \in {missing, [missing EXCEPT ![r] = @ \cup {i}]}
      BY <1>1 DEF IInv, TypeOK
    <2>4. missing' \in [Requests -> SUBSET Instances]
      BY <2>3 DEF IInv, TypeOK
    <2> QED BY <1>1, <2>1, <2>2, <2>4 DEF IInv, TypeOK
  <1>3. Known'
    BY <1>1 DEF IInv, TypeOK, Known
  <1>4. Deleted'
    BY <1>1 DEF IInv, Deleted
  <1> QED BY <1>2, <1>3, <1>4 DEF IInv

LEMMA DeleteIInv == ASSUME IInv, NEW r \in Requests, Delete(r) PROVE IInv'
  <1>1. /\ UNCHANGED <<status, data, userid, users, wire, req, unseen, missing, fresh>>
        /\ \E step \in {"end", "prepare"} : pc' = [pc EXCEPT ![r] = step]
        /\ doomed' = [doomed EXCEPT ![r] = {}]
        /\ \E some : vms' = Terminated(some)
    BY DEF Delete, Go, core
  <1>2. vms' \in Seq(VM) /\ Grows(vms, vms')
    BY <1>1, TerminatedGrows DEF IInv
  <1>3. TypeOK'
    <2>1. pc' \in [Requests -> Phases]
      BY <1>1 DEF IInv, TypeOK, Phases
    <2>2. doomed' \in [Requests -> SUBSET Nat]
      BY <1>1 DEF IInv, TypeOK
    <2> QED BY <1>1, <1>2, <2>1, <2>2 DEF IInv, TypeOK
  <1>4. Known'
    BY <1>1, <1>2, KnownGrows DEF IInv, TypeOK, Known
  <1>5. Deleted'
    BY <1>1, <1>2, DeletedGrows DEF IInv, TypeOK
  <1> QED BY <1>3, <1>4, <1>5 DEF IInv

LEMMA PrepareIInv == ASSUME IInv, NEW r \in Requests, Prepare(r) PROVE IInv'
  <1>1. /\ UNCHANGED <<vms, status, data, wire, unseen, doomed, fresh>>
        /\ \E step \in {"idle", "create"} : pc' = [pc EXCEPT ![r] = step]
        /\ missing' \in {missing, [missing EXCEPT ![r] = {}]}
        /\ \/ UNCHANGED <<userid, users, req>>
           \/ /\ users' = users + 1 /\ userid' = users + 1
              /\ req' = [req EXCEPT ![r].userid = users + 1]
    BY DEF Prepare, Go, core
  <1> DEFINE copy == [req[r] EXCEPT !.userid = users + 1]
  <1>a. /\ req[r] \in Copy /\ users + 1 \in Nat /\ req \in [Requests -> Copy]
    BY DEF IInv, TypeOK
  <1>b. /\ copy \in Copy /\ copy.status = req[r].status /\ copy.data = req[r].data
    BY <1>a DEF Copy
  <1>c. req' = req \/ req' = [req EXCEPT ![r] = copy]
    BY <1>1
  <1> HIDE DEF copy
  <1>2. \A q \in Requests : /\ req'[q].status = req[q].status
                            /\ req'[q].data = req[q].data
    BY <1>a, <1>b, <1>c
  <1>3. req' \in [Requests -> Copy]
    BY <1>a, <1>b, <1>c
  <1>4. TypeOK'
    <2>1. pc' \in [Requests -> Phases]
      BY <1>1 DEF IInv, TypeOK, Phases
    <2>2. userid' \in Nat /\ users' \in Nat
      BY <1>1 DEF IInv, TypeOK
    <2>3. missing' \in [Requests -> SUBSET Instances]
      BY <1>1 DEF IInv, TypeOK
    <2> QED BY <1>1, <1>3, <2>1, <2>2, <2>3 DEF IInv, TypeOK
  <1>5. Known'
    BY <1>1, <1>2 DEF IInv, TypeOK, Known
  <1>6. Deleted'
    BY <1>1, <1>2 DEF IInv, Deleted
  <1> QED BY <1>4, <1>5, <1>6 DEF IInv

LEMMA InstantiateIInv == ASSUME IInv, NEW r \in Requests, Instantiate(r) PROVE IInv'
  <1>1. CASE UNCHANGED <<vms, req, fresh>>
    <2>1. /\ UNCHANGED <<vms, status, data, userid, users, wire, req, unseen, doomed, fresh>>
          /\ \E step \in {"end", "create"} : pc' = [pc EXCEPT ![r] = step]
          /\ \E i : missing' = [missing EXCEPT ![r] = @ \ {i}]
      <3>1. /\ UNCHANGED <<core, wire, unseen, doomed>>
            /\ \E i \in missing[r] :
                  /\ missing' = [missing EXCEPT ![r] = @ \ {i}]
                  /\ \/ Go(r, IF missing'[r] = {} THEN "end" ELSE "create")
                     \/ vms' = Append(vms, [inst |-> i, owner |-> 0, state |-> "active"])
        BY DEF Instantiate
      <3>2. ASSUME NEW w, vms' = Append(vms, w) PROVE FALSE
        BY <1>1, <3>2 DEF IInv, TypeOK
      <3> QED BY <1>1, <3>1, <3>2 DEF Go, core
    <2>2. TypeOK'
      <3>1. pc' \in [Requests -> Phases]
        BY <2>1 DEF IInv, TypeOK, Phases
      <3>2. missing' \in [Requests -> SUBSET Instances]
        BY <2>1 DEF IInv, TypeOK
      <3> QED BY <2>1, <3>1, <3>2 DEF IInv, TypeOK
    <2>3. Known'
      BY <2>1 DEF IInv, TypeOK, Known
    <2>4. Deleted'
      BY <2>1 DEF IInv, Deleted
    <2> QED BY <2>2, <2>3, <2>4 DEF IInv
  <1>2. ASSUME NEW i \in Instances,
               missing' = [missing EXCEPT ![r] = @ \ {i}],
               vms' = Append(vms, [inst |-> i, owner |-> 0, state |-> "active"]),
               req' = [req EXCEPT ![r].data[i] = Len(vms) + 1],
               fresh' = [fresh EXCEPT ![r] = Len(vms) + 1],
               pc' = [pc EXCEPT ![r] = "chown"]
        PROVE  IInv'
    <2> DEFINE w == [inst |-> i, owner |-> 0, state |-> "active"]
    <2>1. UNCHANGED <<status, data, userid, users, wire, unseen, doomed>>
      BY DEF Instantiate, core
    <2>2. /\ vms' \in Seq(VM) /\ Grows(vms, vms') /\ Len(vms') = Len(vms) + 1
          /\ vms'[Len(vms) + 1].inst = i /\ Len(vms) \in Nat
      <3>1. w \in VM
        BY DEF VM
      <3>2. Len(vms) \in Nat
        BY DEF IInv, TypeOK
      <3> QED BY <1>2, <3>1, <3>2, AppendedGrows DEF IInv
    <2> DEFINE copy == [req[r] EXCEPT !.data = [@ EXCEPT ![i] = Len(vms) + 1]]
    <2>a. req[r] \in Copy /\ req \in [Requests -> Copy]
      BY DEF IInv, TypeOK
    <2>b. /\ copy \in Copy /\ copy.status = req[r].status
          /\ \A j \in Instances : copy.data[j] = IF j = i THEN Len(vms) + 1 ELSE req[r].data[j]
      <3> DEFINE d == [req[r].data EXCEPT ![i] = Len(vms) + 1]
      <3>1. req[r].data \in [Instances -> Nat] /\ Len(vms) + 1 \in Nat
        BY <2>2, <2>a DEF Copy
      <3>2. d \in [Instances -> Nat]
        BY <3>1
      <3>3. \A j \in Instances : d[j] = IF j = i THEN Len(vms) + 1 ELSE req[r].data[j]
        BY <3>1
      <3>4. copy = [req[r] EXCEPT !.data = d]
        OBVIOUS
      <3> HIDE DEF d, copy
      <3> QED BY <2>a, <3>2, <3>3, <3>4 DEF Copy
    <2>c. req' = [req EXCEPT ![r] = copy]
      BY <1>2
    <2> HIDE DEF copy
    <2>3. \A q \in Requests : /\ req'[q].status = req[q].status
                              /\ q # r => req'[q] = req[q]
      BY <2>a, <2>b, <2>c
    <2>4. \A j \in Instances :
             req'[r].data[j] = IF j = i THEN Len(vms) + 1 ELSE req[r].data[j]
      BY <2>a, <2>b, <2>c
    <2>5. req' \in [Requests -> Copy]
      BY <2>a, <2>b, <2>c
    <2>6. TypeOK'
      <3>1. pc' \in [Requests -> Phases]
        BY <1>2 DEF IInv, TypeOK, Phases
      <3>2. missing' \in [Requests -> SUBSET Instances]
        BY <1>2 DEF IInv, TypeOK
      <3>3. fresh' \in [Requests -> Nat]
        BY <1>2, <2>2 DEF IInv, TypeOK
      <3> QED BY <2>1, <2>2, <2>5, <3>1, <3>2, <3>3 DEF IInv, TypeOK
    <2>7. \A q \in Requests, j \in Instances : Names(vms', j, req'[q].data[j])
      <3> SUFFICES ASSUME NEW q \in Requests, NEW j \in Instances
                   PROVE  Names(vms', j, req'[q].data[j])
        OBVIOUS
      <3>1. Names(vms', j, req[q].data[j])
        BY <2>2, KnownGrows
      <3>2. Names(vms', i, Len(vms) + 1)
        BY <2>2 DEF Names
      <3> QED BY <2>3, <2>4, <3>1, <3>2
    <2>8. \A q \in Requests : pc'[q] \in {"chown", "publish"} => fresh'[q] \in 1 .. Len(vms')
      <3> SUFFICES ASSUME NEW q \in Requests, pc'[q] \in {"chown", "publish"}
                   PROVE  fresh'[q] \in 1 .. Len(vms')
        OBVIOUS
      <3>1. CASE q = r
        BY <1>2, <2>2, <3>1 DEF IInv, TypeOK
      <3>2. CASE q # r
        <4>1. pc'[q] = pc[q] /\ fresh'[q] = fresh[q]
          BY <1>2, <3>2 DEF IInv, TypeOK
        <4> QED BY <2>2, <4>1, KnownGrows
      <3> QED BY <3>1, <3>2
    <2>9. Known'
      BY <2>1, <2>2, <2>7, <2>8, KnownGrows DEF Known
    <2>10. Deleted'
      BY <2>1, <2>2, <2>3, DeletedGrows
    <2> QED BY <2>6, <2>9, <2>10 DEF IInv
  <1>3. PICK i \in missing[r] :
           /\ missing' = [missing EXCEPT ![r] = @ \ {i}]
           /\ \/ UNCHANGED <<vms, req, fresh>>
              \/ /\ vms' = Append(vms, [inst |-> i, owner |-> 0, state |-> "active"])
                 /\ req' = [req EXCEPT ![r].data[i] = Len(vms) + 1]
                 /\ fresh' = [fresh EXCEPT ![r] = Len(vms) + 1]
                 /\ pc' = [pc EXCEPT ![r] = "chown"]
    BY DEF Instantiate, Go
  <1>4. i \in Instances
    BY DEF IInv, TypeOK
  <1> QED BY <1>1, <1>2, <1>3, <1>4

LEMMA ChownIInv == ASSUME IInv, NEW r \in Requests, Chown(r) PROVE IInv'
  <1>1. /\ UNCHANGED <<status, data, userid, users, wire, req, unseen, missing, doomed, fresh>>
        /\ pc[r] = "chown" /\ pc' = [pc EXCEPT ![r] = "publish"]
    BY DEF Chown, Go, core, local
  <1>2. vms' \in Seq(VM) /\ Grows(vms, vms')
    <2>1. CASE UNCHANGED vms
      BY <2>1, Same
    <2>2. CASE vms' = [vms EXCEPT ![fresh[r]].owner = req[r].userid]
      <3> DEFINE v == fresh[r]
                 w == [vms[v] EXCEPT !.owner = req[r].userid]
      <3>1. v \in 1 .. Len(vms)
        BY <1>1 DEF IInv, Known
      <3>2. vms[v] \in VM
        BY <3>1 DEF IInv, TypeOK
      <3>3. req[r].userid \in Nat
        BY DEF IInv, TypeOK, Copy
      <3>4. w \in VM /\ w.inst = vms[v].inst
        BY <3>2, <3>3 DEF VM
      <3>5. vms' = [vms EXCEPT ![v] = w]
        BY <2>2
      <3> QED BY <3>1, <3>4, <3>5, UpdatedGrows DEF IInv
    <2> QED BY <2>1, <2>2 DEF Chown
  <1>3. TypeOK'
    <2>1. pc' \in [Requests -> Phases]
      BY <1>1 DEF IInv, TypeOK, Phases
    <2> QED BY <1>1, <1>2, <2>1 DEF IInv, TypeOK
  <1>4. Known'
    BY <1>1, <1>2, KnownGrows DEF IInv, TypeOK, Known
  <1>5. Deleted'
    BY <1>1, <1>2, DeletedGrows DEF IInv, TypeOK
  <1> QED BY <1>3, <1>4, <1>5 DEF IInv

LEMMA PublishVMIInv == ASSUME IInv, NEW r \in Requests, PublishVM(r) PROVE IInv'
  <1> DEFINE m == <<vms[fresh[r]].inst, fresh[r]>>
  <1>1. /\ UNCHANGED <<vms, status, data, userid, users, req, unseen, missing, doomed>>
        /\ pc[r] = "publish" /\ \E step \in {"end", "create"} : pc' = [pc EXCEPT ![r] = step]
        /\ wire' = wire \cup {m} /\ fresh' = [fresh EXCEPT ![r] = 0]
    BY DEF PublishVM, Go, core
  <1>2. fresh[r] \in 1 .. Len(vms) /\ vms[fresh[r]] \in VM /\ Len(vms) \in Nat
    BY <1>1 DEF IInv, Known, TypeOK
  <1>3. m \in Instances \X Nat /\ Names(vms, m[1], m[2])
    BY <1>2 DEF VM, Names
  <1>4. TypeOK'
    <2>1. pc' \in [Requests -> Phases]
      BY <1>1 DEF IInv, TypeOK, Phases
    <2>2. fresh' \in [Requests -> Nat]
      BY <1>1 DEF IInv, TypeOK
    <2>3. wire' \subseteq Instances \X Nat
      BY <1>1, <1>3 DEF IInv, TypeOK
    <2> QED BY <1>1, <2>1, <2>2, <2>3 DEF IInv, TypeOK
  <1>5. \A n \in wire' : Names(vms, n[1], n[2])
    BY <1>1, <1>3 DEF IInv, Known
  <1>6. \A q \in Requests : pc'[q] \in {"chown", "publish"} => fresh'[q] \in 1 .. Len(vms)
    BY <1>1 DEF IInv, TypeOK, Known
  <1>7. Known'
    BY <1>1, <1>5, <1>6 DEF IInv, Known
  <1>8. Deleted'
    BY <1>1 DEF IInv, Deleted
  <1> QED BY <1>4, <1>7, <1>8 DEF IInv

LEMMA EndIInv == ASSUME IInv, NEW r \in Requests, End(r) PROVE IInv'
  <1> DEFINE sent == {<<i, req[r].data[i]>> :
                         i \in {j \in Instances : req[r].status[j] # "DEL"}}
  <1>1. /\ UNCHANGED <<vms, status, data, userid, users, unseen, missing, doomed, fresh>>
        /\ pc' = [pc EXCEPT ![r] = "idle"]
        /\ wire' = wire \cup sent /\ req' = [req EXCEPT ![r] = NoRequest]
    BY DEF End, Go, core
  <1>2. \A n \in sent : n \in Instances \X Nat /\ Names(vms, n[1], n[2])
    BY DEF IInv, TypeOK, Copy, Known
  <1>3. NoRequest \in Copy
    BY DEF NoRequest, Copy
  <1>4. TypeOK'
    <2>1. pc' \in [Requests -> Phases]
      BY <1>1 DEF IInv, TypeOK, Phases
    <2>2. req' \in [Requests -> Copy]
      BY <1>1, <1>3 DEF IInv, TypeOK
    <2>3. wire' \subseteq Instances \X Nat
      BY <1>1, <1>2 DEF IInv, TypeOK
    <2> QED BY <1>1, <2>1, <2>2, <2>3 DEF IInv, TypeOK
  <1>5. \A n \in wire' : Names(vms, n[1], n[2])
    BY <1>1, <1>2 DEF IInv, Known
  <1>6. \A q \in Requests : req'[q] = IF q = r THEN NoRequest ELSE req[q]
    BY <1>1 DEF IInv, TypeOK
  <1>7. \A q \in Requests, i \in Instances : Names(vms, i, req'[q].data[i])
    BY <1>6 DEF IInv, Known, Names, NoRequest
  <1>8. Known'
    BY <1>1, <1>5, <1>7 DEF IInv, TypeOK, Known
  <1>9. Deleted'
    BY <1>1, <1>6 DEF IInv, Deleted, NoRequest
  <1> QED BY <1>4, <1>8, <1>9 DEF IInv

LEMMA DownIInv == ASSUME IInv, Down PROVE IInv'
  <1>1. /\ UNCHANGED <<status, data, users, pc, req, unseen, missing, doomed, fresh>>
        /\ userid' = 0 /\ wire' = wire \cup (Instances \X {0})
        /\ \E some : vms' = Terminated(some)
    BY DEF Down, local
  <1>2. vms' \in Seq(VM) /\ Grows(vms, vms')
    BY <1>1, TerminatedGrows DEF IInv
  <1>3. TypeOK'
    BY <1>1, <1>2 DEF IInv, TypeOK
  <1>4. \A m \in wire' : Names(vms', m[1], m[2])
    BY <1>1, <1>2, KnownGrows DEF Names
  <1>5. Known'
    BY <1>1, <1>2, <1>4, KnownGrows DEF Known
  <1>6. Deleted'
    BY <1>1, <1>2, DeletedGrows
  <1> QED BY <1>3, <1>5, <1>6 DEF IInv

LEMMA ArriveIInv == ASSUME IInv, Arrive PROVE IInv'
  <1>1. PICK m \in wire : data' = [data EXCEPT ![m[1]] = m[2]] /\ wire' = wire \ {m}
    BY DEF Arrive
  <1>2. m[1] \in Instances /\ m[2] \in Nat /\ Names(vms, m[1], m[2])
    BY DEF IInv, TypeOK, Known
  <1>3. UNCHANGED <<vms, status, userid, users, pc, req, unseen, missing, doomed, fresh>>
    BY DEF Arrive, local
  <1>4. TypeOK'
    BY <1>1, <1>2, <1>3 DEF IInv, TypeOK
  <1>5. \A i \in Instances : data'[i] = IF i = m[1] THEN m[2] ELSE data[i]
    BY <1>1 DEF IInv, TypeOK
  <1>6. Known'
    BY <1>1, <1>2, <1>3, <1>5 DEF IInv, Known
  <1>7. Deleted'
    BY <1>3 DEF IInv, Deleted
  <1> QED BY <1>4, <1>6, <1>7 DEF IInv

LEMMA SetDeletedIInv == ASSUME IInv, SetDeleted PROVE IInv'
  <1>1. UNCHANGED <<vms, data, userid, users, wire, pc, req, unseen, missing, doomed, fresh>>
    BY DEF SetDeleted, local
  <1>2. \E i \in Instances : status' = [status EXCEPT ![i] = "DEL"]
    BY DEF SetDeleted
  <1>3. TypeOK'
    BY <1>1, <1>2 DEF IInv, TypeOK
  <1>4. \A i \in Instances : status[i] = "DEL" => status'[i] = "DEL"
    BY <1>2 DEF IInv, TypeOK
  <1>5. Known'
    BY <1>1 DEF IInv, Known
  <1>6. Deleted'
    BY <1>1, <1>4, Same, DeletedGrows
  <1> QED BY <1>3, <1>5, <1>6 DEF IInv

LEMMA GoneIInv == ASSUME IInv, Gone PROVE IInv'
  <1>1. UNCHANGED <<status, data, userid, users, wire, pc, req, unseen, missing, doomed, fresh>>
    BY DEF Gone, core, local
  <1>2. PICK v \in DOMAIN vms : vms' = [vms EXCEPT ![v].state = "done"]
    BY DEF Gone
  <1>3. vms' \in Seq(VM) /\ Grows(vms, vms')
    <2> DEFINE w == [vms[v] EXCEPT !.state = "done"]
    <2>1. v \in 1 .. Len(vms) /\ vms[v] \in VM
      BY DEF IInv, TypeOK
    <2>2. w \in VM /\ w.inst = vms[v].inst
      BY <2>1 DEF VM
    <2>3. vms' = [vms EXCEPT ![v] = w]
      BY <1>2
    <2> QED BY <2>1, <2>2, <2>3, UpdatedGrows DEF IInv
  <1>4. TypeOK'
    BY <1>1, <1>3 DEF IInv, TypeOK
  <1>5. Known'
    BY <1>1, <1>3, KnownGrows DEF Known
  <1>6. Deleted'
    BY <1>1, <1>3, DeletedGrows
  <1> QED BY <1>4, <1>5, <1>6 DEF IInv

LEMMA CrashIInv == ASSUME IInv, Crash PROVE IInv'
  <1>1. /\ UNCHANGED <<vms, status, data, userid, users>>
        /\ wire' = {}
        /\ pc' = [r \in Requests |-> "idle"]
        /\ req' = [r \in Requests |-> NoRequest]
        /\ unseen' = [r \in Requests |-> {}] /\ doomed' = [r \in Requests |-> {}]
        /\ missing' = [r \in Requests |-> {}] /\ fresh' = [r \in Requests |-> 0]
    BY DEF Crash, core
  <1>2. NoRequest \in Copy
    BY DEF NoRequest, Copy
  <1>3. TypeOK'
    <2>1. pc' \in [Requests -> Phases]
      BY <1>1 DEF IInv, TypeOK, Phases
    <2>2. req' \in [Requests -> Copy]
      BY <1>1, <1>2 DEF IInv, TypeOK
    <2>3. unseen' \in [Requests -> SUBSET Instances] /\ missing' \in [Requests -> SUBSET Instances]
      BY <1>1 DEF IInv, TypeOK
    <2>4. doomed' \in [Requests -> SUBSET Nat] /\ fresh' \in [Requests -> Nat]
      BY <1>1 DEF IInv, TypeOK
    <2> QED BY <1>1, <2>1, <2>2, <2>3, <2>4 DEF IInv, TypeOK
  <1>4. Known'
    BY <1>1 DEF IInv, Known, Names, NoRequest
  <1>5. Deleted'
    BY <1>1 DEF IInv, Deleted, NoRequest
  <1> QED BY <1>3, <1>4, <1>5 DEF IInv

LEMMA StutterIInv == ASSUME IInv, UNCHANGED vars PROVE IInv'
  <1>1. UNCHANGED <<vms, status, data, userid, users, wire, pc, req, unseen, missing, doomed, fresh>>
    BY DEF vars, core, local
  <1>2. TypeOK'
    BY <1>1 DEF IInv, TypeOK
  <1>3. Known'
    BY <1>1 DEF IInv, Known
  <1>4. Deleted'
    BY <1>1 DEF IInv, Deleted
  <1> QED BY <1>2, <1>3, <1>4 DEF IInv

THEOREM Invariance == Spec => []IInv
  <1>1. IInv /\ [Next]_vars => IInv'
    <2> SUFFICES ASSUME IInv, [Next]_vars PROVE IInv'
      OBVIOUS
    <2>1. ASSUME NEW r \in Requests, Begin(r) \/ Step(r) PROVE IInv'
      BY <2>1, BeginIInv, ReadPoolIInv, FindIInv, DeleteIInv, PrepareIInv,
         InstantiateIInv, ChownIInv, PublishVMIInv, EndIInv DEF Step
    <2>2. CASE UNCHANGED vars
      BY <2>2, StutterIInv
    <2> QED BY <2>1, <2>2, DownIInv, ArriveIInv, SetDeletedIInv, GoneIInv, CrashIInv DEF Next
  <1> QED BY <1>1, InitIInv, PTL DEF Spec

-----------------------------------------------------------------------------

\* Monitoring terminates no VM but those of deleted instances
\* (HandleDeletedInstances), however old the request is and whatever IDs are
\* published late or after a Down: IDs name VMs of their own instance only,
\* and deletion is for good.
THEOREM TerminatesOnlyDeleted == Spec => OnlyDeleted
  <1>1. ASSUME IInv, NEW r \in Requests, Delete(r), NEW v \in DOMAIN vms, vms'[v] # vms[v]
        PROVE  status[vms[v].inst] = "DEL"
    <2>1. PICK some \in SUBSET doomed[r] : vms' = Terminated(some)
      BY <1>1 DEF Delete
    <2>2. v \in some
      BY <1>1, <2>1 DEF Terminated
    <2> QED BY <1>1, <2>1, <2>2 DEF IInv, Deleted
  <1>2. IInv /\ [Next]_vars =>
          [(\E r \in Requests : Delete(r)) =>
              \A v \in DOMAIN vms : vms'[v] # vms[v] => status[vms[v].inst] = "DEL"]_vars
    BY <1>1
  <1> QED BY <1>2, Invariance, PTL DEF Spec, OnlyDeleted

\* Every variable of the requests, the core and the pool keeps its type, the
\* records in a list of VMs of any length included.
THEOREM TypeCorrect == Spec => []TypeOK
  BY Invariance, PTL DEF IInv

-----------------------------------------------------------------------------
(* OneVM is not inductive: nothing in it keeps a request from creating a    *)
(* VM for an instance that has one by then.  OnceInv adds that no VM is     *)
(* named after an instance some request is about to create one for, that    *)
(* no two are about to, and that a request has none left when it ends.      *)

Sole(i) ==
    /\ \A v, w \in Named(i) : v = w
    /\ \A r \in Requests : i \in missing[r] => Named(i) = {}
    /\ \A r, q \in Requests : i \in missing[r] /\ i \in missing[q] => r = q

Planned(r) ==
    /\ unseen[r] # {} => pc[r] = "find"
    /\ missing[r] # {} => pc[r] \notin {"idle", "pool", "end"}
    /\ missing[r] \cap unseen[r] = {}

OnceInv ==
    /\ \A r \in Requests : Planned(r)
    /\ \A i \in Instances \ doubted : Sole(i)

\* VMs go, and plans are given up.
LEMMA SoleKept ==
    ASSUME OnceInv, doubted \subseteq doubted',
           \A i \in Instances : Named(i)' \subseteq Named(i),
           \A r \in Requests : missing'[r] \subseteq missing[r]
    PROVE  \A i \in Instances \ doubted' : Sole(i)'
  <1> SUFFICES ASSUME NEW i \in Instances \ doubted' PROVE Sole(i)'
    OBVIOUS
  <1>1. Sole(i) /\ Named(i)' \subseteq Named(i)
    BY DEF OnceInv
  <1> HIDE DEF Named
  <1>2. \A v, w \in Named(i)' : v = w
    BY <1>1 DEF Sole
  <1>3. \A r \in Requests : i \in missing'[r] => Named(i)' = {}
    BY <1>1 DEF Sole
  <1>4. \A r, q \in Requests : i \in missing'[r] /\ i \in missing'[q] => r = q
    BY <1>1 DEF Sole
  <1> QED BY <1>2, <1>3, <1>4 DEF Sole

\* The other requests' plans are not touched.
LEMMA PlannedKept ==
    ASSUME OnceInv, NEW r,
           Planned(r)',
           \A q \in Requests \ {r} : /\ pc'[q] = pc[q] /\ unseen'[q] = unseen[q]
                                     /\ missing'[q] = missing[q]
    PROVE  \A q \in Requests : Planned(q)'
  BY DEF OnceInv, Planned

\* What TerminateVM, Chown and OpenNebula do to VMs names none anew.
LEMMA NamedSame ==
    ASSUME UNCHANGED vms
    PROVE  \A i \in Instances : Named(i)' \subseteq Named(i)
  BY DEF Named, Exists

LEMMA NamedTerminated ==
    ASSUME TypeOK, NEW some, vms' = Terminated(some)
    PROVE  \A i \in Instances : Named(i)' \subseteq Named(i)
  <1>1. DOMAIN vms' = DOMAIN vms
    BY DEF Terminated
  <1>2. \A v \in DOMAIN vms : /\ vms'[v].inst = vms[v].inst
                              /\ vms[v].state = "done" => vms'[v].state = "done"
    <2> TAKE v \in DOMAIN vms
    <2>1. vms[v] \in VM
      BY DEF TypeOK
    <2> QED BY <2>1 DEF Terminated, VM
  <1> QED BY <1>1, <1>2 DEF Named, Exists

LEMMA NamedUpdated ==
    ASSUME TypeOK, NEW v \in DOMAIN vms, NEW w \in VM, vms' = [vms EXCEPT ![v] = w],
           w.inst = vms[v].inst, vms[v].state = "done" => w.state = "done"
    PROVE  \A i \in Instances : Named(i)' \subseteq Named(i)
  <1>1. DOMAIN vms' = DOMAIN vms
    OBVIOUS
  <1>2. \A u \in DOMAIN vms : vms'[u] = IF u = v THEN w ELSE vms[u]
    OBVIOUS
  <1> QED BY <1>1, <1>2 DEF Named, Exists

-----------------------------------------------------------------------------
(* The steps that make plans, or carry them out.                           *)

LEMMA FindOnce == ASSUME TypeOK, OnceInv, NEW r \in Requests, Find(r) PROVE OnceInv'
  <1>1. PICK i \in unseen[r] : \E nameFails \in BOOLEAN :
           /\ unseen' = [unseen EXCEPT ![r] = @ \ {i}]
           /\ \/ UNCHANGED <<missing, doubted>>
              \/ /\ missing' = [missing EXCEPT ![r] = @ \cup {i}]
                 /\ nameFails \/ ~FoundByName(i)
                 /\ doubted' =
                      IF \/ nameFails /\ Named(i) # {}
                         \/ \E q \in Requests \ {r} : i \in missing[q]
                      THEN doubted \cup {i} ELSE doubted
    BY DEF Find
  <1>2. /\ UNCHANGED vms /\ pc[r] = "find"
        /\ pc' = [pc EXCEPT ![r] = IF unseen'[r] = {} THEN "delete" ELSE "find"]
    BY DEF Find, Go
  <1>3. i \in Instances /\ i \notin missing[r] /\ unseen[r] \subseteq Instances
    BY DEF TypeOK, OnceInv, Planned
  <1>4. \A q \in Requests : missing'[q] = missing[q] \/ (q = r /\ missing'[q] = missing[q] \cup {i})
    BY <1>1 DEF TypeOK
  <1>5. Planned(r)'
    <2>1. unseen'[r] = unseen[r] \ {i}
      BY <1>1 DEF TypeOK
    <2>2. pc'[r] = IF unseen'[r] = {} THEN "delete" ELSE "find"
      BY <1>2 DEF TypeOK
    <2>3. missing[r] \cap unseen[r] = {}
      BY DEF OnceInv, Planned
    <2> QED BY <1>4, <2>1, <2>2, <2>3 DEF Planned
  <1>6. \A q \in Requests : Planned(q)'
    <2>1. \A q \in Requests \ {r} : pc'[q] = pc[q] /\ unseen'[q] = unseen[q]
      BY <1>1, <1>2 DEF TypeOK
    <2> QED BY <1>4, <1>5, <2>1, PlannedKept
  <1>7. CASE UNCHANGED <<missing, doubted>>
    BY <1>2, <1>6, <1>7, NamedSame, SoleKept DEF OnceInv
  <1>8. CASE missing' = [missing EXCEPT ![r] = @ \cup {i}]
    <2>1. PICK nameFails \in BOOLEAN :
             /\ nameFails \/ ~FoundByName(i)
             /\ doubted' =
                  IF \/ nameFails /\ Named(i) # {}
                     \/ \E q \in Requests \ {r} : i \in missing[q]
                  THEN doubted \cup {i} ELSE doubted
      <3>1. missing' # missing
        BY <1>3, <1>8 DEF TypeOK
      <3> QED BY <1>1, <3>1
    <2>2. Named(i)' = Named(i) /\ doubted \subseteq doubted'
      BY <1>2, <2>1 DEF Named, Exists
    <2>3. ASSUME i \notin doubted'
          PROVE  Sole(i) /\ Named(i) = {} /\ \A q \in Requests \ {r} : i \notin missing[q]
      <3>1. Sole(i)
        BY <1>3, <2>2, <2>3 DEF OnceInv
      <3>2. \A q \in Requests \ {r} : i \notin missing[q]
        BY <2>1, <2>3
      <3>3. ASSUME NEW v \in Named(i) PROVE FALSE
        <4> DEFINE N == Named(i)
        <4>1. N = {v}
          BY <3>1, <3>3 DEF Sole
        <4>2. Cardinality(N) = 1
          BY <4>1, FS_Singleton
        <4> HIDE DEF N
        <4>3. FoundByName(i)
          BY <4>2 DEF FoundByName, N
        <4> QED BY <2>1, <2>3, <3>3, <4>3
      <3> QED BY <3>1, <3>2, <3>3
    <2>4. \A j \in Instances \ doubted' : Sole(j)'
      <3> SUFFICES ASSUME NEW j \in Instances \ doubted' PROVE Sole(j)'
        OBVIOUS
      <3>1. Sole(j) /\ Named(j)' = Named(j)
        BY <1>2, <2>2 DEF OnceInv, Named, Exists
      <3>2. CASE j = i
        BY <1>4, <2>2, <2>3, <3>2 DEF Sole
      <3>3. CASE j # i
        <4>1. \A q \in Requests : j \in missing'[q] <=> j \in missing[q]
          BY <1>4, <3>3
        <4> HIDE DEF Named
        <4> QED BY <3>1, <4>1 DEF Sole
      <3> QED BY <3>2, <3>3
    <2> QED BY <1>6, <2>4 DEF OnceInv
  <1> QED BY <1>1, <1>7, <1>8

LEMMA InstantiateOnce ==
    ASSUME TypeOK, OnceInv, NEW r \in Requests, Instantiate(r) PROVE OnceInv'
  <1>1. PICK i \in missing[r] :
           /\ missing' = [missing EXCEPT ![r] = @ \ {i}]
           /\ \/ /\ UNCHANGED vms
                 /\ pc' = [pc EXCEPT ![r] = IF missing'[r] = {} THEN "end" ELSE "create"]
              \/ /\ vms' = Append(vms, [inst |-> i, owner |-> 0, state |-> "active"])
                 /\ pc' = [pc EXCEPT ![r] = "chown"]
    BY DEF Instantiate, Go
  <1>2. UNCHANGED <<unseen, doubted>> /\ pc[r] = "create"
    BY DEF Instantiate
  <1>3. i \in Instances /\ missing'[r] = missing[r] \ {i}
    BY <1>1 DEF TypeOK
  <1>4. \A q \in Requests : missing'[q] \subseteq missing[q] /\ (q # r => missing'[q] = missing[q])
    BY <1>1 DEF TypeOK
  <1>5. Planned(r)'
    <2>1. /\ pc'[r] = IF missing'[r] = {} THEN "end" ELSE "create"
          \/ pc'[r] = "chown"
      BY <1>1 DEF TypeOK
    <2> QED BY <1>2, <1>3, <2>1 DEF OnceInv, Planned
  <1>6. \A q \in Requests : Planned(q)'
    <2>1. \A q \in Requests \ {r} : pc'[q] = pc[q]
      BY <1>1 DEF TypeOK
    <2> QED BY <1>2, <1>4, <1>5, <2>1, PlannedKept
  <1>7. CASE UNCHANGED vms
    BY <1>2, <1>4, <1>6, <1>7, NamedSame, SoleKept DEF OnceInv
  <1>8. CASE vms' = Append(vms, [inst |-> i, owner |-> 0, state |-> "active"])
    <2> DEFINE new == [inst |-> i, owner |-> 0, state |-> "active"]
               n == Len(vms) + 1
    <2>1. /\ DOMAIN vms' = DOMAIN vms \cup {n} /\ n \notin DOMAIN vms
          /\ \A v \in DOMAIN vms : vms'[v] = vms[v]
          /\ vms'[n] = new
      <3>1. vms \in Seq(VM) /\ Len(vms) \in Nat /\ new \in VM
        BY <1>3 DEF TypeOK, VM
      <3> HIDE DEF new
      <3> QED BY <1>8, <3>1 DEF new
    <2>2. new.inst = i /\ new.state = "active"
      OBVIOUS
    <2> HIDE DEF new, n
    <2>3. \A j \in Instances : Named(j)' \subseteq IF j = i THEN Named(j) \cup {n} ELSE Named(j)
      BY <2>1, <2>2 DEF Named, Exists
    <2>4. \A j \in Instances \ doubted' : Sole(j)'
      <3> SUFFICES ASSUME NEW j \in Instances \ doubted' PROVE Sole(j)'
        OBVIOUS
      <3>1. Sole(j) /\ j \notin doubted
        BY <1>2 DEF OnceInv
      <3> HIDE DEF Named
      <3>2. CASE j = i
        <4>1. Named(i) = {} /\ \A q \in Requests : i \notin missing'[q]
          BY <1>3, <1>4, <3>1, <3>2 DEF Sole
        <4> QED BY <2>3, <3>2, <4>1 DEF Sole
      <3>3. CASE j # i
        <4>1. Named(j)' \subseteq Named(j)
          BY <2>3, <3>3
        <4> QED BY <1>4, <3>1, <4>1 DEF Sole
      <3> QED BY <3>2, <3>3
    <2> QED BY <1>6, <2>4 DEF OnceInv
  <1> QED BY <1>1, <1>7, <1>8

\* All other steps of a request leave the plans as they are, or give them up.
LEMMA RequestOnce ==
    ASSUME IInv, OnceInv, NEW r \in Requests,
           \/ Begin(r) \/ ReadPool(r) \/ Delete(r) \/ Prepare(r)
           \/ Chown(r) \/ PublishVM(r) \/ End(r)
    PROVE  OnceInv'
  <1>1. TypeOK
    BY DEF IInv
  <1>2. UNCHANGED doubted
    BY DEF Begin, ReadPool, Delete, Prepare, Chown, PublishVM, End
  <1>3. \A i \in Instances : Named(i)' \subseteq Named(i)
    <2>1. CASE UNCHANGED vms
      BY <2>1, NamedSame
    <2>2. CASE Delete(r)
      BY <1>1, <2>2, NamedTerminated DEF Delete
    <2>3. CASE pc[r] = "chown" /\ vms' = [vms EXCEPT ![fresh[r]].owner = req[r].userid]
      <3> DEFINE v == fresh[r]
                 w == [vms[v] EXCEPT !.owner = req[r].userid]
      <3>1. v \in 1 .. Len(vms)
        BY <2>3 DEF IInv, Known
      <3>2. vms[v] \in VM /\ v \in DOMAIN vms
        BY <1>1, <3>1 DEF TypeOK
      <3>3. req[r].userid \in Nat
        BY <1>1 DEF TypeOK, Copy
      <3>4. w \in VM /\ w.inst = vms[v].inst /\ w.state = vms[v].state
        BY <3>2, <3>3 DEF VM
      <3>5. vms' = [vms EXCEPT ![v] = w]
        BY <2>3
      <3> HIDE DEF w
      <3> QED BY <1>1, <3>2, <3>4, <3>5, NamedUpdated
    <2> QED BY <2>1, <2>2, <2>3 DEF Begin, ReadPool, Prepare, Chown, PublishVM, End
  <1>4. \/ UNCHANGED missing
        \/ missing' = [missing EXCEPT ![r] = {}]
    BY DEF Begin, ReadPool, Delete, Prepare, Chown, PublishVM, End, local
  <1>5. \A q \in Requests : missing'[q] \in {missing[q], {}} /\ (q # r => missing'[q] = missing[q])
    BY <1>1, <1>4 DEF TypeOK
  <1>6. Planned(r) /\ missing'[r] \in {missing[r], {}}
    BY <1>5 DEF OnceInv
  <1>7. \A q \in Requests \ {r} : pc'[q] = pc[q] /\ unseen'[q] = unseen[q]
    <2>1. \E step : pc' = [pc EXCEPT ![r] = step]
      BY DEF Begin, ReadPool, Delete, Prepare, Chown, PublishVM, End, Go
    <2>2. \E some : unseen' = unseen \/ unseen' = [unseen EXCEPT ![r] = some]
      BY DEF Begin, ReadPool, Delete, Prepare, Chown, PublishVM, End, local
    <2> QED BY <1>1, <2>1, <2>2 DEF TypeOK
  <1>8. Planned(r)'
    <2>1. CASE Begin(r)
      <3>1. pc'[r] = "pool" /\ UNCHANGED <<unseen, missing>> /\ pc[r] = "idle"
        BY <1>1, <2>1 DEF Begin, Go, TypeOK
      <3> QED BY <1>6, <3>1 DEF Planned
    <2>2. CASE ReadPool(r)
      <3>1. /\ pc[r] = "pool" /\ UNCHANGED missing
            /\ \/ pc'[r] = "end" /\ UNCHANGED unseen
               \/ pc'[r] = IF unseen'[r] = {} THEN "delete" ELSE "find"
        BY <1>1, <2>2 DEF ReadPool, Go, TypeOK, local
      <3> QED BY <1>6, <3>1 DEF Planned
    <2>3. CASE Delete(r)
      <3>1. /\ pc[r] = "delete" /\ UNCHANGED <<missing, unseen>>
            /\ pc'[r] = IF missing[r] = {} THEN "end" ELSE "prepare"
        BY <1>1, <2>3 DEF Delete, Go, TypeOK
      <3> QED BY <1>6, <3>1 DEF Planned
    <2>4. CASE Prepare(r)
      <3>1. /\ pc[r] = "prepare" /\ UNCHANGED unseen
            /\ \/ pc'[r] = "idle" /\ missing' = [missing EXCEPT ![r] = {}]
               \/ pc'[r] = "create" /\ UNCHANGED missing
        BY <1>1, <2>4 DEF Prepare, Go, TypeOK
      <3>2. (pc'[r] = "idle" /\ missing'[r] = {}) \/ pc'[r] = "create"
        BY <1>1, <3>1 DEF TypeOK
      <3> QED BY <1>6, <3>1, <3>2 DEF Planned
    <2>5. CASE Chown(r)
      <3>1. pc[r] = "chown" /\ UNCHANGED <<missing, unseen>> /\ pc'[r] = "publish"
        BY <1>1, <2>5 DEF Chown, Go, TypeOK, local
      <3> QED BY <1>6, <3>1 DEF Planned
    <2>6. CASE PublishVM(r)
      <3>1. /\ pc[r] = "publish" /\ UNCHANGED <<missing, unseen>>
            /\ pc'[r] = IF missing[r] = {} THEN "end" ELSE "create"
        BY <1>1, <2>6 DEF PublishVM, Go, TypeOK
      <3> QED BY <1>6, <3>1 DEF Planned
    <2>7. CASE End(r)
      <3>1. /\ pc[r] = "end" /\ UNCHANGED <<missing, unseen>> /\ pc'[r] = "idle"
        BY <1>1, <2>7 DEF End, Go, TypeOK
      <3> QED BY <1>6, <3>1 DEF Planned
    <2> QED BY <2>1, <2>2, <2>3, <2>4, <2>5, <2>6, <2>7
  <1> QED BY <1>2, <1>3, <1>5, <1>7, <1>8, PlannedKept, SoleKept DEF OnceInv

LEMMA OtherOnce ==
    ASSUME TypeOK, OnceInv,
           Down \/ Arrive \/ SetDeleted \/ Gone \/ Crash \/ UNCHANGED vars
    PROVE  OnceInv'
  <1>1. UNCHANGED doubted
    BY DEF Down, Arrive, SetDeleted, Gone, Crash, vars
  <1>2. \A i \in Instances : Named(i)' \subseteq Named(i)
    <2>1. CASE UNCHANGED vms
      BY <2>1, NamedSame
    <2>2. CASE Down
      BY <2>2, NamedTerminated DEF Down
    <2>3. CASE Gone
      <3>1. PICK v \in DOMAIN vms : vms' = [vms EXCEPT ![v].state = "done"]
        BY <2>3 DEF Gone
      <3> DEFINE w == [vms[v] EXCEPT !.state = "done"]
      <3>2. w \in VM /\ w.inst = vms[v].inst /\ w.state = "done" /\ vms' = [vms EXCEPT ![v] = w]
        <4>1. vms[v] \in VM
          BY DEF TypeOK
        <4> QED BY <3>1, <4>1 DEF VM
      <3> HIDE DEF w
      <3> QED BY <3>2, NamedUpdated
    <2> QED BY <2>1, <2>2, <2>3 DEF Arrive, SetDeleted, Crash, vars
  <1>3. CASE UNCHANGED <<pc, unseen, missing>>
    BY <1>1, <1>2, <1>3, SoleKept DEF OnceInv, Planned
  <1>4. CASE Crash
    BY <1>1, <1>2, <1>4, SoleKept DEF Crash, OnceInv, Planned
  <1> QED BY <1>3, <1>4 DEF Down, Arrive, SetDeleted, Gone, vars, local

\* No instance ever has two VMs, however many requests, instances, failures,
\* crashes and downs there are, unless the lookup by name failed or two
\* requests were about to create its VM at once (CheckInstancesGroup,
\* FindVMByInstance).
THEOREM NeverTwo == Spec => []OneVM
  <1>1. Init => OnceInv
    BY DEF Init, OnceInv, Planned, Sole, Named
  <1>2. IInv /\ OnceInv /\ [Next]_vars => OnceInv'
    <2> SUFFICES ASSUME IInv, OnceInv, [Next]_vars PROVE OnceInv'
      OBVIOUS
    <2>1. TypeOK
      BY DEF IInv
    <2>2. ASSUME NEW r \in Requests, Begin(r) \/ Step(r) PROVE OnceInv'
      BY <2>1, <2>2, FindOnce, InstantiateOnce, RequestOnce DEF Step
    <2> QED BY <2>1, <2>2, OtherOnce DEF Next
  <1>3. OnceInv => OneVM
    <2> SUFFICES ASSUME OnceInv, NEW i \in Instances \ doubted
                 PROVE  Cardinality(Active(i)) <= 1
      BY DEF OneVM
    <2>1. Active(i) \subseteq Named(i) /\ \A v, w \in Named(i) : v = w
      BY DEF OnceInv, Sole, Active, Named, Exists
    <2> DEFINE A == Active(i)
    <2>2. CASE A = {}
      BY <2>2, FS_EmptySet
    <2>3. CASE \E v : A = {v}
      <3>1. PICK v : A = {v}
        BY <2>3
      <3> HIDE DEF A
      <3>2. Cardinality(A) = 1
        BY <3>1, FS_Singleton
      <3> QED BY <3>2 DEF A
    <2> QED BY <2>1, <2>2, <2>3
  <1> QED BY <1>1, <1>2, <1>3, Invariance, PTL DEF Spec

=============================================================================
