--------------------------- MODULE VMProvisioning ---------------------------
(***************************************************************************)
(* The VMs of one instances group: how Monitoring finds out which of its   *)
(* instances have none and which VMs belong to deleted ones, creates and   *)
(* deletes them, and publishes their IDs; and Down, which terminates all.  *)
(*                                                                         *)
(* The driver does not remember VMs.  It trusts the ID the core sends, or  *)
(* else looks for a VM named after the instance, while other requests are  *)
(* under way, publications are late or lost and VMs take time to go.       *)
(* Resizing and the networks are left out (GroupNetworks has the latter).  *)
(***************************************************************************)
EXTENDS Integers, Sequences, FiniteSets

CONSTANTS
    Instances,    \* instances of the group, all with auto_start
    Requests,     \* Monitoring requests that may overlap
    MaxVMs,       \* bound: VMs ever created; then instantiation fails
    MaxFailures,  \* bound: failing calls
    MaxCrashes,   \* bound: crashes of the process
    MaxDowns      \* bound: times the group is taken down

ASSUME ProvisioningAssumption ==
    {MaxVMs, MaxFailures, MaxCrashes, MaxDowns} \subseteq Nat

VARIABLES
    \* OpenNebula
    vms,        \* the VMs, a VM's ID being its index; IDs are not used again
    \* the core
    status,     \* "live" or "DEL"
    data,       \* instance -> vmid in its data, 0 if there is none
    userid,     \* userid in the data of the group, 0 if there is none
    users,      \* users ever created for the group
    \* the driver
    wire,       \* data being published: not yet with the core
    pc,
    req,        \* status, data and userid as the request has them
    unseen,     \* instances CheckInstancesGroup has not come to
    doomed,     \* ToBeDeleted: VMs
    missing,    \* ToBeCreated: instances
    fresh,      \* the VM just created, or 0
    \* history
    doubted,    \* instances whose VM a failing call overlooked, or that two
                \* requests were about to create a VM for
    failures, crashes, downs

core   == <<status, data, userid, users>>
local  == <<req, unseen, doomed, missing, fresh>>
bounds == <<failures, crashes, downs>>
vars   == <<vms, core, wire, pc, local, doubted, bounds>>

VM   == [inst : Instances, owner : Nat, state : {"active", "leaving", "done"}]
Copy == [status : [Instances -> {"live", "DEL"}],
         data   : [Instances -> Nat],
         userid : Nat]

Phases == {"idle", "pool", "find", "delete", "prepare", "create", "chown",
           "publish", "end"}

TypeOK ==
    /\ vms \in Seq(VM)
    /\ status \in [Instances -> {"live", "DEL"}]
    /\ data \in [Instances -> Nat]
    /\ userid \in Nat /\ users \in Nat
    /\ wire \subseteq Instances \X Nat
    /\ pc \in [Requests -> Phases]
    /\ req \in [Requests -> Copy]
    /\ unseen \in [Requests -> SUBSET Instances]
    /\ missing \in [Requests -> SUBSET Instances]
    /\ doomed \in [Requests -> SUBSET Nat]
    /\ fresh \in [Requests -> Nat]

NoRequest == [status |-> [i \in Instances |-> "live"],
              data   |-> [i \in Instances |-> 0],
              userid |-> 0]

Init ==
    /\ vms = << >>
    /\ status = [i \in Instances |-> "live"]
    /\ data = [i \in Instances |-> 0]
    /\ userid = 0 /\ users = 0 /\ wire = {}
    /\ pc = [r \in Requests |-> "idle"]
    /\ req = [r \in Requests |-> NoRequest]
    /\ unseen = [r \in Requests |-> {}] /\ doomed = [r \in Requests |-> {}]
    /\ missing = [r \in Requests |-> {}] /\ fresh = [r \in Requests |-> 0]
    /\ doubted = {}
    /\ failures = 0 /\ crashes = 0 /\ downs = 0

-----------------------------------------------------------------------------
(* OpenNebula.                                                             *)

Exists(v)  == v \in DOMAIN vms /\ vms[v].state # "done"
Pool(u)    == {v \in DOMAIN vms : Exists(v) /\ vms[v].owner = u}
Named(i)   == {v \in DOMAIN vms : Exists(v) /\ vms[v].inst = i}

\* TerminateHard of some VMs: only those still active begin to leave.
Terminated(some) ==
    [v \in DOMAIN vms |->
        IF v \in some /\ vms[v].state = "active" THEN [vms[v] EXCEPT !.state = "leaving"]
        ELSE vms[v]]

Gone ==
    /\ \E v \in DOMAIN vms :
          vms[v].state = "leaving" /\ vms' = [vms EXCEPT ![v].state = "done"]
    /\ UNCHANGED <<core, wire, pc, local, doubted, bounds>>

\* n calls fail.
Fail(n) == failures + n <= MaxFailures /\ failures' = failures + n /\ UNCHANGED <<crashes, downs>>
Works   == Fail(0)

Go(r, step) == pc' = [pc EXCEPT ![r] = step]

-----------------------------------------------------------------------------
(* CheckInstancesGroup.                                                    *)

\* The core builds a request from what it knows.
Begin(r) ==
    /\ pc[r] = "idle" /\ Go(r, "pool")
    /\ req' = [req EXCEPT ![r] = [status |-> status, data |-> data, userid |-> userid]]
    /\ UNCHANGED <<vms, core, wire, unseen, doomed, missing, fresh, doubted, bounds>>

\* Mutants of Doomed: VMs of instances that are not deleted, and the pool of the
\* driver's own user.
DoomedAll(r)   == {v \in Pool(req[r].userid) : \E i \in Instances : req[r].data[i] = v}
DoomedOwner(r) == {v \in Pool(0) : \E i \in Instances :
                      req[r].data[i] = v /\ req[r].status[i] = "DEL"}

\* VMs of the group's user whose ID the data of a deleted instance has.
Doomed(r) == {v \in Pool(req[r].userid) : \E i \in Instances :
                 req[r].data[i] = v /\ req[r].status[i] = "DEL"}

\* An error ends the check; VMToInstance may fail for some of the VMs.
ReadPool(r) ==
    /\ pc[r] = "pool"
    /\ \/ req[r].userid # 0 /\ Fail(1) /\ Go(r, "end") /\ UNCHANGED local
       \/ /\ \E some \in SUBSET (IF req[r].userid = 0 THEN {} ELSE Doomed(r)) :
                /\ doomed' = [doomed EXCEPT ![r] = some]
                /\ Fail(IF req[r].userid = 0 THEN 0 ELSE Cardinality(Doomed(r) \ some))
          /\ unseen' = [unseen EXCEPT ![r] = {i \in Instances : req[r].status[i] # "DEL"}]
          /\ Go(r, IF unseen'[r] = {} THEN "delete" ELSE "find")
          /\ UNCHANGED <<req, missing, fresh>>
    /\ UNCHANGED <<vms, core, wire, doubted>>

\* Mutant of FoundByID: a VM that is done counts.
FoundByIDDone(r, i) == req[r].data[i] \in DOMAIN vms

\* FindVMByInstance: by the ID in the data, unless that VM is done; then by
\* name, which must be the name of one VM only.
FoundByID(r, i) == Exists(req[r].data[i])

\* Mutant of FoundByName: only the ID is looked for.
FoundByNameNever(i) == FALSE

FoundByName(i) == Cardinality(Named(i)) = 1

\* Both lookups of an instance, of which the one by ID is left out when the
\* data has none; failed is how many calls have failed.
Find(r) ==
    /\ pc[r] = "find"
    /\ \E i \in unseen[r], idFails, nameFails \in BOOLEAN :
          LET byID   == ~idFails /\ FoundByID(r, i)
              byName == ~nameFails /\ FoundByName(i)
              failed == (IF idFails THEN 1 ELSE 0) + (IF nameFails THEN 1 ELSE 0)
          IN
          /\ idFails => req[r].data[i] # 0
          /\ nameFails => ~byID
          /\ Fail(failed)
          /\ unseen' = [unseen EXCEPT ![r] = @ \ {i}]
          /\ IF byID \/ byName THEN UNCHANGED <<missing, doubted>>
             ELSE /\ missing' = [missing EXCEPT ![r] = @ \cup {i}]
                  /\ doubted' =
                       IF \/ nameFails /\ Named(i) # {}
                          \/ \E q \in Requests \ {r} : i \in missing[q]
                       THEN doubted \cup {i} ELSE doubted
    /\ Go(r, IF unseen'[r] = {} THEN "delete" ELSE "find")
    /\ UNCHANGED <<vms, core, wire, req, doomed, fresh>>

-----------------------------------------------------------------------------
(* HandleDeletedInstances, PrepareService and the creation of VMs.         *)

\* The errors of TerminateVM are not looked at.
Delete(r) ==
    /\ pc[r] = "delete"
    /\ \E some \in SUBSET doomed[r] :
          vms' = Terminated(some) /\ Fail(Cardinality(doomed[r] \ some))
    /\ doomed' = [doomed EXCEPT ![r] = {}]
    /\ Go(r, IF missing[r] = {} THEN "end" ELSE "prepare")
    /\ UNCHANGED <<core, wire, req, unseen, missing, fresh, doubted>>

\* PrepareService: the group has a user afterwards, or is skipped.  The user is
\* taken as known to the core at once (GroupNetworks loses it in between).
Prepare(r) ==
    /\ pc[r] = "prepare"
    /\ \/ /\ Fail(1) /\ Go(r, "idle")
          /\ missing' = [missing EXCEPT ![r] = {}]
          /\ UNCHANGED <<core, req>>
       \/ /\ Works /\ Go(r, "create")
          /\ IF req[r].userid # 0 THEN UNCHANGED <<core, req>>
             ELSE /\ userid = 0 /\ users' = users + 1
                  /\ userid' = users + 1
                  /\ req' = [req EXCEPT ![r].userid = users + 1]
                  /\ UNCHANGED <<status, data>>
          /\ UNCHANGED missing
       \* another request has created the user in the meantime
       \/ /\ req[r].userid = 0 /\ userid # 0
          /\ Works /\ Go(r, "idle")
          /\ missing' = [missing EXCEPT ![r] = {}]
          /\ UNCHANGED <<core, req>>
    /\ UNCHANGED <<vms, wire, unseen, doomed, fresh, doubted>>

\* InstantiateTemplateHelper names the VM after the instance and puts its ID
\* into the request's data; an error leaves the instance for another round.
Instantiate(r) ==
    /\ pc[r] = "create"
    /\ \E i \in missing[r] :
          /\ missing' = [missing EXCEPT ![r] = @ \ {i}]
          /\ \/ /\ \/ Fail(1)
                   \/ Works /\ Len(vms) >= MaxVMs
                /\ Go(r, IF missing'[r] = {} THEN "end" ELSE "create")
                /\ UNCHANGED <<vms, req, fresh>>
             \/ /\ Works /\ Len(vms) < MaxVMs
                /\ vms' = Append(vms, [inst |-> i, owner |-> 0, state |-> "active"])
                /\ req' = [req EXCEPT ![r].data[i] = Len(vms) + 1]
                /\ fresh' = [fresh EXCEPT ![r] = Len(vms) + 1]
                /\ Go(r, "chown")
    /\ UNCHANGED <<core, wire, unseen, doomed, doubted>>

\* Chown's error is not looked at.
Chown(r) ==
    /\ pc[r] = "chown" /\ Go(r, "publish")
    /\ \/ Works /\ vms' = [vms EXCEPT ![fresh[r]].owner = req[r].userid]
       \/ Fail(1) /\ UNCHANGED vms
    /\ UNCHANGED <<core, wire, local, doubted>>

PublishVM(r) ==
    /\ pc[r] = "publish"
    /\ Go(r, IF missing[r] = {} THEN "end" ELSE "create")
    /\ wire' = wire \cup {<<vms[fresh[r]].inst, fresh[r]>>}
    /\ fresh' = [fresh EXCEPT ![r] = 0]
    /\ UNCHANGED <<vms, core, req, unseen, doomed, missing, doubted, bounds>>

\* Monitoring an instance ends with publishing its data as the request has
\* it, whether it knows a VM or not.
End(r) ==
    /\ pc[r] = "end" /\ Go(r, "idle")
    /\ wire' = wire \cup {<<i, req[r].data[i]>> :
                             i \in {j \in Instances : req[r].status[j] # "DEL"}}
    /\ req' = [req EXCEPT ![r] = NoRequest]
    /\ UNCHANGED <<vms, core, unseen, doomed, missing, fresh, doubted, bounds>>

Step(r) ==
    \/ ReadPool(r) \/ Find(r) \/ Delete(r) \/ Prepare(r)
    \/ Instantiate(r) \/ Chown(r) \/ PublishVM(r) \/ End(r)

-----------------------------------------------------------------------------
(* Down, the core, and crashes.                                            *)

\* Down terminates the VM of every instance, whatever comes of it, and
\* empties the data.  (An instance without an ID makes it terminate VM 0, which
\* is none of the group's.)
Down ==
    LET known == {data[i] : i \in Instances} \ {0} IN
    /\ downs < MaxDowns /\ downs' = downs + 1
    /\ userid' = 0
    /\ \E some \in SUBSET known :
          /\ vms' = Terminated(some)
          /\ failures' = failures + Cardinality(known \ some)
          /\ failures' <= MaxFailures
    /\ wire' = wire \cup (Instances \X {0})
    /\ UNCHANGED <<status, data, users, pc, local, doubted, crashes>>

\* What is published arrives sooner or later, in any order.
Arrive ==
    /\ \E m \in wire :
          data' = [data EXCEPT ![m[1]] = m[2]] /\ wire' = wire \ {m}
    /\ UNCHANGED <<vms, status, userid, users, pc, local, doubted, bounds>>

SetDeleted ==
    /\ \E i \in Instances :
          status[i] = "live" /\ status' = [status EXCEPT ![i] = "DEL"]
    /\ UNCHANGED <<vms, data, userid, users, wire, pc, local, doubted, bounds>>

\* What has not been published is lost.
Crash ==
    /\ crashes < MaxCrashes /\ crashes' = crashes + 1
    /\ wire' = {}
    /\ pc' = [r \in Requests |-> "idle"]
    /\ req' = [r \in Requests |-> NoRequest]
    /\ unseen' = [r \in Requests |-> {}] /\ doomed' = [r \in Requests |-> {}]
    /\ missing' = [r \in Requests |-> {}] /\ fresh' = [r \in Requests |-> 0]
    /\ UNCHANGED <<vms, core, doubted, failures, downs>>

Next ==
    \/ \E r \in Requests : Begin(r) \/ Step(r)
    \/ Down \/ Arrive \/ SetDeleted \/ Gone \/ Crash

Spec == Init /\ [][Next]_vars

\* Requests are repeated and run to their end, what is published arrives,
\* and a VM that is terminated goes.
FairSpec ==
    /\ Spec
    /\ \A r \in Requests : WF_vars(Begin(r)) /\ WF_vars(Step(r))
    /\ WF_vars(Arrive) /\ WF_vars(Gone)

-----------------------------------------------------------------------------
(* Properties.                                                             *)

Active(i) == {v \in DOMAIN vms : vms[v].inst = i /\ vms[v].state = "active"}

\* An instance never has two VMs, however publications are lost, late or out
\* of order, requests overlap and calls fail, unless the lookup by name was
\* the one that failed or two requests were about to create it at once.
OneVM == \A i \in Instances \ doubted : Cardinality(Active(i)) <= 1

\* Monitoring terminates no VM but those of deleted instances.
OnlyDeleted ==
    [][(\E r \in Requests : Delete(r)) =>
          \A v \in DOMAIN vms :
              vms'[v] # vms[v] => status[vms[v].inst] = "DEL"]_vars

\* The VM the core knows of a deleted instance goes, if it belongs to the
\* group's user, whatever requests that began before the deletion still do.
DeletedGoes ==
    \A i \in Instances :
        <>[](/\ status[i] = "DEL" /\ data[i] # 0 /\ userid # 0
             /\ vms[data[i]].owner = userid)
            => <>[]~Exists(data[i])

\* An instance that is not deleted gets a VM and keeps it.
LiveRuns ==
    \A i \in Instances :
        [](doubted = {} /\ status[i] = "live") => <>[](Active(i) # {})

=============================================================================
