---------------------------- MODULE OrphanGroup ----------------------------
(***************************************************************************)
(* CheckOrphanInstanceGroup: a group whose OpenNebula user is gone, or     *)
(* named after another group, gets a user of its own, to whom its two      *)
(* networks and its VMs are moved.  That takes a dozen calls, each of      *)
(* which may fail, in a round of monitoring that may overlap another, and  *)
(* nothing tells a later round how far an earlier one has come but whether *)
(* a user of the group's name exists.                                      *)
(***************************************************************************)
EXTENDS Integers, FiniteSets, FiniteSetsExt

CONSTANTS
    Instances,    \* the instances 1 .. n of the group, in its order
    Needs,        \* what the group may need: instance -> network -> addresses
    Requests,     \* rounds of monitoring that may overlap
    MaxFailures,  \* bound: failing calls
    MaxCrashes    \* bound: crashes of the process

ASSUME OrphanAssumption ==
    /\ Instances # {} /\ IsFiniteSet(Instances)
    /\ Instances = 1 .. Cardinality(Instances)
    /\ Needs \subseteq [Instances -> [{"public", "private"} -> Nat]]
    /\ MaxFailures \in Nat /\ MaxCrashes \in Nat

VARIABLES
    \* OpenNebula
    named,      \* ID of the user with the group's name, 0 if there is none
    lastUser,   \* the last user ID given out
    net,        \* the group's networks: the user they belong to and are named for
    vm,         \* instance -> its VM's owner, and how many NICs of each network
    \* the core
    need,       \* ips_public and ips_private of the instances
    userid,     \* userid in the data of the group
    \* the driver, by request
    pc,
    req,        \* the request's userid, the VMs' old user, the new one, and the
                \* instance it has come to
    left,       \* NICs still to be attached to the VM of that instance
    \* history
    failures, crashes

one    == <<named, lastUser, net, vm>>
bounds == <<failures, crashes>>
core   == <<need, userid>>
vars   == <<one, core, pc, req, left, bounds>>

Former == 1    \* the user of old
Nets   == {"public", "private"}

\* The resources of the group, which Monitoring has summed up before.
Resources == [k \in Nets |-> MapThenSumSet(LAMBDA i : need[i][k], Instances)]

Idle == [userid |-> 0, old |-> 0, new |-> 0, at |-> 1]
None == [k \in Nets |-> 0]

Stages == {"idle", "info", "byname", "create", "find private", "find public",
           "chown private", "chown public", "detach", "rename private",
           "rename public", "undo private", "undo public", "chown vm", "attach", "end"}

\* But for left, whose values are sums.
TypeOK ==
    /\ named \in Nat /\ lastUser \in Nat
    /\ net \in [Nets -> [owner : Nat, name : Nat]]
    /\ vm \in [Instances -> [owner : Nat, nics : [Nets -> Nat]]]
    /\ need \in Needs /\ userid \in Nat
    /\ pc \in [Requests -> Stages]
    /\ req \in [Requests -> [userid : Nat, old : Nat, new : Nat, at : Nat]]
    /\ failures \in 0 .. MaxFailures /\ crashes \in 0 .. MaxCrashes

Init ==
    /\ named = 0 /\ lastUser = Former
    /\ net = [k \in Nets |-> [owner |-> Former, name |-> Former]]
    /\ need \in Needs
    /\ vm = [i \in Instances |-> [owner |-> Former, nics |-> need[i]]]
    /\ userid = Former
    /\ pc = [r \in Requests |-> "idle"] /\ req = [r \in Requests |-> Idle]
    /\ left = [r \in Requests |-> None]
    /\ failures = 0 /\ crashes = 0

-----------------------------------------------------------------------------
(* Helpers.                                                                *)

Go(r, step) == pc' = [pc EXCEPT ![r] = step]
Works       == UNCHANGED bounds
Fails       == failures < MaxFailures /\ failures' = failures + 1 /\ UNCHANGED crashes

\* An error ends the check; Monitoring logs it and goes on.
Return(r) == Go(r, "end") /\ UNCHANGED <<one, req, left>>

\* NICs take an address each of the public network, which holds as many as
\* the group needs; the private one has plenty.
Free(k) ==
    \/ k = "private"
    \/ MapThenSumSet(LAMBDA i : vm[i].nics[k], Instances) < Resources[k]

-----------------------------------------------------------------------------
(* CheckOrphanInstanceGroup.                                               *)

\* The core builds a request from what it knows.
Begin(r) ==
    /\ pc[r] = "idle" /\ Go(r, "info")
    /\ req' = [req EXCEPT ![r] = [Idle EXCEPT !.userid = userid]]
    /\ UNCHANGED <<one, core, left, bounds>>

\* The old user is the owner of the first instance's VM.
Info(r) ==
    /\ pc[r] = "info"
    /\ \/ Fails /\ Return(r)
       \/ /\ Works /\ Go(r, "byname")
          /\ req' = [req EXCEPT ![r].old = vm[1].owner]
          /\ UNCHANGED <<one, left>>
    /\ UNCHANGED core

\* Mutant of Orphan: the test of the error the wrong way round.
OrphanSwapped == named # 0

\* No user has the name of the group.
Orphan == named = 0

\* Any error of ByName is read as: there is no such user.
ByName(r) ==
    /\ pc[r] = "byname"
    /\ \/ Works /\ ~Orphan /\ Return(r)
       \/ /\ (Orphan /\ Works) \/ (~Orphan /\ Fails)
          /\ Go(r, "create") /\ UNCHANGED <<one, req, left>>
    /\ UNCHANGED core

\* OpenNebula refuses a second user of the same name.
CreateUser(r) ==
    /\ pc[r] = "create"
    /\ \/ named # 0 /\ Works /\ Return(r)
       \/ Fails /\ Return(r)
       \/ /\ named = 0 /\ Works /\ Go(r, "find private")
          /\ lastUser' = lastUser + 1 /\ named' = lastUser + 1
          /\ req' = [req EXCEPT ![r].new = lastUser + 1]
          /\ UNCHANGED <<net, vm, left>>
    /\ UNCHANGED core

\* GetUserPrivateVNet, then GetUserPublicVNet: by the old user's name for it,
\* among the networks the old user owns.
FindNet(r, k, step, then) ==
    /\ pc[r] = step
    /\ \/ Fails /\ Return(r)
       \/ /\ Works /\ UNCHANGED <<one, req, left>>
          /\ Go(r, IF net[k] = [owner |-> req[r].old, name |-> req[r].old]
                   THEN then ELSE "end")
    /\ UNCHANGED core

ChownNet(r, k, step, then) ==
    /\ pc[r] = step
    /\ \/ Fails /\ Return(r)
       \/ /\ Works /\ Go(r, then)
          /\ net' = [net EXCEPT ![k].owner = req[r].new]
          /\ UNCHANGED <<named, lastUser, vm, req, left>>
    /\ UNCHANGED core

FindNets(r) ==
    \/ FindNet(r, "private", "find private", "find public")
    \/ FindNet(r, "public", "find public", "chown private")

ChownNets(r) ==
    \/ ChownNet(r, "private", "chown private", "chown public")
    \/ ChownNet(r, "public", "chown public", "detach")

\* The NICs of every VM are detached, one by one.
DetachNIC(r) ==
    /\ pc[r] = "detach" /\ UNCHANGED core
    /\ \/ \E k \in Nets :
             /\ vm[req[r].at].nics[k] > 0
             /\ \/ Fails /\ Return(r)
                \/ /\ Works
                   /\ vm' = [vm EXCEPT ![req[r].at].nics[k] = @ - 1]
                   /\ UNCHANGED <<named, lastUser, net, pc, req, left>>
       \/ /\ \A k \in Nets : vm[req[r].at].nics[k] = 0
          /\ Works /\ UNCHANGED <<one, left>>
          /\ IF req[r].at + 1 \in Instances
             THEN req' = [req EXCEPT ![r].at = @ + 1] /\ UNCHANGED pc
             ELSE req' = [req EXCEPT ![r].at = 1] /\ Go(r, "rename private")

\* Mutant of Rename: an error is logged, no more.
RenameUnchecked(r, k, step, then, undo) ==
    /\ pc[r] = step /\ UNCHANGED <<core, req, left, lastUser, vm, named>>
    /\ \/ Fails /\ Go(r, then) /\ UNCHANGED net
       \/ Works /\ Go(r, then) /\ net' = [net EXCEPT ![k].name = req[r].new]

\* An error deletes the new user again; the networks are not given back.
Rename(r, k, step, then, undo) ==
    /\ pc[r] = step /\ UNCHANGED <<core, req, left, lastUser, vm, named>>
    /\ \/ Fails /\ Go(r, undo) /\ UNCHANGED net
       \/ Works /\ Go(r, then) /\ net' = [net EXCEPT ![k].name = req[r].new]

RenameNets(r) ==
    \/ Rename(r, "private", "rename private", "rename public", "undo private")
    \/ Rename(r, "public", "rename public", "chown vm", "undo public")

\* The error of DeleteUser is not looked at.  (Where the public network was
\* not renamed, the private one is renamed once more, to the same name.)
DeleteUser(r) ==
    /\ pc[r] \in {"undo private", "undo public"} /\ Go(r, "end")
    /\ \/ Works /\ named' = (IF named = req[r].new THEN 0 ELSE named)
       \/ Fails /\ UNCHANGED named
    /\ UNCHANGED <<lastUser, net, vm, core, req, left>>

\* Every VM is to get as many NICs as the resources of the whole group say.
ChownVM(r) ==
    /\ pc[r] = "chown vm" /\ UNCHANGED core
    /\ \/ Fails /\ Return(r)
       \/ /\ Works /\ Go(r, "attach")
          /\ vm' = [vm EXCEPT ![req[r].at].owner = req[r].new]
          /\ left' = [left EXCEPT ![r] = Resources]
          /\ UNCHANGED <<named, lastUser, net, req>>

\* Private addresses first.
Attaching(r) == IF left[r]["private"] > 0 THEN "private" ELSE "public"

AttachNIC(r) ==
    LET k == Attaching(r) IN
    /\ pc[r] = "attach" /\ left[r][k] > 0 /\ UNCHANGED core
    /\ \/ Fails /\ Return(r)
       \/ Works /\ ~Free(k) /\ Return(r)
       \/ /\ Works /\ Free(k)
          /\ vm' = [vm EXCEPT ![req[r].at].nics[k] = @ + 1]
          /\ left' = [left EXCEPT ![r][k] = @ - 1]
          /\ UNCHANGED <<named, lastUser, net, pc, req>>

\* Mutant of Attached: the request has its new user once the first VM is moved.
AttachedFirst(r) ==
    /\ pc[r] = "attach" /\ \A k \in Nets : left[r][k] = 0
    /\ req' = [req EXCEPT ![r].userid = req[r].new,
                          ![r].at = IF @ + 1 \in Instances THEN @ + 1 ELSE 1]
    /\ Go(r, IF req[r].at + 1 \in Instances THEN "chown vm" ELSE "end")
    /\ UNCHANGED <<one, core, left, bounds>>

\* "Should only happen if everything is ok": the request's data names the new
\* user.
Attached(r) ==
    /\ pc[r] = "attach" /\ \A k \in Nets : left[r][k] = 0
    /\ IF req[r].at + 1 \in Instances
       THEN req' = [req EXCEPT ![r].at = @ + 1] /\ Go(r, "chown vm")
       ELSE req' = [req EXCEPT ![r].userid = req[r].new] /\ Go(r, "end")
    /\ UNCHANGED <<one, core, left, bounds>>

-----------------------------------------------------------------------------
(* The rest of the round, and crashes.                                     *)

\* The data of a group is published only if a VM was created for it in this
\* round, or a public NIC attached or detached by CheckInstancesGroupResponse-
\* Process, which is left to VMUpdate; with the userid the request has.
End(r) ==
    /\ pc[r] = "end" /\ Go(r, "idle")
    /\ userid' \in {userid, req[r].userid}
    /\ req' = [req EXCEPT ![r] = Idle] /\ left' = [left EXCEPT ![r] = None]
    /\ UNCHANGED <<one, need, bounds>>

Crash ==
    /\ crashes < MaxCrashes /\ crashes' = crashes + 1
    /\ pc' = [r \in Requests |-> "idle"] /\ req' = [r \in Requests |-> Idle]
    /\ left' = [r \in Requests |-> None]
    /\ UNCHANGED <<one, core, failures>>

Step(r) ==
    \/ Info(r) \/ ByName(r) \/ CreateUser(r) \/ FindNets(r) \/ ChownNets(r)
    \/ DetachNIC(r) \/ RenameNets(r) \/ DeleteUser(r) \/ ChownVM(r)
    \/ AttachNIC(r) \/ Attached(r) \/ End(r)

Next == (\E r \in Requests : Begin(r) \/ Step(r)) \/ Crash

Spec == Init /\ [][Next]_vars

\* The core repeats its requests, and a handler runs to its end.
FairSpec == Spec /\ \A r \in Requests : WF_vars(Begin(r)) /\ WF_vars(Step(r))

-----------------------------------------------------------------------------
(* Properties.                                                             *)

\* A VM that has a new user finds both networks there, named for this user and
\* belonging to it, and that user is the one with the group's name: whichever
\* calls failed before, no VM is given to a user that is deleted again or that
\* the networks were not given to.
MovedWhole ==
    \A i \in Instances :
        vm[i].owner # Former =>
            /\ vm[i].owner = named
            /\ \A k \in Nets : net[k] = [owner |-> named, name |-> named]

\* "Should only happen if everything is ok" (user.go:212): a request that names
\* the new user, and the core that was told so, are right, for every VM
\* belongs to it, wherever a call failed, two rounds met or the process died.
OnlyIfOK ==
    \A u \in {userid} \cup {req[r].userid : r \in Requests} :
        u \notin {0, Former} => u = named /\ \A i \in Instances : vm[i].owner = u

Moved(i) == vm[i].owner = named /\ vm[i].nics = Resources

\* If no call fails and the process does not die, the group gets its user, its
\* VMs and their NICs.  As each VM is to have as many public NICs as the whole
\* group, the first one takes all addresses; if there are any, the round stops
\* at the second and is never made good.
Adopted ==
    \/ \A i \in Instances :
          i = 1 \/ Resources["public"] = 0 => <>[]Moved(i)
    \/ <>(failures > 0 \/ crashes > 0)

\* "If not, create a new user and change ownership of virtual machines to this
\* user" (user.go:91): a group that has a user again has its VMs moved to it.
OwnershipFollows == (named # 0) ~> (\A i \in Instances : vm[i].owner = named)

=============================================================================
