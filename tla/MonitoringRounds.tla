-------------------------- MODULE MonitoringRounds --------------------------
(***************************************************************************)
(* The Monitoring requests of one services provider, and how they share    *)
(* the work: a request that is not scheduled marks every group it handles  *)
(* in a redis hash, a scheduled one passes over the marked groups and      *)
(* clears the hash when it is through.  Requests run concurrently and are  *)
(* lost when the process crashes; redis is not.                            *)
(*                                                                         *)
(* What is billed is the subject of InstanceBilling: here an instance is   *)
(* due some amount, and the request's copy of the balance of its group     *)
(* pays for it or does not.                                                *)
(***************************************************************************)
EXTENDS Integers, FiniteSets

CONSTANTS
    Groups,       \* instances groups of the services provider
    Scheduled,    \* scheduled requests, each repeated by the core
    Unscheduled,  \* the other requests (Up, or Monitoring on demand)
    Instances,    \* auto-renewed instances of every group
    MaxDue,       \* bound: what an instance may be due in a round
    MaxBalance,   \* bound: balance of a group
    MaxFailures   \* bound: crashes and failing preparations

ASSUME RequestAssumption ==
    /\ Scheduled \cap Unscheduled = {}
    /\ MaxDue \in Nat /\ MaxBalance \in Nat /\ MaxFailures \in Nat

VARIABLES
    marked,    \* keys of the hash MONITORING-SP-<uuid>
    pc,        \* where each request is
    todo,      \* groups a request has not come to yet
    group,     \* the group it is at, or "none"
    insts,     \* instances of that group it has not billed yet
    balance,   \* req.GetBalance()[group]
    left,      \* monitoringBalance[group]
    paid,      \* what this request has charged the group's account
    found,     \* igKeys: the marks a scheduled request has read
    stale,     \* marks a finished scheduled request should have cleared
    failures

vars == <<marked, pc, todo, group, insts, balance, left, paid, found, stale,
          failures>>

Requests == Scheduled \cup Unscheduled
account  == <<balance, left, paid>>

TypeOK ==
    /\ marked \subseteq Groups /\ stale \subseteq Groups
    /\ pc \in [Requests -> {"idle", "groups", "check", "bill", "delete"}]
    /\ todo \in [Requests -> SUBSET Groups]
    /\ group \in [Requests -> Groups \cup {"none"}]
    /\ insts \in [Requests -> SUBSET Instances]
    /\ balance \in [Requests -> 0 .. MaxBalance]
    /\ left \in [Requests -> 0 .. MaxBalance]
    /\ paid \in [Requests -> Nat]
    /\ found \in [Requests -> SUBSET (Groups \X {"old", "renewed"})]
    /\ failures \in 0 .. MaxFailures

Init ==
    /\ marked = {} /\ stale = {}
    /\ pc = [r \in Requests |-> "idle"]
    /\ todo = [r \in Requests |-> {}]
    /\ group = [r \in Requests |-> "none"]
    /\ insts = [r \in Requests |-> {}]
    /\ balance = [r \in Requests |-> 0]
    /\ left = [r \in Requests |-> 0]
    /\ paid = [r \in Requests |-> 0]
    /\ found = [r \in Requests |-> {}]
    /\ failures = 0

-----------------------------------------------------------------------------
(* Beginning.  A scheduled request carries all groups of the provider, an  *)
(* unscheduled one the groups somebody asked for.                          *)

Begin(r, groups) ==
    /\ pc[r] = "idle"
    /\ pc' = [pc EXCEPT ![r] = "groups"]
    /\ todo' = [todo EXCEPT ![r] = groups]
    /\ UNCHANGED <<marked, group, insts, account, found, stale, failures>>

BeginScheduled(r) == r \in Scheduled /\ Begin(r, Groups)

BeginUnscheduled(r) ==
    r \in Unscheduled /\ \E groups \in SUBSET Groups \ {{}} : Begin(r, groups)

-----------------------------------------------------------------------------
(* The loop over the groups.                                               *)

\* A mark set again after a scheduled request has read the old one.
Renewed(g) ==
    [r \in Requests |->
        {<<m[1], IF m[1] = g THEN "renewed" ELSE m[2]>> : m \in found[r]}]

\* Mutant of Skip: the request waits for the mark to go.
SkipWaits(r) ==
    /\ pc[r] = "groups" /\ r \in Scheduled
    /\ todo[r] \cap marked # {}
    /\ UNCHANGED vars

\* HExists finds the mark: continue.
Skip(r) ==
    /\ pc[r] = "groups" /\ r \in Scheduled
    /\ \E g \in todo[r] \cap marked :
          todo' = [todo EXCEPT ![r] = @ \ {g}]
    /\ UNCHANGED <<marked, pc, group, insts, account, found, stale, failures>>

\* HExists finds no mark, or HSet sets it; the balance of the group comes
\* with the request.
Enter(r) ==
    /\ pc[r] = "groups"
    /\ \E g \in todo[r] :
          /\ r \in Scheduled => g \notin marked
          /\ todo' = [todo EXCEPT ![r] = @ \ {g}]
          /\ group' = [group EXCEPT ![r] = g]
          /\ IF r \in Scheduled THEN UNCHANGED <<marked, found, stale>>
             ELSE /\ marked' = marked \cup {g}
                  /\ found' = Renewed(g)
                  /\ stale' = stale \ {g}
    /\ \E b \in 0 .. MaxBalance :
          /\ balance' = [balance EXCEPT ![r] = b]
          /\ left' = [left EXCEPT ![r] = b]
          /\ paid' = [paid EXCEPT ![r] = 0]
    /\ pc' = [pc EXCEPT ![r] = "check"]
    /\ UNCHANGED <<insts, failures>>

\* The group is checked and its VMs created and deleted; whether that
\* worked or not, its instances are billed next.
Check(r) ==
    /\ pc[r] = "check"
    /\ pc' = [pc EXCEPT ![r] = "bill"]
    /\ insts' = [insts EXCEPT ![r] = Instances]
    /\ UNCHANGED <<marked, todo, group, account, found, stale, failures>>

\* Done with the group.
Release(r) ==
    /\ pc' = [pc EXCEPT ![r] = "groups"]
    /\ group' = [group EXCEPT ![r] = "none"]
    /\ balance' = [balance EXCEPT ![r] = 0]
    /\ left' = [left EXCEPT ![r] = 0]
    /\ paid' = [paid EXCEPT ![r] = 0]

\* PrepareService fails for the VMs to be created: continue, with nothing
\* of the group billed.
PrepareFails(r) ==
    /\ pc[r] = "check"
    /\ failures < MaxFailures /\ failures' = failures + 1
    /\ Release(r)
    /\ UNCHANGED <<marked, todo, insts, found, stale>>

\* Mutant of Remaining: the balance is not stored back.
RemainingUnspent(r, due) == left[r]

\* monitoringBalance[group] after an instance that is due this much.
Remaining(r, due) == IF due > left[r] THEN left[r] ELSE left[r] - due

\* One instance: handleInstanceBilling charges what is due or nothing.
BillInstance(r) ==
    /\ pc[r] = "bill"
    /\ \E i \in insts[r], due \in 0 .. MaxDue :
          /\ insts' = [insts EXCEPT ![r] = @ \ {i}]
          /\ paid' = [paid EXCEPT ![r] = IF due > left[r] THEN @ ELSE @ + due]
          /\ left' = [left EXCEPT ![r] = Remaining(r, due)]
    /\ UNCHANGED <<marked, pc, todo, group, balance, found, stale, failures>>

\* All instances of the group are billed.
Leave(r) ==
    /\ pc[r] = "bill" /\ insts[r] = {}
    /\ Release(r)
    /\ UNCHANGED <<marked, todo, insts, found, stale, failures>>

-----------------------------------------------------------------------------
(* The end.                                                                *)

EndUnscheduled(r) ==
    /\ pc[r] = "groups" /\ todo[r] = {} /\ r \in Unscheduled
    /\ pc' = [pc EXCEPT ![r] = "idle"]
    /\ UNCHANGED <<marked, todo, group, insts, account, found, stale, failures>>

\* HKeys.
ReadMarks(r) ==
    /\ pc[r] = "groups" /\ todo[r] = {} /\ r \in Scheduled
    /\ pc' = [pc EXCEPT ![r] = "delete"]
    /\ found' = [found EXCEPT ![r] = marked \X {"old"}]
    /\ UNCHANGED <<marked, todo, group, insts, account, stale, failures>>

\* Mutant of Cleared: HDel is called without the keys.
ClearedNothing(r) == {}

Cleared(r) == {m[1] : m \in found[r]}

\* HDel removes the marks read, those set again in the meantime with them.
DeleteMarks(r) ==
    /\ pc[r] = "delete"
    /\ marked' = marked \ Cleared(r)
    /\ stale' = stale \cup {g \in Groups : <<g, "old">> \in found[r]}
    /\ found' = [found EXCEPT ![r] = {}]
    /\ pc' = [pc EXCEPT ![r] = "idle"]
    /\ UNCHANGED <<todo, group, insts, account, failures>>

\* The process dies and is started again.
Crash ==
    /\ failures < MaxFailures /\ failures' = failures + 1
    /\ pc' = [r \in Requests |-> "idle"]
    /\ todo' = [r \in Requests |-> {}]
    /\ group' = [r \in Requests |-> "none"]
    /\ insts' = [r \in Requests |-> {}]
    /\ balance' = [r \in Requests |-> 0]
    /\ left' = [r \in Requests |-> 0]
    /\ paid' = [r \in Requests |-> 0]
    /\ found' = [r \in Requests |-> {}]
    /\ UNCHANGED <<marked, stale>>

Step(r) ==
    \/ Skip(r) \/ Enter(r) \/ Check(r) \/ BillInstance(r) \/ Leave(r)
    \/ EndUnscheduled(r) \/ ReadMarks(r) \/ DeleteMarks(r)

Next ==
    \/ \E r \in Requests :
          BeginScheduled(r) \/ BeginUnscheduled(r) \/ Step(r) \/ PrepareFails(r)
    \/ Crash

Spec == Init /\ [][Next]_vars

\* A handler runs to its end, and the core repeats the scheduled requests.
FairSpec ==
    /\ Spec
    /\ \A r \in Requests : WF_vars(Step(r))
    /\ \A r \in Scheduled : WF_vars(BeginScheduled(r))

-----------------------------------------------------------------------------
(* Properties.                                                             *)

\* A scheduled request passes over a group only if an unscheduled one has
\* come to it after the last scheduled request that finished had read the
\* marks: no mark outlives the round it was meant for, whatever requests
\* overlap, and one lost in a crash costs a group one round at most.
MarksAreFresh == marked \cap stale = {}

\* A request never charges the instances of a group more than the balance
\* it was given for the group.
GroupBudget == \A r \in Requests : paid[r] <= balance[r]

\* Every group is billed again and again, by one request or another: the
\* marks of unscheduled requests never starve it.
Bills(g) == \E r \in Requests : group[r] = g /\ Leave(r)

EveryGroupBilled == \A g \in Groups : []<><<Bills(g)>>_vars

=============================================================================
