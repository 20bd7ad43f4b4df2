----------------------------- MODULE BackupGuard ----------------------------
(***************************************************************************)
(* Backups of one instance: Invoke refuses actions while running_playbook  *)
(* in the instance's data names an unfinished run, and BackupInstance,     *)
(* invoked by the same way, creates the run, enters it into the data,      *)
(* powers the VM off, has the playbook executed, and resumes the VM.       *)
(*                                                                         *)
(* Requests carry the data as the core had them, Monitoring rounds publish *)
(* them again as they were, and a run goes on without the driver.          *)
(***************************************************************************)
EXTENDS Integers, Sequences

CONSTANTS
    Requests,     \* requests that may overlap
    MaxRuns,      \* bound: runs ever created; then creating one fails
    MaxFailures   \* bound: failing calls, and crashes of the process

ASSUME BackupAssumption == {MaxRuns, MaxFailures} \subseteq Nat

VARIABLES
    vm,         \* "on", "stopping" (a poweroff under way) or "off"
    runs,       \* the runs the ansible service knows, by number: their status, where
                \* "over" stands for successful, failed and undefined
    aged,       \* the runs up to this one were created two days ago
    data,       \* running_playbook in the core: a run, or 0 for none
    wire,       \* what is being published
    pc, method,
    req,        \* running_playbook as the request has it
    own,        \* the run a backup has created, or 0
    exposed,    \* unfinished runs that nobody waits for any more, or that met
                \* a request built without knowing them
    unresumed,  \* a VM was left off: the call failed, or the process died
    failures

local  == <<pc, method, req, own>>
vars   == <<vm, runs, aged, data, wire, local, exposed, unresumed, failures>>

RunIds == 0 .. MaxRuns

TypeOK ==
    /\ vm \in {"on", "stopping", "off"}
    /\ runs \in Seq({"init", "running", "over"})
    /\ Len(runs) <= MaxRuns /\ aged \in 0 .. Len(runs)
    /\ data \in 0 .. Len(runs) /\ wire \subseteq 0 .. Len(runs)
    /\ pc \in [Requests -> {"idle", "guard", "act", "stop", "wait", "exec",
                            "playing", "resume", "round"}]
    /\ method \in [Requests -> {"none", "exec", "resume", "round"}]
    /\ req \in [Requests -> 0 .. Len(runs)] /\ own \in [Requests -> 0 .. Len(runs)]
    /\ exposed \subseteq DOMAIN runs /\ unresumed \in BOOLEAN

Init ==
    /\ vm = "on" /\ runs = << >> /\ aged = 0
    /\ data = 0 /\ wire = {}
    /\ pc = [r \in Requests |-> "idle"] /\ method = [r \in Requests |-> "none"]
    /\ req = [r \in Requests |-> 0] /\ own = [r \in Requests |-> 0]
    /\ exposed = {} /\ unresumed = FALSE
    /\ failures = 0

Unfinished == {k \in DOMAIN runs : runs[k] \in {"init", "running"}}

Fail  == failures < MaxFailures /\ failures' = failures + 1
Works == UNCHANGED failures
Publish(k) == wire' = wire \cup {k}

\* The request goes on, or is through.
Go(r, step) == pc' = [pc EXCEPT ![r] = step] /\ UNCHANGED <<method, req, own>>
Return(r)   == /\ pc' = [pc EXCEPT ![r] = "idle"]
               /\ method' = [method EXCEPT ![r] = "none"]
               /\ req' = [req EXCEPT ![r] = 0] /\ own' = [own EXCEPT ![r] = 0]

-----------------------------------------------------------------------------
(* Invoke.                                                                 *)

\* A request, built from what the core knows.
Begin(r) ==
    /\ pc[r] = "idle"
    /\ \E m \in {"exec", "resume", "round"} :
          /\ method' = [method EXCEPT ![r] = m]
          /\ pc' = [pc EXCEPT ![r] = IF m = "round" THEN "round" ELSE "guard"]
    /\ req' = [req EXCEPT ![r] = data]
    /\ UNCHANGED <<vm, runs, aged, data, wire, own, exposed, unresumed, failures>>

\* Mutant of Expired: a run is waited for however long it takes.
ExpiredNever(k) == FALSE

Expired(k) == k <= aged

\* Mutant of StillRunning: a run that has only been created does not count.
StillRunningOnly(k) == k \in Unfinished /\ runs[k] = "running"

StillRunning(k) == k \in Unfinished

\* The check for a running backup passes: a run that is over, or two days
\* old, is taken out of the data.
Pass(r) ==
    /\ pc' = [pc EXCEPT ![r] = "act"]
    /\ req' = [req EXCEPT ![r] = 0]
    /\ wire' = IF req[r] = 0 THEN wire ELSE wire \cup {0}
    /\ exposed' = exposed \cup (Unfinished \ {req[r]})
    /\ UNCHANGED <<method, own>>

\* The status of the run is asked for unless it is expired.
Guard(r) ==
    LET k == req[r] IN
    /\ pc[r] = "guard"
    /\ \/ (k = 0 \/ Expired(k) \/ ~StillRunning(k)) /\ Works /\ Pass(r)
       \/ /\ k # 0 /\ ~Expired(k)
          /\ (IF StillRunning(k) THEN Works ELSE Fail)
          /\ Return(r) /\ UNCHANGED <<wire, exposed>>
    /\ UNCHANGED <<vm, runs, aged, data, unresumed>>

\* The action resume.
Resume(r) ==
    /\ pc[r] = "act" /\ method[r] = "resume" /\ Return(r)
    /\ \/ vm = "off" /\ Works /\ vm' = "on" /\ Publish(req[r])
       \/ (IF vm = "off" THEN Fail ELSE Works) /\ UNCHANGED <<vm, wire>>
    /\ UNCHANGED <<runs, aged, data, exposed, unresumed>>

\* A Monitoring round publishes the data as they came.
Round(r) ==
    /\ pc[r] = "round" /\ Publish(req[r]) /\ Return(r)
    /\ UNCHANGED <<vm, runs, aged, data, exposed, unresumed, failures>>

-----------------------------------------------------------------------------
(* BackupInstance.                                                         *)

Past(r) == pc[r] \notin {"idle", "guard", "round"}

\* Mutant of Create: the run is entered into the data before it is there.
CreateUnchecked(r) ==
    /\ pc[r] = "act" /\ method[r] = "exec" /\ Works
    /\ Publish(Len(runs) + 1) /\ runs' = runs /\ Return(r)
    /\ UNCHANGED <<vm, aged, data, exposed, unresumed>>

\* The run is created, if everything it takes is there, and published.
Create(r) ==
    LET k == Len(runs) + 1 IN
    /\ pc[r] = "act" /\ method[r] = "exec"
    /\ \/ (IF k > MaxRuns THEN Works ELSE Fail) /\ Return(r) /\ UNCHANGED <<runs, wire, exposed>>
       \/ /\ k <= MaxRuns /\ Works /\ Publish(k)
          /\ runs' = Append(runs, "init")
          /\ own' = [own EXCEPT ![r] = k] /\ pc' = [pc EXCEPT ![r] = "stop"]
          /\ exposed' = IF \E q \in Requests \ {r} : Past(q) THEN exposed \cup {k} ELSE exposed
          /\ UNCHANGED <<method, req>>
    /\ UNCHANGED <<vm, aged, data, unresumed>>

\* The VM is powered off unless it is; an error, as when another poweroff is
\* under way, ends the backup.
Stop(r) ==
    /\ pc[r] = "stop"
    /\ \/ /\ vm # "stopping" /\ Works /\ Go(r, "wait")
          /\ vm' = (IF vm = "on" THEN "stopping" ELSE vm) /\ UNCHANGED wire
       \/ /\ IF vm = "stopping" THEN Works ELSE Fail
          /\ Publish(0) /\ Return(r) /\ UNCHANGED vm
    /\ UNCHANGED <<runs, aged, data, exposed, unresumed>>

\* WaitForPoweroff, without a limit.
WaitForPoweroff(r) ==
    /\ pc[r] = "wait" /\ vm = "off" /\ Go(r, "exec")
    /\ UNCHANGED <<vm, runs, aged, data, wire, exposed, unresumed, failures>>

Started(r) ==
    /\ Works /\ runs' = [runs EXCEPT ![own[r]] = "running"]
    /\ Go(r, "playing") /\ UNCHANGED wire

\* Mutant of Exec: an error returns without resuming the VM.
ExecReturns(r) ==
    /\ pc[r] = "exec"
    /\ Started(r) \/ (Fail /\ Publish(0) /\ Return(r) /\ UNCHANGED runs)
    /\ UNCHANGED <<vm, aged, data, exposed, unresumed>>

\* The ansible service starts the playbook.
Exec(r) ==
    /\ pc[r] = "exec"
    /\ Started(r) \/ (Fail /\ Publish(0) /\ Go(r, "resume") /\ UNCHANGED runs)
    /\ UNCHANGED <<vm, aged, data, exposed, unresumed>>

\* Exec returns when the run is over; of a failed one it may return an error,
\* and it does when the connection is lost.
Played(r) ==
    /\ pc[r] = "playing" /\ Go(r, "resume")
    /\ \/ /\ own[r] \notin Unfinished /\ Works /\ UNCHANGED exposed
          /\ UNCHANGED wire \/ Publish(0)
       \/ own[r] \in Unfinished /\ Fail /\ Publish(0) /\ exposed' = exposed \cup {own[r]}
    /\ UNCHANGED <<vm, runs, aged, data, unresumed>>

\* The deferred ResumeVM, whose error is only logged.
ResumeVM(r) ==
    /\ pc[r] = "resume" /\ Return(r)
    /\ \/ Works /\ vm' = (IF vm = "off" THEN "on" ELSE vm) /\ UNCHANGED unresumed
       \/ Fail /\ unresumed' = TRUE /\ UNCHANGED vm
    /\ UNCHANGED <<runs, aged, data, wire, exposed>>

Step(r) ==
    \/ Guard(r) \/ Resume(r) \/ Round(r) \/ Create(r) \/ Stop(r)
    \/ WaitForPoweroff(r) \/ Exec(r) \/ Played(r) \/ ResumeVM(r)

-----------------------------------------------------------------------------
(* Around the driver.                                                      *)

RunEnds ==
    /\ \E k \in DOMAIN runs : runs[k] = "running" /\ runs' = [runs EXCEPT ![k] = "over"]
    /\ UNCHANGED <<vm, aged, data, wire, local, exposed, unresumed, failures>>

PoweredOff ==
    /\ vm = "stopping" /\ vm' = "off"
    /\ UNCHANGED <<runs, aged, data, wire, local, exposed, unresumed, failures>>

TwoDaysPass ==
    /\ aged < Len(runs) /\ aged' = aged + 1
    /\ UNCHANGED <<vm, runs, data, wire, local, exposed, unresumed, failures>>

\* What is published arrives in any order, unless the process dies first.
Arrive ==
    /\ \E k \in wire : data' = k /\ wire' = wire \ {k}
    /\ UNCHANGED <<vm, runs, aged, local, exposed, unresumed, failures>>

Crash ==
    /\ Fail
    /\ wire' = {}
    /\ pc' = [r \in Requests |-> "idle"] /\ method' = [r \in Requests |-> "none"]
    /\ req' = [r \in Requests |-> 0] /\ own' = [r \in Requests |-> 0]
    /\ unresumed' = (unresumed \/ vm # "on")
    /\ UNCHANGED <<vm, runs, aged, data, exposed>>

Next ==
    \/ \E r \in Requests : Begin(r) \/ Step(r)
    \/ RunEnds \/ PoweredOff \/ TwoDaysPass \/ Arrive \/ Crash

Spec == Init /\ [][Next]_vars

\* Handlers run to their end, runs do, VMs power off, publications arrive and
\* time passes; nobody need invoke anything.
FairSpec ==
    /\ Spec
    /\ \A r \in Requests : WF_vars(Step(r))
    /\ WF_vars(RunEnds) /\ WF_vars(PoweredOff) /\ WF_vars(TwoDaysPass) /\ WF_vars(Arrive)

-----------------------------------------------------------------------------
(* Properties.                                                             *)

\* While a playbook works on a VM's disk the VM is off ("Poweroff and wait for
\* poweroff before start"), even if the driver has been restarted meanwhile:
\* unless a request was built before the core knew of the run, the
\* connection that waits for it was lost, or it takes longer than two days.
PlaybookOnStoppedVM ==
    \A k \in DOMAIN runs \ exposed : runs[k] = "running" /\ k > aged => vm = "off"

\* A backup blocks no instance for ever, however it came to nothing: if
\* actions are invoked again and again, some pass the check.
NeverBlockedForGood ==
    []<>(\E r \in Requests : pc[r] = "guard") => []<>(\E r \in Requests : pc[r] = "act")

\* A VM that was running runs again after a backup, whatever step of it
\* failed, unless the resuming call did or the process died.
RunsAgain == []<>(vm = "on" \/ unresumed)

=============================================================================
