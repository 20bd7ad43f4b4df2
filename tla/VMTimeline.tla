----------------------------- MODULE VMTimeline -----------------------------
(***************************************************************************)
(* What a metered (POSTPAID) resource is charged for the states its VM     *)
(* went through: MakeTimeline, MakeTimelineRecords and FilterTimeline of   *)
(* pkg/driver/vm.go and the POSTPAID branch of handleCapacityBilling.      *)
(*                                                                         *)
(* OpenNebula keeps one history record per stretch a VM ran: rstime and    *)
(* retime bound the running, etime is set when the next record begins, and *)
(* action tells what ended the running.  A time not reached yet is 0.      *)
(*                                                                         *)
(* The code's slices of stretches and records are sets: stretches do not   *)
(* overlap, so that none are equal but empty ones, which cost nothing.     *)
(***************************************************************************)
EXTENDS Integers, Sequences, FiniteSetsExt

CONSTANTS
    Amount,      \* units of the resource, in hundredths
    Period,      \* period of the resource
    On,          \* states in its On list
    Except,      \* its except flag
    MaxTime,     \* bound: last instant of the clock
    MaxHistory   \* bound: history records of the VM

VARIABLES
    now,         \* the clock
    history,     \* history records of the VM
    last,        \* <resource>_last_monitoring
    charged,     \* total of the records published so far
    used         \* time the VM has spent in a billed state

vars == <<now, history, last, charged, used>>

SuspendAction  == 9
PoweroffAction == 20

\* The state a VM is in after the action that ended a stretch of running.
StateAfter(action) ==
    CASE action \in {9, 10}  -> "SUSPENDED"
      [] action = 20         -> "STOPPED"
      [] action \in {27, 28} -> "DELETED"

Stretch(from, to, state) == [start |-> from, end |-> to, state |-> state]

MakeTimelineRecords(r) ==
    {Stretch(r.rstime, r.retime, "RUNNING")}
    \cup IF r.action \in {9, 10, 20, 27, 28}
         THEN {Stretch(r.retime, r.etime, StateAfter(r.action))} ELSE {}

MakeTimeline == UNION {MakeTimelineRecords(history[i]) : i \in DOMAIN history}

\* The stretches that meet [from, to], cut to it; one without an end goes on
\* to the end of the window, one without a start has not begun.
FilterTimeline(tl, from, to) ==
    LET begun  == {r \in tl : r.end # 0 \/ r.start # 0}
        closed == {[r EXCEPT !.end = IF @ = 0 THEN to ELSE @] : r \in begun}
        inside == {r \in closed : ~(r.end < from \/ r.start > to)}
    IN {[r EXCEPT !.start = IF @ < from THEN from ELSE @,
                  !.end   = IF @ > to THEN to ELSE @] : r \in inside}

\* Mutant of Charge: a period that was begun counts.
ChargeBegun(r) == ((r.end - r.start + Period - 1) \div Period) * Amount

\* Whole periods only: the quotient is an integer division.
Charge(r) == ((r.end - r.start) \div Period) * Amount

PeriodRecords(tl, from) ==
    {[start |-> r.start, end |-> r.end, total |-> Charge(r)] :
        r \in {r \in FilterTimeline(tl, from, from + Period) : (r.state \in On) # Except}}

\* The POSTPAID branch of handleCapacityBilling.
CapacityRecords ==
    LET tl    == FilterTimeline(MakeTimeline, last, now)
        ended == IF last + Period <= now THEN (now - last) \div Period ELSE 0
    IN UNION {PeriodRecords(tl, last + (j - 1) * Period) : j \in 1 .. ended}

\* Mutant of CapacityEnd: up to the present, with the period not over yet.
CapacityEndNow == IF last + Period <= now THEN now ELSE last

CapacityEnd ==
    IF last + Period <= now THEN last + ((now - last) \div Period) * Period ELSE last

-----------------------------------------------------------------------------
(* The VM and the clock.  Times start at 1, for 0 means "not yet".         *)

Current == history[Len(history)]

Init ==
    /\ now = 1
    /\ history = << [rstime |-> 1, retime |-> 0, etime |-> 0, action |-> 0] >>
    /\ last = 1
    /\ charged = 0
    /\ used = 0

State == IF Current.retime = 0 THEN "RUNNING" ELSE StateAfter(Current.action)

Tick ==
    /\ now < MaxTime
    /\ now' = now + 1
    /\ used' = IF (State \in On) # Except THEN used + 1 ELSE used
    /\ UNCHANGED <<history, last, charged>>

Stop(action) ==
    /\ Current.retime = 0
    /\ history' = [history EXCEPT ![Len(history)].retime = now,
                                  ![Len(history)].action = action]
    /\ UNCHANGED <<now, last, charged, used>>

Start ==
    /\ Current.retime # 0
    /\ Len(history) < MaxHistory
    /\ history' = Append([history EXCEPT ![Len(history)].etime = now],
                         [rstime |-> now, retime |-> 0, etime |-> 0, action |-> 0])
    /\ UNCHANGED <<now, last, charged, used>>

\* A monitoring round: last_monitoring is written only with records.
Bill ==
    /\ charged' = charged + MapThenSumSet(LAMBDA r : r.total, CapacityRecords)
    /\ last' = IF CapacityRecords = {} THEN last ELSE CapacityEnd
    /\ UNCHANGED <<now, history, used>>

Next == Tick \/ Stop(SuspendAction) \/ Stop(PoweroffAction) \/ Start \/ Bill

Spec == Init /\ [][Next]_vars

-----------------------------------------------------------------------------

\* However often the VM is stopped and started, and whenever the rounds
\* come, the customer never pays for more time than the VM spent in a billed
\* state.
NeverOvercharged == charged * Period <= Amount * used

\* A VM that has run without a stop, its state being a billed one, pays for
\* every period that ended by its last_monitoring: no round skips one and
\* none is charged twice.  (One that moved between two billed states within
\* a period pays nothing for it: each stretch alone is shorter than a period.)
SteadyUseCharged ==
    history[1].retime = 0 /\ used = now - 1 =>
        charged = Amount * ((last - 1) \div Period)

=============================================================================
