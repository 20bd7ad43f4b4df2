------------------------------ MODULE Notices ------------------------------
(***************************************************************************)
(* The notices a customer gets before a paid period ends and while the     *)
(* instance is suspended: handleBillingEvent and handleSuspendEvent.  All  *)
(* that a round knows of earlier notices is the number of days the last    *)
(* one named, which stays in the instance's data for ever.                 *)
(*                                                                         *)
(* Time is counted in days, and every day has a round of monitoring.  The  *)
(* product is a prepaid one of a static plan.                              *)
(***************************************************************************)
EXTENDS Integers, FiniteSetsExt

CONSTANTS
    Lengths,         \* what the period of the product may be, in days
    MaxRenewals,     \* bound: renewals of the instance
    MaxSuspensions   \* bound: suspensions of its group

VARIABLES
    period,      \* the period of the product
    left,        \* last_monitoring: days until the paid period ends
    idle,        \* suspend_time: days since the suspension, -1 if there is none
    flag,        \* notification_period, -1 if there is none
    sflag,       \* suspend_notification_period, -1 if there is none
    monitored,   \* a round has come to the notices today
    \* history
    sent,        \* days -> notices that named them in this period
    ssent,       \* the same of this suspension
    opening,     \* days the first notice named, while its period lasts, or -1
    former,      \* flag when this period began
    kept,        \* sflag when the suspension began
    renewals, suspensions

before == <<flag, sent, opening, former>>
after  == <<idle, sflag, ssent, kept, suspensions>>
vars   == <<period, left, before, after, monitored, renewals>>

notificationsPeriods        == {0, 1, 2, 3, 7, 15, 30}
suspendNotificationsPeriods == {1, 2, 3, 7}

NoNotice  == [d \in notificationsPeriods |-> 0]
Suspended == idle >= 0

Init ==
    /\ period \in Lengths /\ left = period
    /\ idle = -1 /\ flag = -1 /\ sflag = -1 /\ monitored = FALSE
    /\ sent = NoNotice /\ ssent = NoNotice /\ opening = -1
    /\ former = -1 /\ kept = -1
    /\ renewals = 0 /\ suspensions = 0

-----------------------------------------------------------------------------
(* handleBillingEvent, n days before the end.                              *)

\* The loop stops at the least of these.
Ahead(n) == {d \in notificationsPeriods : n <= d}

\* Without a flag it goes on to the next threshold, which then differs.
Opening(d) ==
    {d} \cup IF Ahead(d + 1) = {} \/ Min(Ahead(d + 1)) = period THEN {}
             ELSE {Min(Ahead(d + 1))}

\* Mutant of Flagged: days that were named already are named again.
FlaggedNever(n) == Ahead(n) = {} \/ Min(Ahead(n)) = period

\* Mutant of Flagged: notices go down from the first.
FlaggedBelow(n) == Ahead(n) = {} \/ Min(Ahead(n)) = period \/ flag \in 0 .. Min(Ahead(n))

\* Nothing is sent: the last notice named these days, or they are as many as the
\* period has.
Flagged(n) == Ahead(n) = {} \/ Min(Ahead(n)) \in {period, flag}

\* The notices of this period so far are past, and first its first.
BillingEvent(n, past, first) ==
    IF Flagged(n) THEN flag' = flag /\ sent' = past /\ opening' = first
    ELSE LET days == IF flag = -1 THEN Opening(Min(Ahead(n))) ELSE {Min(Ahead(n))} IN
         /\ sent' = [d \in notificationsPeriods |-> past[d] + IF d \in days THEN 1 ELSE 0]
         /\ flag' = Max(days)
         /\ opening' = IF flag = -1 THEN Min(days) ELSE first

-----------------------------------------------------------------------------
(* handleSuspendEvent.                                                     *)

Behind == {d \in suspendNotificationsPeriods : idle >= d}

\* The first notice of all is sent twice.
SuspendEvent ==
    IF Behind = {} \/ Max(Behind) = sflag THEN UNCHANGED <<sflag, ssent>>
    ELSE /\ sflag' = Max(Behind)
         /\ ssent' = [ssent EXCEPT ![Max(Behind)] = @ + IF sflag = -1 THEN 2 ELSE 1]

-----------------------------------------------------------------------------
(* Rounds.                                                                 *)

\* A period that is over is renewed if the account has the money; if not, the
\* round returns before it comes to the notices.
Round ==
    /\ ~Suspended /\ monitored' = TRUE /\ UNCHANGED <<period, after>>
    /\ \/ left > 0 /\ BillingEvent(left, sent, opening)
          /\ UNCHANGED <<left, former, renewals>>
       \/ /\ left = 0 /\ renewals < MaxRenewals /\ renewals' = renewals + 1
          /\ left' = period /\ former' = flag /\ BillingEvent(period, NoNotice, -1)
       \/ left = 0 /\ UNCHANGED <<left, before, renewals>>

\* In a suspended group the renewal is billed, and the VM suspended.
Suspend ==
    /\ ~Suspended /\ left = 0 /\ monitored' = TRUE
    /\ suspensions < MaxSuspensions /\ suspensions' = suspensions + 1
    /\ left' = period /\ former' = flag /\ BillingEvent(period, NoNotice, -1)
    /\ idle' = 0 /\ kept' = sflag /\ ssent' = NoNotice
    /\ UNCHANGED <<period, sflag, renewals>>

\* last_monitoring moves with the clock.
SuspendedRound ==
    /\ Suspended /\ monitored' = TRUE /\ left' = 0
    /\ SuspendEvent
    /\ UNCHANGED <<period, idle, before, kept, suspensions, renewals>>

\* The VM is resumed, and suspend_time deleted before handleSuspendEvent reads it.
Resume ==
    /\ Suspended /\ idle' = -1
    /\ left' = period /\ sent' = NoNotice /\ opening' = -1 /\ former' = flag
    /\ UNCHANGED <<period, flag, sflag, ssent, kept, suspensions, monitored, renewals>>

\* manual_renew and free_renew.
RenewEarly ==
    /\ ~Suspended /\ renewals < MaxRenewals /\ renewals' = renewals + 1
    /\ left' = left + period /\ sent' = NoNotice /\ opening' = -1 /\ former' = flag
    /\ monitored' = FALSE
    /\ UNCHANGED <<period, flag, after>>

\* Suspensions are followed for 8 days.
Tick ==
    /\ monitored /\ monitored' = FALSE /\ idle < 8
    /\ left' = Max({left - 1, 0})
    /\ idle' = IF Suspended THEN idle + 1 ELSE idle
    /\ UNCHANGED <<period, before, sflag, ssent, kept, suspensions, renewals>>

Next == Round \/ Suspend \/ SuspendedRound \/ Resume \/ RenewEarly \/ Tick

Spec == Init /\ [][Next]_vars

-----------------------------------------------------------------------------

\* No notice is repeated within a period or a suspension, however many rounds
\* there are a day and however early the instance is renewed; but for the first
\* of its kind the instance ever gets, which is sent twice.
NoticeOnce ==
    \A d \in notificationsPeriods :
        /\ sent[d] <= IF d = opening THEN 2 ELSE 1
        /\ ssent[d] <= IF kept = -1 /\ d = Min(suspendNotificationsPeriods) THEN 2 ELSE 1

\* After each round a customer was told in this very period how many days are
\* left, to the next threshold below the period, although no flag is ever reset
\* and periods are renewed early; but for the first threshold of a period, if it
\* is the last one that was named before (of a month renewed between the 8th
\* and the 15th day before its end, the notice of 15 days is missing).  So is
\* one who is suspended, but for the days that were named last by an earlier
\* suspension.
Told ==
    monitored =>
        /\ \A d \in notificationsPeriods :
              /\ ~Suspended /\ left > 0 /\ d < period /\ Ahead(left) # {}
              /\ d = Min(Ahead(left))
              => \/ sent[d] > 0
                 \/ d = former /\ ~\E e \in notificationsPeriods : d < e /\ e < period
        /\ Suspended /\ Behind # {} /\ Max(Behind) # kept => ssent[Max(Behind)] > 0

=============================================================================
