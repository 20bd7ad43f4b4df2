--------------------------- MODULE MCComputations ---------------------------
(***************************************************************************)
(* Four small computations of the driver, for TLC: the loops of the        *)
(* billing handlers (HandlerLoops), the renewals of an instance paid by    *)
(* the month, the bills of a metered VM, and the notices to a customer.    *)
(* They share nothing: a behaviour is one of them, the task, while the     *)
(* others stay in a first or last state of theirs.                         *)
(***************************************************************************)
EXTENDS HandlerLoops

CONSTANTS
    Starts, MaxMoves,                                      \* of MonthlyRenewal
    Amount, Period, On, Except, MaxTime, MaxHistory,       \* of VMTimeline
    Lengths, MaxRenewals, MaxSuspensions                   \* of Notices

ASSUME ComputationsAssumption ==
    /\ Starts \subseteq Nat
    /\ Amount \in Nat /\ Period \in Nat \ {0} /\ Except \in BOOLEAN
    /\ Lengths \subseteq Nat \ {0}

\* Every day of two years, one of them a leap year.
Days == 31 .. 31 + 730

VARIABLES
    task,
    first, paid, renewed, canceled,                  \* MonthlyRenewal
    at, history, last, charged, used,                \* VMTimeline
    period, left, idle, flag, sflag, monitored, sent, ssent, opening, former, kept,
    renewals, suspensions                            \* Notices

months  == <<first, paid, renewed, canceled>>
meter   == <<at, history, last, charged, used>>
notices == <<period, left, idle, flag, sflag, monitored, sent, ssent, opening, former,
             kept, renewals, suspensions>>

Months == INSTANCE MonthlyRenewal WITH last <- paid

Meter == INSTANCE VMTimeline WITH now <- at

Notices == INSTANCE Notices

\* A loop that had nothing to do.
Returned ==
    /\ call = [kind |-> "capacity", calendar |-> FALSE, period |-> 3, last |-> 0, at |-> 0]
    /\ now = 0 /\ from = 0 /\ end = 3 /\ spans = << >> /\ running = FALSE

InitTask ==
    /\ task \in {"loops", "months", "meter", "notices"}
    /\ \/ task = "loops" /\ Init
       \/ task # "loops" /\ Returned
    /\ Months!Init /\ (task # "months" => first = CHOOSE d \in Starts : TRUE)
    /\ Meter!Init
    /\ Notices!Init /\ (task # "notices" => period = CHOOSE d \in Lengths : TRUE)

NextTask ==
    /\ UNCHANGED task
    /\ \/ task = "loops" /\ Next /\ UNCHANGED <<months, meter, notices>>
       \/ task = "months" /\ Months!Next /\ UNCHANGED <<vars, meter, notices>>
       \/ task = "meter" /\ Meter!Next /\ UNCHANGED <<vars, months, notices>>
       \/ task = "notices" /\ Notices!Next /\ UNCHANGED <<vars, months, meter>>

SpecTask ==
    /\ InitTask /\ [][NextTask]_<<task, vars, months, meter, notices>>
    /\ WF_vars(Iterate \/ Finish)

-----------------------------------------------------------------------------
(* The properties of the other three modules, as they state them.          *)

\* Renewals and cancellations count calendar months.
MonthsCounted == Months!MonthsCounted

\* Cancelling gives the money's worth back to the day.
CancelUndoesRenew == Months!CancelUndoesRenew

\* A metered resource is not charged for more than was used.
NeverOvercharged == Meter!NeverOvercharged

\* Nor for less, if the VM was used all the time.
SteadyUseCharged == Meter!SteadyUseCharged

\* No notice is repeated.
NoticeOnce == Notices!NoticeOnce

\* Customers are told of the end of each period.
Told == Notices!Told

=============================================================================
