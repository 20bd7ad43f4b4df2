--------------------------- MODULE MonthlyRenewal ---------------------------
(***************************************************************************)
(* The last_monitoring of an instance billed by calendar months, moved     *)
(* ahead by renewals (billing rounds, manual_renew, free_renew) and back   *)
(* by cancel_renew, in any order.                                          *)
(***************************************************************************)
EXTENDS PaymentCalendar

CONSTANTS
    Starts,      \* bound: days the billing may start on
    MaxMoves     \* bound: number of renewals and cancellations

VARIABLES
    first,       \* the day the billing started
    last,        \* last_monitoring
    renewed,     \* renewals so far
    canceled     \* cancellations so far

vars == <<first, last, renewed, canceled>>

Init ==
    /\ first \in Starts
    /\ last = first
    /\ renewed = 0 /\ canceled = 0

RenewMonth ==
    /\ renewed + canceled < MaxMoves
    /\ last' = AlignPaymentDate(last, last + Month30, Month30)
    /\ renewed' = renewed + 1
    /\ UNCHANGED <<first, canceled>>

\* CancelRenew passes an end before the start.
CancelMonth ==
    /\ renewed + canceled < MaxMoves
    /\ canceled < renewed
    /\ last' = AlignPaymentDate(last, last - Month30, Month30)
    /\ canceled' = canceled + 1
    /\ UNCHANGED <<first, renewed>>

Next == RenewMonth \/ CancelMonth

Spec == Init /\ [][Next]_vars

-----------------------------------------------------------------------------

\* However renewals and cancellations follow each other, an instance is paid
\* up to a day of the month that many calendar months after the start: no
\* move skips a month or stays in one, through short months and leap years.
MonthsCounted == MonthOf(last) = MonthOf(first) + renewed - canceled

\* Cancelling as often as renewing gives the money's worth back to the day
\* when the billing day exists in every month.
CancelUndoesRenew ==
    renewed = canceled /\ DayOf(first) <= 28 => last = first

=============================================================================
