--------------------------- MODULE BillingPeriods ---------------------------
(***************************************************************************)
(* The period arithmetic of pkg/server/billing.go.  Every billing handler  *)
(* is a loop that walks from the end of the last billed period ("last") to *)
(* the present ("now") in steps of one period p and emits one record per   *)
(* step.  Here each loop is given by its closed form; HandlerLoops         *)
(* compares them with the loops, run one iteration at a time.              *)
(*                                                                         *)
(* Times are integers (Unix seconds scaled down); p > 0.  PeriodKind is    *)
(* DEFAULT: PaymentCalendar models the other kind.                         *)
(***************************************************************************)
EXTENDS Integers, Sequences

\* What a billing record says of time; the item and the price are added by
\* the modules that publish it.
Span(from, to) == [start |-> from, end |-> to]

\* n consecutive spans of length p, the first starting at last.
Tiles(last, n, p) ==
    [j \in 1 .. n |-> Span(last + (j - 1) * p, last + j * p)]

-----------------------------------------------------------------------------
(* PREPAID: a period is billed as soon as it has begun, so the loops run   *)
(* while last <= now.                                                      *)

\* Mutant of Begun: a period that begins at this very instant is not billed.
BegunLate(last, now, p) ==
    IF last < now THEN ((now - last - 1) \div p) + 1 ELSE 0

Begun(last, now, p) ==
    IF last <= now THEN ((now - last) \div p) + 1 ELSE 0

PrepaidSpans(last, now, p) == Tiles(last, Begun(last, now, p), p)

PrepaidLast(last, now, p)  == last + Begun(last, now, p) * p

-----------------------------------------------------------------------------
(* POSTPAID: a period is billed once it is over (end <= now).              *)

Elapsed(last, now, p) ==
    IF last + p <= now THEN (now - last) \div p ELSE 0

\* Resources: handleCapacityBilling ends every step with last = end.
CapacitySpans(last, now, p) == Tiles(last, Elapsed(last, now, p), p)

\* Mutant of CapacityLast: last is not assigned, as in the flat loops.
CapacityLastKept(last, now, p) == last

CapacityLast(last, now, p)  == last + Elapsed(last, now, p) * p

\* Products and addons: the loops of handleStaticBilling and
\* handleAddonBilling never assign last, so every span starts at last and
\* last is returned as it came.
FlatSpans(last, now, p) ==
    [j \in 1 .. Elapsed(last, now, p) |-> Span(last, last + j * p)]

FlatLast(last, now, p)  == last

=============================================================================
