---------------------------- MODULE HandlerLoops ----------------------------
(***************************************************************************)
(* The loops of handleCapacityBilling, handleStaticBilling and             *)
(* handleAddonBilling, one iteration per step.  The loop condition reads   *)
(* time.Now() again in every iteration, so the clock may move while a      *)
(* handler runs.  InstanceBilling uses the closed forms of BillingPeriods; *)
(* here they are compared with the loops.                                  *)
(*                                                                         *)
(* kind "prepaid"  : the PREPAID branch, the same in all three handlers    *)
(* kind "capacity" : the POSTPAID branch of resources                      *)
(* kind "flat"     : the POSTPAID branch of products and addons            *)
(***************************************************************************)
EXTENDS BillingPeriods, PaymentCalendar

CONSTANTS
    Kinds,       \* kinds of loop to run
    Calendars,   \* values of PeriodKind # DEFAULT
    Periods,     \* period lengths
    Lasts,       \* values of last_monitoring a handler starts from
    MaxNow,      \* bound: last instant of the clock
    MaxTicks,    \* bound: how far the clock moves while a handler runs
    MaxSpans     \* bound: records of one call

ASSUME LoopAssumption ==
    /\ Kinds \subseteq {"prepaid", "capacity", "flat"}
    /\ Calendars \subseteq BOOLEAN
    /\ Periods \subseteq Nat \ {0} /\ Lasts \subseteq Nat
    /\ MaxNow \in Nat /\ MaxTicks \in Nat /\ MaxSpans \in Nat

VARIABLES
    call,        \* the parameters of the handler, and the time it is called
    now,         \* the clock
    from,        \* the variable last of the loop
    end,         \* the variable end of the loop
    spans,       \* records appended so far
    running      \* the loop has not ended yet

vars == <<call, now, from, end, spans, running>>

Init ==
    /\ call \in [kind : Kinds, calendar : Calendars, period : Periods, last : Lasts,
                 at : Lasts]
    /\ call.last <= call.at
    \* The flat loop of a monthly plan does not end: last stays where it is
    \* and AlignPaymentDate gives the same end in every iteration.
    /\ ~(call.kind = "flat" /\ call.calendar /\ call.period = Month30)
    /\ now = call.at
    /\ from = call.last
    /\ end = call.last + call.period
    /\ spans = << >>
    /\ running = TRUE

\* Mutant of More: a prepaid period is billed once it is over.
MoreOver == end <= now

\* The loop condition.
More == IF call.kind = "prepaid" THEN from <= now ELSE end <= now

\* The end of the period: the capacity loop has no calendar periods.
Aligned ==
    IF call.calendar /\ call.kind # "capacity"
    THEN AlignPaymentDate(from, end, call.period) ELSE end

\* Mutant of Iterate: no loop advances last.
IterateStuck ==
    /\ running /\ More /\ Len(spans) < MaxSpans
    /\ spans' = Append(spans, Span(from, Aligned))
    /\ end' = Aligned + call.period
    /\ UNCHANGED <<call, now, from, running>>

Iterate ==
    /\ running /\ More /\ Len(spans) < MaxSpans
    /\ spans' = Append(spans, Span(from, Aligned))
    /\ from' = IF call.kind = "flat" THEN from ELSE Aligned
    /\ end' = Aligned + call.period
    /\ UNCHANGED <<call, now, running>>

Finish ==
    /\ running /\ ~More
    /\ running' = FALSE
    /\ UNCHANGED <<call, now, from, end, spans>>

Tick ==
    /\ running /\ now < MaxNow /\ now < call.at + MaxTicks
    /\ now' = now + 1
    /\ UNCHANGED <<call, from, end, spans, running>>

Next == Iterate \/ Finish \/ Tick

Spec == Init /\ [][Next]_vars /\ WF_vars(Iterate \/ Finish)

-----------------------------------------------------------------------------

\* When a loop ends, its records and its last are the closed form taken at
\* the instant it ends, even if the clock moved while it ran: a handler
\* bills as if it had been called at once with its final reading.  Where it
\* goes by calendar months, its records follow one another without gap or
\* overlap from last to where the next call starts, beyond the present.
ClosedForm ==
    ~running /\ ~(call.calendar /\ call.kind = "flat") =>
        CASE call.calendar /\ call.kind = "prepaid" ->
               /\ spans # << >> /\ from > now
               /\ \A i \in DOMAIN spans :
                     /\ spans[i].start = IF i = 1 THEN call.last ELSE spans[i - 1].end
                     /\ spans[i].start < spans[i].end
               /\ spans[Len(spans)].end = from
          [] ~call.calendar /\ call.kind = "prepaid" ->
               /\ spans = PrepaidSpans(call.last, now, call.period)
               /\ from = PrepaidLast(call.last, now, call.period)
          [] call.kind = "capacity" ->
               /\ spans = CapacitySpans(call.last, now, call.period)
               /\ from = CapacityLast(call.last, now, call.period)
          [] call.kind = "flat" ->
               /\ spans = FlatSpans(call.last, now, call.period)
               /\ from = FlatLast(call.last, now, call.period)

\* A handler returns: no loop chases the clock for ever.
Terminates == <>~running

=============================================================================
