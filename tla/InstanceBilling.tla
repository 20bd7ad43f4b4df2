--------------------------- MODULE InstanceBilling --------------------------
(***************************************************************************)
(* The billing of one instance by the Monitoring routine:                  *)
(* handleInstanceBilling (auto_renew) and handleNonRegularInstanceBilling, *)
(* with the Invoke actions that touch the same data: manual_renew,         *)
(* free_renew, cancel_renew, suspend, resume, poweroff, freeze, unfreeze.  *)
(*                                                                         *)
(* One request is handled at a time and what it publishes arrives before   *)
(* the next one is built from it.  Wording, prices in money, the notices   *)
(* and the *_next_payment_date fields, which nothing reads back, are left  *)
(* out.                                                                    *)
(***************************************************************************)
EXTENDS BillingPeriods, FiniteSets, FiniteSetsExt

CONSTANTS
    Resources,    \* resources of the billing plan (cpu, ram, drive_*, ips_public)
    Addons,       \* addons attached to the instance
    Product,      \* the product of the instance
    PlanKind,     \* "STATIC" or "DYNAMIC"
    Kind,         \* item -> "PREPAID" or "POSTPAID"
    Period,       \* resource or product -> period, 0 for a one-time payment
    Price,        \* item -> price of one record
    OnStates,     \* resource -> VM states in which a dynamic plan bills it
    Except,       \* resource -> the resource's except flag
    Created,      \* creation time of the VM
    InstCreated,  \* creation time of the instance, before its VM's
    MaxTime,      \* bound: last instant of the clock
    MaxFunds,     \* bound: funds the account is topped up to
    MaxChanges    \* bound: number of changes made from outside the driver

Items    == Resources \cup Addons \cup {Product}
VMStates == {"RUNNING", "SUSPENDED", "POWEROFF"}
Usages   == {"off", "part", "full"}

\* Addons are billed with the period of the product.
PeriodOf(it) == IF it \in Resources THEN Period[it] ELSE Period[Product]

ASSUME PlanAssumption ==
    /\ Product \notin Resources \cup Addons /\ Resources \cap Addons = {}
    /\ IsFiniteSet(Items)
    /\ PlanKind \in {"STATIC", "DYNAMIC"}
    /\ Kind \in [Items -> {"PREPAID", "POSTPAID"}]
    /\ Period \in [Resources \cup {Product} -> Nat]
    /\ Price \in [Items -> Nat]
    /\ OnStates \in [Resources -> SUBSET VMStates]
    /\ Except \in [Resources -> BOOLEAN]
    /\ Created \in Nat /\ InstCreated \in 0 .. Created

ASSUME BoundAssumption ==
    MaxTime \in Nat /\ MaxFunds \in Nat /\ MaxChanges \in Nat

VARIABLES
    now,         \* the clock
    vm,          \* state of the VM in OpenNebula
    posted,      \* inst.State: the state posted by the previous round
    igStatus,    \* status of the instances group, set by the core
    deleted,     \* the instance has status DEL
    autoRenew,   \* config "auto_renew"
    funds,       \* balance of the account
    data,        \* inst.Data
    ledger,      \* records published so far, per item
    skewed,      \* last_monitoring was moved ahead without a record, or
                 \* an item never billed was renewed from 0
    clawed,      \* last_monitoring was moved back
    changes      \* changes made from outside so far

vars == <<now, vm, posted, igStatus, deleted, autoRenew, funds, data, ledger,
          skewed, clawed, changes>>

\* The keys of inst.Data the billing reads.  A last_monitoring that is not
\* in keys reads as 0, as GetNumberValue of a missing value does, and so do
\* the others.
Data == [keys     : SUBSET Items,   \* items with a last_monitoring
         lm       : [Items -> Int], \* [<key>_|addon_<id>_]last_monitoring
         manual   : BOOLEAN,        \* suspended_manually
         freeze   : BOOLEAN,
         immune   : Int,            \* immune_date
         canceled : {"absent", "no", "yes"}]   \* canceled_renew

Record == [start : Int, end : Int, cost : Nat]

\* Everything but the funds, whose type depends on a sum over the items.
BooksTypeOK ==
    /\ now \in Nat
    /\ vm \in VMStates
    /\ posted \in VMStates
    /\ igStatus \in {"ACTIVE", "SUS", "DETACHED"}
    /\ deleted \in BOOLEAN
    /\ autoRenew \in BOOLEAN
    /\ data \in Data
    /\ ledger \in [Items -> Seq(Record)]
    /\ skewed \in [Items -> BOOLEAN]
    /\ clawed \in [Items -> BOOLEAN]
    /\ changes \in Nat

TypeOK == BooksTypeOK /\ funds \in Int

-----------------------------------------------------------------------------
(* What one round bills.  usage[r] says how a metered resource was used    *)
(* in the periods since last: "full" when the VM was in a billed state all *)
(* through them, "part" when only for some of the time, which              *)
(* handleCapacityBilling rounds down to a record of total 0, "off" when    *)
(* the timeline has no billed record at all.                               *)

Metered == {r \in Resources : Kind[r] = "POSTPAID" /\ Period[r] # 0}

Last(it) == IF it \in data.keys THEN data.lm[it] ELSE Created

\* The items the handlers walk through: a dynamic plan skips the product.
Walked == IF PlanKind = "STATIC" THEN Items ELSE Items \ {Product}

OneTimeSpans(it) ==
    IF it \in data.keys THEN << >>
    ELSE IF it \in Resources THEN << Span(now, now + 1) >>
    ELSE << Span(Last(it), Last(it) + 1) >>

PeriodicSpans(it, usage) ==
    LET p == PeriodOf(it) IN
    IF Kind[it] = "PREPAID" THEN PrepaidSpans(Last(it), now, p)
    ELSE IF it \notin Resources THEN FlatSpans(Last(it), now, p)
    ELSE IF usage[it] = "off" THEN << >>
    ELSE CapacitySpans(Last(it), now, p)

\* The spans computed for an item; zeroRes says whether resources with
\* period 0 are billed.
Spans(it, usage, zeroRes) ==
    IF it \notin Walked THEN << >>
    ELSE IF PeriodOf(it) # 0 THEN PeriodicSpans(it, usage)
    ELSE IF it \in Resources /\ ~zeroRes THEN << >>
    ELSE OneTimeSpans(it)

\* A dynamic plan drops the records of a resource whose On list does not
\* hold the instance's last posted state.
Kept(it) ==
    \/ it \notin Resources
    \/ PeriodOf(it) = 0
    \/ PlanKind = "STATIC"
    \/ posted \in OnStates[it]
    \/ Except[it]

Cost(it, usage) ==
    IF it \in Metered /\ usage[it] = "part" THEN 0 ELSE Price[it]

Priced(spans, cost) ==
    [j \in 1 .. Len(spans) |->
        [start |-> spans[j].start, end |-> spans[j].end, cost |-> cost]]

Bill(it, usage, zeroRes) ==
    IF Kept(it) THEN Priced(Spans(it, usage, zeroRes), Cost(it, usage)) ELSE << >>

\* Mutant of Written: what is paid once leaves no last_monitoring.
WrittenPeriodic(it, usage, zeroRes) ==
    Spans(it, usage, zeroRes) # << >> /\ PeriodOf(it) # 0

\* Mutant of Written: that of an addon is not.
WrittenNoAddon(it, usage, zeroRes) ==
    /\ Spans(it, usage, zeroRes) # << >> /\ it \notin Addons
    /\ it \in Resources => PeriodOf(it) # 0

\* last_monitoring of an item is written only when its handler returned
\* records; a resource with period 0 never gets one.
Written(it, usage, zeroRes) ==
    /\ Spans(it, usage, zeroRes) # << >>
    /\ it \in Resources => PeriodOf(it) # 0

Renewed(it, usage, zeroRes) ==
    LET p == PeriodOf(it) IN
    IF ~Written(it, usage, zeroRes) THEN data.lm[it]
    ELSE IF p = 0 THEN Last(it)
    ELSE IF Kind[it] = "PREPAID" THEN PrepaidLast(Last(it), now, p)
    ELSE IF it \in Resources THEN CapacityLast(Last(it), now, p)
    ELSE FlatLast(Last(it), now, p)

\* The data map after the handlers, and the items it has lost records of.
Renewal(usage, zeroRes) ==
    [data EXCEPT
        !.keys = @ \cup {it \in Items : Written(it, usage, zeroRes)},
        !.lm   = [it \in Items |-> Renewed(it, usage, zeroRes)]]

Dropped(it, usage, zeroRes) == Written(it, usage, zeroRes) /\ ~Kept(it)

Total(usage, zeroRes) ==
    MapThenSumSet(LAMBDA it : Len(Bill(it, usage, zeroRes)) * Cost(it, usage), Items)

-----------------------------------------------------------------------------
(* OpenNebula, as the driver uses it: suspending succeeds for a running VM *)
(* only, resuming for one that is not running; a call that fails (ok is    *)
(* FALSE, or suspend rules forbid it) is logged and changes nothing.       *)

AfterSuspend(ok) == IF ok /\ vm = "RUNNING" THEN "SUSPENDED" ELSE vm
AfterResume(ok)  == IF ok /\ vm # "RUNNING" THEN "RUNNING" ELSE vm

\* What StateVM reports: the state of the VM, or "nil" when the call fails.
Seen == {vm, "nil"}

\* Mutant of PostState: what was read is posted even if the call failed.
PostStateUnchecked(seen) == posted' = seen

\* StatusesClient posts the state it could read, before the billing.
PostState(seen) == posted' = IF seen = "nil" THEN posted ELSE vm

Publish(recs) == ledger' = [it \in Items |-> ledger[it] \o recs[it]]

OnePayment == PlanKind = "STATIC" /\ Period[Product] = 0

Init ==
    /\ now = Created
    /\ vm = "RUNNING"
    /\ posted = "RUNNING"
    /\ igStatus = "ACTIVE"
    /\ deleted = FALSE
    /\ autoRenew \in BOOLEAN
    /\ funds = MaxFunds
    /\ data = [keys |-> {}, lm |-> [it \in Items |-> 0], manual |-> FALSE,
               freeze |-> FALSE, immune |-> 0, canceled |-> "absent"]
    /\ ledger = [it \in Items |-> << >>]
    /\ skewed = [it \in Items |-> FALSE]
    /\ clawed = [it \in Items |-> FALSE]
    /\ changes = 0

-----------------------------------------------------------------------------
(* handleInstanceBilling.                                                  *)

AutoBilled == autoRenew /\ ~deleted

\* Mutant of Affordable: only the product is compared with the balance.
AffordableProduct(usage, balance) ==
    Len(Bill(Product, usage, TRUE)) * Price[Product] <= balance

Affordable(usage, balance) ==
    Total(usage, TRUE) = 0 \/ Total(usage, TRUE) <= balance

\* Up runs an unscheduled round without the balances of the accounts, and a
\* balance that is not in the map reads as 0.
Balances == {funds, 0}

\* Mutant of AutoUnderfunded: a frozen instance is not suspended, as in
\* handleNonRegularInstanceBilling.
AutoUnderfundedFrozen(seen, ok, usage, balance) ==
    /\ AutoBilled
    /\ ~Affordable(usage, balance)
    /\ vm' = IF seen # "SUSPENDED" /\ ~data.freeze THEN AfterSuspend(ok) ELSE vm
    /\ PostState(seen)
    /\ UNCHANGED <<now, igStatus, deleted, autoRenew, funds, data, ledger,
                   skewed, clawed, changes>>

\* The sum exceeds the balance: suspend and return, publishing nothing.
AutoUnderfunded(seen, ok, usage, balance) ==
    /\ AutoBilled
    /\ ~Affordable(usage, balance)
    /\ vm' = IF seen # "SUSPENDED" THEN AfterSuspend(ok) ELSE vm
    /\ PostState(seen)
    /\ UNCHANGED <<now, igStatus, deleted, autoRenew, funds, data, ledger,
                   skewed, clawed, changes>>

\* A suspended instances group stops its instances, unless they are immune.
Held == igStatus = "SUS" /\ now >= data.immune

\* last_monitoring is overwritten with the present: the instance of a held
\* group while its VM is suspended, and every instance of a detached one.
Rebased(seen, renewal) ==
    /\ ~OnePayment
    /\ \/ Held /\ seen = "SUSPENDED" /\ Product \in renewal.keys
       \/ igStatus = "DETACHED"

\* Mutant of AfterPayment: suspended_manually is not looked at.
AfterPaymentAnyway(seen, ok, productBilled, resourceBilled, static) ==
    IF OnePayment \/ Held THEN vm
    ELSE IF seen = "SUSPENDED" THEN AfterResume(ok) ELSE vm

\* Mutant of AfterPayment: the VM is started only by the round that renews.
AfterPaymentOnRenewal(seen, ok, productBilled, resourceBilled, static) ==
    IF OnePayment \/ Held THEN vm
    ELSE IF productBilled /\ seen = "SUSPENDED" /\ ~data.manual
    THEN AfterResume(ok) ELSE vm

\* The VM after a paid round.
AfterPayment(seen, ok, productBilled, resourceBilled, static) ==
    IF OnePayment THEN vm
    ELSE IF Held THEN
        IF (productBilled \/ (resourceBilled /\ ~static)) /\ seen # "SUSPENDED"
        THEN AfterSuspend(ok) ELSE vm
    ELSE IF seen = "SUSPENDED" /\ ~data.manual THEN AfterResume(ok) ELSE vm

\* canceled_renew turns the next renewal into a deletion.
Canceled(productBilled, static) ==
    /\ ~OnePayment
    /\ \/ data.canceled = "yes" /\ (static => productBilled)
       \/ data.canceled # "absent" /\ igStatus = "SUS"

AutoPaid(seen, ok, usage, balance) ==
    LET billed(it)     == Bill(it, usage, TRUE)
        renewal        == Renewal(usage, TRUE)
        static         == Product \in renewal.keys
        productBilled  == \E it \in Addons \cup {Product} : billed(it) # << >>
        resourceBilled == \E it \in Resources : billed(it) # << >>
        rebased        == Rebased(seen, renewal)
    IN
    /\ AutoBilled
    /\ Affordable(usage, balance)
    /\ funds' = funds - Total(usage, TRUE)
    /\ Publish([it \in Items |-> billed(it)])
    /\ vm' = AfterPayment(seen, ok, productBilled, resourceBilled, static)
    /\ deleted' = Canceled(productBilled, static)
    /\ data' = IF rebased
               THEN [renewal EXCEPT !.keys = @ \cup {Product}, !.lm[Product] = now]
               ELSE renewal
    /\ PostState(seen)
    /\ skewed' = [it \in Items |->
                     \/ skewed[it]
                     \/ Dropped(it, usage, TRUE)
                     \/ it = Product /\ rebased /\ (~static \/ now > renewal.lm[it])]
    /\ clawed' = [it \in Items |->
                     \/ clawed[it]
                     \/ it = Product /\ rebased /\ now < renewal.lm[it]]
    /\ UNCHANGED <<now, igStatus, autoRenew, changes>>

-----------------------------------------------------------------------------
(* handleNonRegularInstanceBilling: the first round bills, the later ones  *)
(* only stop the VM once last_monitoring has passed and start it again     *)
(* when a renewal has moved it ahead.                                      *)

NonRegular == ~autoRenew /\ ~deleted

FirstPayment(seen, usage) ==
    /\ NonRegular
    /\ Product \notin data.keys
    /\ funds' = funds - Total(usage, FALSE)
    /\ Publish([it \in Items |-> Bill(it, usage, FALSE)])
    /\ data' = Renewal(usage, FALSE)
    /\ PostState(seen)
    /\ skewed' = [it \in Items |-> skewed[it] \/ Dropped(it, usage, FALSE)]
    /\ UNCHANGED <<now, vm, igStatus, deleted, autoRenew, clawed, changes>>

Overdue == now > data.lm[Product]

ExpiryCheck(seen, ok) ==
    /\ NonRegular
    /\ Product \in data.keys
    /\ vm' = IF Overdue
             THEN IF seen # "SUSPENDED" /\ ~data.freeze /\ now >= data.immune
                  THEN AfterSuspend(ok) ELSE vm
             ELSE IF seen = "SUSPENDED" /\ ~data.manual
                  THEN AfterResume(ok) ELSE vm
    /\ PostState(seen)
    /\ UNCHANGED <<now, igStatus, deleted, autoRenew, funds, data, ledger,
                   skewed, clawed, changes>>

\* Both handlers return at once for an instance with status DEL.
DeletedRound == deleted /\ UNCHANGED vars

Round ==
    \/ DeletedRound
    \/ \E seen \in Seen, ok \in BOOLEAN :
        \/ ExpiryCheck(seen, ok)
        \/ \E usage \in [Metered -> Usages] :
              \/ FirstPayment(seen, usage)
              \/ \E balance \in Balances :
                    \/ AutoUnderfunded(seen, ok, usage, balance)
                    \/ AutoPaid(seen, ok, usage, balance)

-----------------------------------------------------------------------------
(* Invoke.  Each action works on the instance's data and publishes it.     *)

Outside == changes < MaxChanges /\ changes' = changes + 1

\* handleManualRenewBilling: one more period of everything that has one.
\* A product or a resource without a last_monitoring is renewed from 0, an
\* addon without one is skipped.
ManuallyRenewed(it) ==
    /\ PeriodOf(it) # 0
    /\ it \in Addons => it \in data.keys

\* Mutant of RenewFrom: the renewal starts at the present.
RenewFromNow(it) == now

RenewFrom(it) == data.lm[it]

ManualRenew ==
    LET renewed == {it \in Items : ManuallyRenewed(it)} IN
    /\ Outside
    /\ ledger' = [it \in Items |->
          IF it \in renewed
          THEN Append(ledger[it], [start |-> RenewFrom(it),
                                   end   |-> RenewFrom(it) + PeriodOf(it),
                                   cost  |-> Price[it]])
          ELSE ledger[it]]
    /\ data' = [data EXCEPT
          !.keys = @ \cup renewed,
          !.lm   = [it \in Items |->
             IF it \in renewed THEN RenewFrom(it) + PeriodOf(it) ELSE data.lm[it]]]
    /\ funds' = funds - MapThenSumSet(LAMBDA it : Price[it], renewed)
    /\ skewed' = [it \in Items |->
          \/ skewed[it]
          \/ it \in renewed \ data.keys /\ Product \notin data.keys]
    /\ UNCHANGED <<now, vm, posted, igStatus, deleted, autoRenew, clawed>>

\* FreeRenew and CancelRenew refuse dynamic plans and unbilled products and
\* move every last_monitoring that is there.
Movable(it) ==
    /\ it \in data.keys
    /\ it \in Resources => Period[it] # 0

FreeRenew ==
    LET lm == [it \in Items |->
                 IF Movable(it) THEN data.lm[it] + PeriodOf(it) ELSE data.lm[it]]
    IN
    /\ Outside
    /\ PlanKind = "STATIC" /\ Product \in data.keys
    /\ data' = [data EXCEPT !.lm = lm]
    /\ skewed' = [it \in Items |-> skewed[it] \/ lm[it] > data.lm[it]]
    /\ UNCHANGED <<now, vm, posted, igStatus, deleted, autoRenew, funds,
                   ledger, clawed>>

\* Products and resources never go below the creation of the instance;
\* addons may.
CancelRenew ==
    LET back(it) == data.lm[it] - PeriodOf(it)
        lm == [it \in Items |->
                 IF ~Movable(it) THEN data.lm[it]
                 ELSE IF it \in Addons \/ back(it) >= InstCreated THEN back(it)
                 ELSE InstCreated]
    IN
    /\ Outside
    /\ PlanKind = "STATIC" /\ Product \in data.keys
    /\ data' = [data EXCEPT !.lm = lm]
    /\ clawed' = [it \in Items |-> clawed[it] \/ lm[it] < data.lm[it]]
    /\ UNCHANGED <<now, vm, posted, igStatus, deleted, autoRenew, funds,
                   ledger, skewed>>

\* suspend, resume and poweroff: refused while the instance is frozen; the
\* data is written only when OpenNebula accepted the call.
Controlled(to) ==
    /\ Outside
    /\ ~data.freeze
    /\ vm' = to /\ posted' = to
    /\ UNCHANGED <<now, igStatus, deleted, autoRenew, funds, ledger, skewed,
                   clawed>>

Suspend ==
    /\ vm = "RUNNING"
    /\ data' = [data EXCEPT !.manual = TRUE]
    /\ Controlled("SUSPENDED")

\* With a "date", the instance is immune to suspension until then.
Resume ==
    /\ vm # "RUNNING"
    /\ \E date \in {data.immune} \cup now .. MaxTime :
          data' = [data EXCEPT !.manual = FALSE, !.immune = date]
    /\ Controlled("RUNNING")

Poweroff ==
    /\ vm = "RUNNING"
    /\ UNCHANGED data
    /\ Controlled("POWEROFF")

\* freeze is refused while frozen, unfreeze never is.
Freeze ==
    /\ Outside
    /\ \E f \in BOOLEAN :
          /\ f => ~data.freeze
          /\ data' = [data EXCEPT !.freeze = f]
    /\ posted' = vm
    /\ UNCHANGED <<now, vm, igStatus, deleted, autoRenew, funds, ledger,
                   skewed, clawed>>

Invoke ==
    \/ ManualRenew \/ FreeRenew \/ CancelRenew
    \/ Suspend \/ Resume \/ Poweroff \/ Freeze

-----------------------------------------------------------------------------
(* The surroundings: time, and what the core changes between two rounds.   *)

Tick ==
    /\ now < MaxTime
    /\ now' = now + 1
    /\ UNCHANGED <<vm, posted, igStatus, deleted, autoRenew, funds, data,
                   ledger, skewed, clawed, changes>>

TopUp ==
    /\ Outside
    /\ funds < MaxFunds /\ funds' = MaxFunds
    /\ UNCHANGED <<now, vm, posted, igStatus, deleted, autoRenew, data,
                   ledger, skewed, clawed>>

SetGroupStatus ==
    /\ Outside
    /\ igStatus' \in {"ACTIVE", "SUS", "DETACHED"} \ {igStatus}
    /\ UNCHANGED <<now, vm, posted, deleted, autoRenew, funds, data,
                   ledger, skewed, clawed>>

SetAutoRenew ==
    /\ Outside
    /\ autoRenew' = ~autoRenew
    /\ UNCHANGED <<now, vm, posted, igStatus, deleted, funds, data,
                   ledger, skewed, clawed>>

SetCanceled ==
    /\ Outside
    /\ \E c \in {"no", "yes"} \ {data.canceled} :
          data' = [data EXCEPT !.canceled = c]
    /\ UNCHANGED <<now, vm, posted, igStatus, deleted, autoRenew, funds,
                   ledger, skewed, clawed>>

Delete ==
    /\ Outside
    /\ ~deleted /\ deleted' = TRUE
    /\ UNCHANGED <<now, vm, posted, igStatus, autoRenew, funds, data, ledger,
                   skewed, clawed>>

Core == TopUp \/ SetGroupStatus \/ SetAutoRenew \/ SetCanceled \/ Delete

Next == Round \/ Invoke \/ Core \/ Tick

Spec == Init /\ [][Next]_vars

-----------------------------------------------------------------------------
(* Safety.                                                                 *)

Prepaid(it) == Kind[it] = "PREPAID" /\ PeriodOf(it) # 0

\* The handlers of these items leave last_monitoring at the end of what
\* they billed; those of postpaid products and addons do not.
Tracked(it) == PeriodOf(it) # 0 /\ (Kind[it] = "PREPAID" \/ it \in Resources)

\* Each record ends before the later ones start.
Ordered(recs) ==
    \A i, j \in 1 .. Len(recs) : i < j => recs[i].end <= recs[j].start

\* The records cover from .. to, with no gap and no overlap.
Covers(recs, from, to) ==
    /\ recs # << >>
    /\ recs[1].start = from
    /\ recs[Len(recs)].end = to
    /\ \A i \in 1 .. Len(recs) - 1 : recs[i].end = recs[i + 1].start

\* No instant of a prepaid item or a metered resource is billed twice,
\* whatever the order of rounds, renewals, suspensions and top-ups, as long
\* as nothing moved its last_monitoring back (cancel_renew, or a round of a
\* held or detached group, which overwrite it).
NoDoubleCharge ==
    \A it \in Items : Tracked(it) /\ ~clawed[it] => Ordered(ledger[it])

\* The records of a prepaid item cover the time from the creation of the VM
\* to its last_monitoring without a gap and without an overlap, so the data
\* map and the published records tell the same story, unless a free renewal
\* or a round without records moved it, or the item was renewed by hand
\* before the instance had been billed at all.
PaidExactly ==
    \A it \in Items : Prepaid(it) /\ ~clawed[it] /\ ~skewed[it] =>
        IF it \in data.keys THEN Covers(ledger[it], Created, data.lm[it])
        ELSE ledger[it] = << >>

\* What is paid once, the product or an addon of a plan with period 0, is
\* billed by one record, however many rounds of whichever kind follow.
PaidOnce ==
    \A it \in Items \ Resources : PeriodOf(it) = 0 => Len(ledger[it]) <= 1

\* A period of a postpaid addon is billed by one record: its payment is
\* periodic (billing.go, handleAddonBilling).
PostpaidAddonOnce ==
    \A it \in Addons : Kind[it] = "POSTPAID" /\ PeriodOf(it) # 0 /\ ~clawed[it] =>
        Ordered(ledger[it])

\* An instance an administrator suspended stays suspended until resume is
\* invoked: no round of either kind starts it, whatever is paid meanwhile.
ManualHold == data.manual => vm = "SUSPENDED"

\* A round of an auto-renewed instance never takes more than there is: the
\* items of the plan are paid together or not at all.
NoOverdraft == [][Round /\ autoRenew => funds' = funds \/ funds' >= 0]_vars

\* A round that publishes records of a prepaid item of an active group
\* leaves it paid beyond the present: the next round bills nothing more.
PaidAhead ==
    [][Round /\ igStatus = "ACTIVE" =>
        \A it \in Items : Prepaid(it) /\ ledger'[it] # ledger[it] =>
            data'.lm[it] > now]_vars

-----------------------------------------------------------------------------
(* The promise to the owner of the account.                                *)

\* Items a round sells ahead, and those of them whose last_monitoring is what
\* was paid.
Sellable == {it \in Walked : Prepaid(it)}
Honest   == {it \in Sellable : ~clawed[it] /\ ~skewed[it]}

Account == INSTANCE PrepaidAccount WITH
    Length  <- [it \in Sellable |-> PeriodOf(it)],
    Start   <- Created,
    time    <- now,
    account <- [it \in Honest |->
                   [until |-> Last(it), bought |-> Len(ledger[it])]]

\* The billing of prepaid items, with its data map, its balances, its two
\* handlers and all actions that touch them, implements PrepaidAccount: one
\* record for every period last_monitoring moves, all items that are due
\* billed in the same round or none, and nothing billed before it is due
\* but by manual_renew.
SellsTime == Account!Spec

-----------------------------------------------------------------------------
(* Liveness.  The core calls Monitoring periodically, and OpenNebula does  *)
(* not fail for ever: rounds in which the calls succeed keep happening.    *)

GoodRound ==
    \/ ExpiryCheck(vm, TRUE)
    \/ \E usage \in [Metered -> Usages] :
          \/ AutoUnderfunded(vm, TRUE, usage, funds)
          \/ AutoPaid(vm, TRUE, usage, funds)
          \/ FirstPayment(vm, usage)

FairSpec == Spec /\ WF_vars(Tick) /\ WF_vars(GoodRound)

MustPay == \E it \in Walked : Prepaid(it) /\ Kept(it) /\ Last(it) <= now /\ Price[it] > 0
CanPay  == \A usage \in [Metered -> Usages] : Total(usage, TRUE) <= funds

\* An auto-renewed instance whose account stays empty while a period is due
\* does not keep running: whatever suspensions fail or are forbidden and
\* whoever resumes it, it ends up stopped.
StopsWhenUnpaid ==
    <>[](autoRenew /\ ~deleted /\ funds <= 0 /\ MustPay) => <>[](vm # "RUNNING")

\* An instance of a group that is not suspended, that billing alone stopped,
\* runs again once it is funded (auto_renew) or renewed (otherwise) for good.
RunsWhenPaid ==
    <>[]/\ ~deleted /\ ~data.manual /\ vm # "POWEROFF" /\ igStatus # "SUS"
        /\ IF autoRenew THEN CanPay
           ELSE Product \in data.keys /\ ~Overdue
    => <>[](vm = "RUNNING")

=============================================================================
