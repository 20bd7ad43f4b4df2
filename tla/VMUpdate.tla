------------------------------ MODULE VMUpdate ------------------------------
(***************************************************************************)
(* Instances whose resources were changed: CheckInstancesGroup finds that  *)
(* the VM is not as the instance says, CheckInstancesGroupResponseProcess  *)
(* changes the VM call by call, at most one address a round, and a         *)
(* goroutine of the same round, handleUpgradeBilling, bills the difference *)
(* it sees for what is left of the paid period.  The rounds that follow    *)
(* bill what the VM has.                                                   *)
(*                                                                         *)
(* Nothing orders the goroutine and the changes it bills, and any call may *)
(* fail.  Time is counted in billing periods; prices are left out.         *)
(***************************************************************************)
EXTENDS Integers, Sequences, SequencesExt, FiniteSets

CONSTANTS
    Instances,    \* the instances 1 .. n of the group, in its order
    Options,      \* instance -> what its resources may be set to
    Goroutines,   \* bound: upgrade billings under way
    None,         \* what a variable is when it is not in use
    MaxTime,      \* bound: periods
    MaxChanges,   \* bound: changes of an instance's resources
    MaxStarts,    \* bound: VMs started again by their users
    MaxFaults     \* bound: failing calls and crashes of the process

Resources == [ips : Nat, private : Nat, drive : Nat, size : Nat]

ASSUME UpdateAssumption ==
    /\ IsFiniteSet(Instances) /\ Instances = 1 .. Cardinality(Instances)
    /\ Options \in [Instances -> SUBSET Resources]
    /\ IsFiniteSet(Goroutines) /\ None \notin Goroutines
    /\ MaxTime \in Nat \ {0} /\ {MaxChanges, MaxStarts, MaxFaults} \subseteq Nat

VARIABLES
    \* OpenNebula
    vm,         \* instance -> the resources of its VM; one NIC is public at least
    power,      \* instance -> "running", "stopping" or "off"
    spare,      \* addresses of the group's public network that no VM has
    \* the core
    want,       \* instance -> its resources; "size" stands for cpu and ram
    lm,         \* instance -> the period it is paid up to (last_monitoring)
    now,        \* the period
    ban,        \* PRIVATE_VN_BAN: "unset", "off" or "on"
    \* the round
    pc,
    req,        \* want as the request has it
    todo,       \* ToBeUpdated: instances the loop has not finished
    seen,       \* resources and state read of the VM of the first of them
    mine,       \* the goroutine of this round, or None
    \* the goroutines
    gor,        \* what each has to bill, its request's data, and its records
    \* history
    charged,    \* instance -> resource -> period -> units billed
    past,       \* instance -> resource -> period -> units at the period's end
    due,        \* instance -> resources whose change is billed, not made yet
    excused,    \* instances whose change and its bill did not go together
    faults, changes, starts

one    == <<vm, power, spare>>
core   == <<want, lm, now, ban>>
round  == <<pc, req, todo, seen, mine>>
ledger == <<charged, past, due, excused>>
bounds == <<faults, changes, starts>>
vars   == <<one, core, round, gor, ledger, bounds>>

Billed  == {"ips", "drive"}
Periods == 1 .. MaxTime
Zero    == [res \in Billed |-> 0]
Records == [inst : Instances, res : Billed, units : Int, lm : Nat, at : Periods]

NoWork == [todo |-> << >>, want |-> want, lm |-> lm, at |-> 0, diff |-> Zero,
           read |-> FALSE, records |-> {}]

TypeOK ==
    /\ vm \in [Instances -> Resources] /\ \A i \in Instances : vm[i].ips > 0
    /\ power \in [Instances -> {"running", "stopping", "off"}] /\ spare \in Nat
    /\ want \in [Instances -> Resources]
    /\ lm \in [Instances -> 0 .. MaxTime] /\ now \in Periods /\ ban \in {"unset", "off", "on"}
    /\ pc \in {"idle", "check", "read", "free", "reserve", "attach", "detach", "private",
               "power", "wait", "resize", "drive", "renew"}
    /\ todo \in Seq(Instances) /\ mine \in Goroutines \cup {None}
    /\ \A g \in Goroutines : gor[g].todo \in Seq(Instances) /\ gor[g].records \subseteq Records
    /\ due \in [Instances -> SUBSET Billed]
    /\ \A i \in Instances, res \in Billed :
          /\ charged[i][res] \in [Periods -> Int] /\ past[i][res] \in [Periods -> Nat]

Init ==
    /\ vm \in [Instances -> UNION {Options[i] : i \in Instances}]
    /\ \A i \in Instances : vm[i] \in Options[i] /\ vm[i].ips > 0
    /\ power = [i \in Instances |-> "running"] /\ spare = 0
    /\ want = vm /\ lm = [i \in Instances |-> 0] /\ now = 1
    /\ ban \in {"unset", "off", "on"}
    /\ pc = "idle" /\ req = None /\ todo = << >>
    /\ seen = None /\ mine = None
    /\ gor = [g \in Goroutines |-> NoWork]
    /\ charged = [i \in Instances |-> [res \in Billed |-> [k \in Periods |-> 0]]]
    /\ past = charged
    /\ due = [i \in Instances |-> {}] /\ excused = {}
    /\ faults = 0 /\ changes = 0 /\ starts = 0

-----------------------------------------------------------------------------
(* Helpers.                                                                *)

Works == UNCHANGED bounds
Fail(n) == /\ faults + n <= MaxFaults /\ faults' = faults + n
           /\ UNCHANGED <<changes, starts>>

Go(step) == pc' = step /\ UNCHANGED <<req, todo, seen, mine>>
Inst     == Head(todo)
Wanted   == req[Inst]

\* `continue`: on to the next instance, and to the billing of the round after
\* the last.
NextInstance ==
    /\ todo' = Tail(todo) /\ pc' = IF Len(todo) > 1 THEN "read" ELSE "renew"
    /\ seen' = None /\ UNCHANGED <<req, mine>>

\* The VM's resource changes by some units; an instance whose books do not
\* show just these as billed in this period is excused from then on.
Changed(res, units) ==
    /\ vm' = [vm EXCEPT ![Inst][res] = @ + units]
    /\ IF res \in Billed
       THEN /\ due' = [due EXCEPT ![Inst] = @ \ {res}]
            /\ excused' = IF res \notin due[Inst] THEN excused \cup {Inst} ELSE excused
       ELSE UNCHANGED <<due, excused>>
    /\ UNCHANGED <<power, charged, past>>

-----------------------------------------------------------------------------
(* CheckInstancesGroup, and the loop over ToBeUpdated.                     *)

Begin ==
    /\ pc = "idle" /\ pc' = "check"
    /\ req' = want
    /\ UNCHANGED <<one, core, todo, seen, mine, gor, ledger, bounds>>

\* The hash of an instance made from the VM differs from the instance's own.
Differing == {i \in Instances : vm[i] # req[i]}

\* The sequence of some instances in the order of the group.
InOrder(some) ==
    {s \in [1 .. Cardinality(some) -> some] : \A a, b \in DOMAIN s : a < b => s[a] < s[b]}

\* An instance whose VM cannot be read is left for another round.  If any are
\* to be updated a goroutine is started that bills them.
Check ==
    /\ pc = "check"
    /\ \E some \in SUBSET Differing :
          /\ Fail(Cardinality(Differing \ some))
          /\ todo' \in InOrder(some)
          /\ IF some = {} THEN pc' = "renew" /\ mine' = None /\ UNCHANGED gor
             ELSE /\ pc' = "read"
                  /\ \E g \in Goroutines :
                        /\ gor[g].todo = << >> /\ gor[g].records = {}
                        /\ mine' = g
                        /\ gor' = [gor EXCEPT ![g] =
                              [NoWork EXCEPT !.todo = todo', !.want = req, !.lm = lm]]
    /\ UNCHANGED <<one, core, req, seen, ledger>>

Read ==
    /\ pc = "read"
    /\ \/ Fail(1) /\ NextInstance
       \/ /\ Works /\ pc' = "free"
          /\ seen' = [vm |-> vm[Inst], power |-> power[Inst]]
          /\ UNCHANGED <<req, todo, mine>>
    /\ UNCHANGED <<one, core, gor, ledger>>

\* What is done about addresses, if anything; private ones have their turn
\* when there are public ones enough.
AddressStep ==
    CASE seen.vm.ips < Wanted.ips         -> "reserve"
      [] seen.vm.ips > Wanted.ips         -> "detach"
      [] seen.vm.private # Wanted.private -> "private"
      [] OTHER                            -> "power"

\* Mutant of FreeUnused: nothing is freed.
FreeUnused0 == spare

FreeUnused == 0

\* FreeAR of every address no VM has; its errors are logged.
FreeARs ==
    /\ pc = "free"
    /\ \/ Fail(1) /\ NextInstance /\ UNCHANGED spare
       \/ Fail(1) /\ spare > 0 /\ Go(AddressStep) /\ UNCHANGED spare
       \/ Works /\ Go(AddressStep) /\ spare' = FreeUnused
    /\ UNCHANGED <<vm, power, core, gor, ledger>>

\* ReservePublicIP; the NIC is attached whether it fails or not.
Reserve ==
    /\ pc = "reserve" /\ Go("attach")
    /\ \/ Works /\ spare' = spare + 1
       \/ Fail(1) /\ UNCHANGED spare
    /\ UNCHANGED <<vm, power, core, gor, ledger>>

Attach ==
    /\ pc = "attach" /\ Go("power")
    /\ \/ /\ Works /\ spare > 0 /\ spare' = spare - 1 /\ Changed("ips", 1)
       \/ Works /\ spare = 0 /\ UNCHANGED <<one, ledger>>
       \/ Fail(1) /\ UNCHANGED <<one, ledger>>
    /\ UNCHANGED <<core, gor>>

\* Mutant of Detachable: every public NIC.
DetachableAll == seen.vm.ips > 0

\* The loop over the NICs ends before the first, which is a public one.
Detachable == seen.vm.ips > 1

Detach ==
    /\ pc = "detach" /\ Go("power")
    /\ \/ Works /\ Detachable /\ spare' = spare + 1 /\ Changed("ips", -1)
       \/ Works /\ ~Detachable /\ UNCHANGED <<one, ledger>>
       \/ Detachable /\ Fail(1) /\ UNCHANGED <<one, ledger>>
    /\ UNCHANGED <<core, gor>>

\* Mutant of PrivateNIC: the loop ends if there are to be no private networks.
PrivateNICEnds ==
    /\ pc = "private" /\ ban # "off" /\ Works
    /\ pc' = "renew" /\ todo' = << >> /\ seen' = None /\ UNCHANGED <<req, mine>>
    /\ UNCHANGED <<one, core, gor, ledger>>

\* Without PRIVATE_VN_BAN a `break` leaves the loop over the instances.
PrivateNIC ==
    /\ pc = "private"
    /\ \/ /\ ban = "unset" /\ Works /\ UNCHANGED <<one, ledger>>
          /\ pc' = "renew" /\ todo' = << >> /\ seen' = None /\ UNCHANGED <<req, mine>>
       \/ ban = "on" /\ Works /\ Go("power") /\ UNCHANGED <<one, ledger>>
       \/ /\ ban = "off" /\ Works /\ Go("power") /\ UNCHANGED spare
          /\ Changed("private", IF seen.vm.private < Wanted.private THEN 1 ELSE -1)
       \/ ban = "off" /\ Fail(1) /\ Go("power") /\ UNCHANGED <<one, ledger>>
    /\ UNCHANGED <<core, gor>>

\* A VM that was running when it was read is powered off for a resize.
Poweroff ==
    /\ pc = "power" /\ UNCHANGED <<vm, spare, core, gor, ledger>>
    /\ \/ seen.vm.size = Wanted.size /\ Works /\ Go("drive") /\ UNCHANGED power
       \/ /\ seen.vm.size # Wanted.size /\ seen.power # "running"
          /\ Works /\ Go("resize") /\ UNCHANGED power
       \/ /\ seen.vm.size # Wanted.size /\ seen.power = "running"
          /\ \/ /\ power[Inst] = "running" /\ Works /\ Go("wait")
                /\ power' = [power EXCEPT ![Inst] = "stopping"]
             \/ Fail(1) /\ NextInstance /\ UNCHANGED power
             \/ power[Inst] # "running" /\ Works /\ NextInstance /\ UNCHANGED power

\* The loop has no other way out.
Wait ==
    /\ pc = "wait" /\ power[Inst] = "off" /\ Go("resize")
    /\ UNCHANGED <<one, core, gor, ledger, bounds>>

\* OpenNebula resizes a VM that is off.
Resize ==
    /\ pc = "resize" /\ Go("drive") /\ UNCHANGED <<power, spare, core, gor, ledger>>
    /\ \/ /\ power[Inst] = "off" /\ Works
          /\ vm' = [vm EXCEPT ![Inst].size = Wanted.size]
       \/ power[Inst] # "off" /\ Works /\ UNCHANGED vm
       \/ Fail(1) /\ UNCHANGED vm

\* OpenNebula only ever makes a drive larger.
ResizeDrive ==
    LET more == Wanted.drive - seen.vm.drive IN
    /\ pc = "drive" /\ NextInstance /\ UNCHANGED <<spare, core, gor>>
    /\ \/ more > 0 /\ Works /\ Changed("drive", more)
       \/ more <= 0 /\ Works /\ UNCHANGED <<vm, power, ledger>>
       \/ more > 0 /\ Fail(1) /\ UNCHANGED <<vm, power, ledger>>

\* A difference was read and has no record yet.
Unpriced(i) ==
    \E g \in Goroutines :
        gor[g].todo # << >> /\ Head(gor[g].todo) = i /\ gor[g].diff # Zero

Pending(i) ==
    Unpriced(i) \/ \E g \in Goroutines : \E rec \in gor[g].records : rec.inst = i

\* The billing of the round: if the account has the money, the instances are billed
\* what their VMs have for the periods since lm.  The data of the request is the data
\* the goroutine reads.
Renew ==
    /\ pc = "renew" /\ pc' = "idle" /\ mine' = None /\ req' = None
    /\ \E to \in {lm, [i \in Instances |-> now]} :
          /\ lm' = to
          /\ charged' = [i \in Instances |-> [res \in Billed |-> [k \in Periods |->
                charged[i][res][k] +
                    IF i \notin excused /\ k > lm[i] /\ k <= to[i]
                    THEN vm[i][res] ELSE 0]]]
          /\ gor' = IF mine = None THEN gor ELSE [gor EXCEPT ![mine].lm = to]
    /\ excused' = excused \cup {i \in Instances : due[i] # {} \/ Unpriced(i)}
    /\ due' = [i \in Instances |-> {}]
    /\ UNCHANGED <<one, want, now, ban, todo, seen, past, bounds>>

-----------------------------------------------------------------------------
(* handleUpgradeBilling.                                                   *)

Sign(n) == IF n > 0 THEN 1 ELSE IF n < 0 THEN -1 ELSE 0

\* GetVmResourcesDiff.  Of the addresses one is billed, as one is attached in a
\* round; or one is given back.
Diff(i, new) == [res \in Billed |-> IF res = "ips" THEN Sign(new.ips - vm[i].ips)
                                    ELSE new.drive - vm[i].drive]

\* The time is read once, when the goroutine starts.
ReadDiff(g) ==
    LET i == Head(gor[g].todo) IN
    /\ gor[g].todo # << >> /\ ~gor[g].read
    /\ \E d \in {Diff(i, gor[g].want[i]), Zero} :
          /\ Fail(IF d = Diff(i, gor[g].want[i]) THEN 0 ELSE 1)
          /\ gor' = [gor EXCEPT ![g].diff = d, ![g].read = TRUE,
                                ![g].at = IF @ = 0 THEN now ELSE @]
          /\ LET more == {res \in Billed : d[res] # 0} IN
             /\ due' = [due EXCEPT ![i] = @ \cup more]
             /\ excused' = IF more # {} /\ (g # mine \/ gor[g].at \notin {0, now})
                           THEN excused \cup {i} ELSE excused
    /\ UNCHANGED <<one, core, round, charged, past>>

\* The records say how much of the paid time is left, by the lm in the data.
Price(g) ==
    LET i == Head(gor[g].todo) IN
    /\ gor[g].todo # << >> /\ gor[g].read
    /\ gor' = [gor EXCEPT
          ![g].records = @ \cup
             {[inst |-> i, res |-> res, units |-> gor[g].diff[res], lm |-> gor[g].lm[i],
               at |-> gor[g].at] : res \in {b \in Billed : gor[g].diff[b] # 0}},
          ![g].todo = Tail(@), ![g].read = FALSE, ![g].diff = Zero]
    /\ UNCHANGED <<one, core, round, ledger, bounds>>

\* Mutant of Units: what is over is not given back.
UnitsAhead(rec, k) == IF k >= rec.at /\ k <= rec.lm THEN rec.units ELSE 0

\* A record of an instance paid ahead is for the time from now to lm; that of
\* one in arrears counts backwards, for the round that bills them will bill
\* what the VM has by then.
Units(rec, k) ==
    IF k >= rec.at /\ k <= rec.lm THEN rec.units
    ELSE IF k > rec.lm /\ k < rec.at THEN -rec.units ELSE 0

PublishRecords(g) ==
    LET sum(i, res, k) ==
            MapThenSumSet(LAMBDA rec : Units(rec, k),
                          {rec \in gor[g].records : rec.inst = i /\ rec.res = res})
    IN
    /\ gor[g].todo = << >> /\ gor[g].records # {}
    /\ charged' = [i \in Instances |-> [res \in Billed |-> [k \in Periods |->
          IF i \in excused THEN charged[i][res][k]
          ELSE charged[i][res][k] + sum(i, res, k)]]]
    /\ gor' = [gor EXCEPT ![g] = NoWork]
    /\ UNCHANGED <<one, core, round, past, due, excused, bounds>>

-----------------------------------------------------------------------------
(* The core, the users, OpenNebula, the clock, and crashes.                *)

SetWant ==
    /\ changes < MaxChanges /\ changes' = changes + 1
    /\ \E i \in Instances : \E w \in Options[i] : want' = [want EXCEPT ![i] = w]
    /\ UNCHANGED <<one, lm, now, ban, round, gor, ledger, faults, starts>>

\* The driver does not resume a VM it has resized; its user may.
StartVM ==
    /\ starts < MaxStarts /\ starts' = starts + 1
    /\ \E i \in Instances : power[i] = "off" /\ power' = [power EXCEPT ![i] = "running"]
    /\ UNCHANGED <<vm, spare, core, round, gor, ledger, faults, changes>>

PoweredOff ==
    /\ \E i \in Instances : power[i] = "stopping" /\ power' = [power EXCEPT ![i] = "off"]
    /\ UNCHANGED <<vm, spare, core, round, gor, ledger, bounds>>

Tick ==
    /\ now < MaxTime /\ now' = now + 1
    /\ past' = [i \in Instances |-> [res \in Billed |->
                  [past[i][res] EXCEPT ![now] = vm[i][res]]]]
    /\ excused' = excused \cup {i \in Instances : due[i] # {}}
    /\ UNCHANGED <<one, want, lm, ban, round, gor, charged, due, bounds>>

\* Bills under way are lost with the round.
Crash ==
    /\ Fail(1)
    /\ pc' = "idle" /\ todo' = << >> /\ mine' = None
    /\ req' = None /\ seen' = None
    /\ gor' = [g \in Goroutines |-> NoWork]
    /\ excused' = excused \cup {i \in Instances :
          due[i] # {} \/ Pending(i)}
    /\ due' = [i \in Instances |-> {}]
    /\ UNCHANGED <<one, core, charged, past>>

Update ==
    \/ Check \/ Read \/ FreeARs \/ Reserve \/ Attach \/ Detach \/ PrivateNIC
    \/ Poweroff \/ Wait \/ Resize \/ ResizeDrive \/ Renew

Bill(g) == ReadDiff(g) \/ Price(g) \/ PublishRecords(g)

Next ==
    \/ Begin \/ Update \/ \E g \in Goroutines : Bill(g)
    \/ SetWant \/ StartVM \/ PoweredOff \/ Tick \/ Crash

Spec == Init /\ [][Next]_vars

\* The core repeats its requests, handlers and goroutines run on, and a VM that
\* is powered off stops.
FairSpec ==
    /\ Spec /\ WF_vars(Begin) /\ WF_vars(Update) /\ WF_vars(PoweredOff)
    /\ \A g \in Goroutines : WF_vars(Bill(g))

-----------------------------------------------------------------------------
(* Properties.                                                             *)

\* What the VM had at the end of period k, or has, if that is not over.
Level(i, res, k) == IF k < now THEN past[i][res][k] ELSE vm[i][res]

\* The books of an instance are right to the unit, through any sequence of
\* upgrades, downgrades, renewals and periods in arrears: every period it has
\* paid is paid for what the VM had when it ended, or has now; one it owes is
\* set right by the difference to what the VM has now, which the next round
\* will bill.  Excused are instances whose change did not come right after its
\* bill: the goroutine came late, or the change failed.
Settled ==
    \A i \in Instances \ excused : ~Pending(i) /\ due[i] = {} =>
        \A res \in Billed, k \in Periods :
            charged[i][res][k] =
                Level(i, res, k) - (IF k > lm[i] THEN vm[i][res] ELSE 0)

\* Addresses reserved for NICs that could not be attached, or left by detached
\* ones, do not pile up: but for what a failing FreeAR leaves there is never
\* more than one, however many instances and rounds there are.
FewSpare == spare <= 1 + faults

\* The first NIC is public and never detached, and a drive does not shrink.
Served(i) ==
    /\ vm[i].size = want[i].size
    /\ vm[i].ips = want[i].ips \/ (want[i].ips = 0 /\ vm[i].ips = 1)
    /\ vm[i].drive >= want[i].drive
    /\ vm[i].private = want[i].private \/ ban # "off" \/ want[i].ips = 0

\* Without PRIVATE_VN_BAN the loop ends at an instance whose private addresses
\* differ, if its public ones do not.
Cut(i) ==
    ban = "unset" /\ \E j \in 1 .. i :
        vm[j].ips = want[j].ips /\ vm[j].private # want[j].private

\* The loop waits for a VM to be off that its user has started again.
Hung == pc = "wait" /\ power[Inst] = "running"

\* Every VM becomes what its instance says, address by address and through
\* failing calls and crashes, in the middle of a resize or not; unless the loop
\* never comes to it, or waits for ever.
Converges == \A i \in Instances : <>[](Served(i) \/ Cut(i) \/ Hung)

=============================================================================
