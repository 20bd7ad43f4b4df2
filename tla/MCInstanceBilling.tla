------------------------- MODULE MCInstanceBilling --------------------------
(***************************************************************************)
(* Billing plans for TLC: a product, one resource and one addon, with      *)
(* periods short enough for several of them to pass within the bound.      *)
(***************************************************************************)
EXTENDS InstanceBilling, TLC

CONSTANTS prod, ram, backup

MCResources == {ram}
MCAddons    == {backup}
NoItems     == {}

AllPrepaid  == [it \in Items |-> "PREPAID"]
AllPostpaid == [it \in Items |-> "POSTPAID"]
RamPostpaid == [it \in Items |-> IF it = ram THEN "POSTPAID" ELSE "PREPAID"]

\* The product is paid every 2 instants, the resource every 3.
Periods     == (prod :> 2) @@ [r \in Resources |-> 3]
MixedPeriods == (prod :> 0) @@ [r \in Resources |-> 2]

UnitPrice   == [it \in Items |-> 1]

WhenRunning == [r \in Resources |-> {"RUNNING"}]
NotExcept   == [r \in Resources |-> FALSE]

=============================================================================
