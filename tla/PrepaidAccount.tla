--------------------------- MODULE PrepaidAccount ---------------------------
(***************************************************************************)
(* What the driver promises the owner of an account: time of an item is    *)
(* sold in whole periods, each for one record, without a gap, and never    *)
(* further ahead than the period that runs; a round sells all that is due  *)
(* or nothing.  Only a renewal by hand buys ahead.                         *)
(*                                                                         *)
(* InstanceBilling implements it.  It has no OpenNebula, no balance and no *)
(* data map: when a round happens and whether it pays is left open.  When  *)
(* time is given away or taken back the account of an item is closed, and  *)
(* nothing is promised of it any more.                                     *)
(***************************************************************************)
EXTENDS Integers

CONSTANTS
    Length,   \* item -> length of its periods, not 0
    Start     \* when the items begin

VARIABLES
    time,
    account   \* item -> until when it is paid, and how many records were
              \* published for it; its domain are the accounts not closed

vars == <<time, account>>

Init ==
    /\ time = Start
    /\ account = [t \in DOMAIN Length |-> [until |-> Start, bought |-> 0]]

\* The periods of t that have been sold with this step, paid for and added.
Sold(t) == account'[t].bought - account[t].bought

Sells(t) == account'[t].until = account[t].until + Sold(t) * Length[t]

Due(t) == account[t].until <= time

Open == DOMAIN account

Closes == DOMAIN account' \subseteq Open /\ UNCHANGED time

Tick == time' = time + 1 /\ UNCHANGED account

\* A round brings every item that is due up to date, and only those.
Round ==
    /\ Closes
    /\ \A t \in DOMAIN account' :
          IF Due(t) THEN Sells(t) /\ account'[t].until \in time + 1 .. time + Length[t]
          ELSE account'[t] = account[t]

\* A renewal buys one period of some items, due or not.
Renew ==
    /\ Closes
    /\ \A t \in DOMAIN account' :
          account'[t] = account[t] \/ (Sells(t) /\ Sold(t) = 1)

Next == Tick \/ Round \/ Renew

Spec == Init /\ [][Next]_vars

=============================================================================
