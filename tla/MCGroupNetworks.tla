--------------------------- MODULE MCGroupNetworks --------------------------
(***************************************************************************)
(* GroupNetworks for TLC, at two sizes: the one group of the configuration *)
(* file, which needs addresses, may be taken down, and must get what it    *)
(* needs; and two groups prepared concurrently, of which each needs a      *)
(* private network.                                                        *)
(***************************************************************************)
EXTENDS GroupNetworks

Two == INSTANCE GroupNetworks
           WITH Groups <- {"g1", "g2"}, Vlans <- {7, 8}, MaxNeed <- 0, MaxDowns <- 0,
                MaxNets <- 2, MaxFailures <- 1, MaxCrashes <- 1

Alone == DOMAIN login = Groups

SpecEither ==
    /\ Init \/ Two!Init
    /\ [][(Alone /\ Next) \/ (~Alone /\ Two!Next)]_vars
    /\ \A g \in Groups : WF_vars(Alone /\ Begin(g)) /\ WF_vars(Alone /\ PrepareService(g))

\* A group gets the addresses it needs, as GroupNetworks states it of the first
\* size.
GroupGetsAddresses == Alone => GetsAddresses

=============================================================================
