--------------------------- MODULE MCOrphanGroup ----------------------------
(* What a group of two may need, for TLC: private addresses only, a public  *)
(* address of the first instance, and one of each.                          *)
EXTENDS OrphanGroup

Need(pub1, pub2, priv) == [i \in Instances |->
    [public |-> IF i = 1 THEN pub1 ELSE pub2, private |-> priv]]

SmallNeeds == {Need(0, 0, 1), Need(1, 0, 0), Need(1, 1, 1)}

=============================================================================
