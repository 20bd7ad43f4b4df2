----------------------------- MODULE MCVMUpdate -----------------------------
(* For TLC: the first instance changes its addresses, the second its drive  *)
(* and its size.                                                            *)
EXTENDS VMUpdate

R(ips, private, drive, size) ==
    [ips |-> ips, private |-> private, drive |-> drive, size |-> size]

TwoOptions == <<{R(1, 0, 1, 1), R(3, 0, 1, 1), R(1, 1, 1, 1), R(0, 0, 1, 1)},
                {R(1, 0, 1, 1), R(1, 0, 2, 2)}>>

=============================================================================
