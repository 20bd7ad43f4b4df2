-------------------------- MODULE MCVMProvisioning --------------------------
(* VMProvisioning for TLC: nothing tells one request from another, and no   *)
(* call fails in a run with a crash.                                        *)
EXTENDS VMProvisioning, TLC

Symmetry == Permutations(Requests)

FailureOrCrash == failures + crashes <= 1

=============================================================================
