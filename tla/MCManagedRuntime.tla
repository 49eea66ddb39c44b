-------------------------- MODULE MCManagedRuntime --------------------------
(* A Node owner, its runtime, and one traced session of it. *)
EXTENDS ManagedRuntime, TLC

CONSTANTS p1, s1, c1, main, k1, k2
=============================================================================
