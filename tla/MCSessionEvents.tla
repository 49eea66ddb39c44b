-------------------------- MODULE MCSessionEvents --------------------------
(* Model of SessionEvents for TLC. *)
EXTENDS SessionEvents, TLC

Symmetry == Permutations(Publishers) \cup Permutations(Subs)
=============================================================================
