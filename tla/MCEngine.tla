------------------------------ MODULE MCEngine ------------------------------
(* Model of Engine for TLC. *)
EXTENDS Engine, TLC

AllKinds == (Regular :> {"up", "failed", "data"}) @@ (Encrypted :> {"up", "down", "data"})
OnlyData == [t \in {Regular, Encrypted} |-> {"data"}]
=============================================================================
