------------------------------ MODULE MCClient ------------------------------
(* Model of Client for TLC. *)
EXTENDS Client, TLC
=============================================================================
