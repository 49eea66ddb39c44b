---------------------------- MODULE MCDeviceStore ----------------------------
(* Model of DeviceStore for TLC. *)
EXTENDS DeviceStore, TLC

Symmetry == Permutations(Callers) \cup Permutations(Users)
=============================================================================
