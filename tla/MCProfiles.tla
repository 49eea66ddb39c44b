----------------------------- MODULE MCProfiles -----------------------------
(* Model of Profiles for TLC. *)
EXTENDS Profiles, TLC

CONSTANTS alice, bob, carol, dave, r1, r2, d1

\* alice is renamed twice, to different names or to the same one; bob is removed.
BothFromAlice == r1 :> alice @@ r2 :> alice
DifferentTargets == r1 :> carol @@ r2 :> dave
SameTarget == r1 :> carol @@ r2 :> carol
RemoveBob == d1 :> bob
=============================================================================
