\* Two renames of one profile, a removal of another, one failing store operation.
SPECIFICATION Spec
CONSTANTS
  alice = alice
  bob = bob
  carol = carol
  dave = dave
  r1 = r1
  r2 = r2
  d1 = d1
  Names = {alice, bob, carol, dave}
  Existing = {alice, bob}
  Renamers = {r1, r2}
  From <- BothFromAlice
  To <- DifferentTargets
  Removers = {d1}
  Target <- RemoveBob
  MaxFaults = 1
  Missing = Missing
INVARIANTS NothingLost OneHome NoOrphans
CHECK_DEADLOCK FALSE
