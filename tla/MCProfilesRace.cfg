\* Two calls of the same rename, no failing store operation.
SPECIFICATION Spec
CONSTANTS
  alice = alice
  bob = bob
  carol = carol
  dave = dave
  r1 = r1
  r2 = r2
  d1 = d1
  Names = {alice, bob, carol, dave}
  Existing = {alice, bob}
  Renamers = {r1, r2}
  From <- BothFromAlice
  To <- SameTarget
  Removers = {}
  Target <- RemoveBob
  MaxFaults = 0
  Missing = Missing
INVARIANTS NothingLost
CHECK_DEADLOCK FALSE
