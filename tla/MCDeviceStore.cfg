\* Two callers, four pre-keys, one failing write, one crash.
SPECIFICATION Spec
CONSTANTS
  Callers = {c1, c2}
  Users = {pn, lid}
  MaxID = 4
  MaxCount = 2
  MaxFaults = 1
  MaxCrashes = 1
SYMMETRY Symmetry
INVARIANTS NothingIsVolatile IDsNameOneKey HandedKeysAreKept OnlyHandedAreUploaded
CHECK_DEADLOCK FALSE
