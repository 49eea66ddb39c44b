\* Safety: a connect, a close and both transports; a channel of one event.
SPECIFICATION SafeSpec
CONSTANTS
  Connectors = {c1}
  Closers = {k1}
  Requesters = {}
  Regular = Regular
  Encrypted = Encrypted
  Kinds <- AllKinds
  Buffer = 1
  MaxEvents = 3
  Free = Free
INVARIANTS NoPanic EmitAccounted CloseDisconnects
CHECK_DEADLOCK FALSE
