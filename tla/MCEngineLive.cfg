\* Liveness under Spec's fairness; a failing connect or a handler closes the engine.
SPECIFICATION Spec
CONSTANTS
  Connectors = {c1}
  Closers = {}
  Requesters = {r1}
  Regular = Regular
  Encrypted = Encrypted
  Kinds <- OnlyData
  Buffer = 1
  MaxEvents = 2
  Free = Free
PROPERTIES CloseReturns EmitReturns ConsumerReleased RequestsEnd
CHECK_DEADLOCK FALSE
