\* Do two engines deliver when Connect is called again while the link is down?
SPECIFICATION Spec
CONSTANTS
  Connectors = {c1, c2}
  Refreshers = {}
  Exporters = {}
  Closers = {}
  MaxFaults = 0
  MaxDrops = 1
  None = None
  Free = Free
INVARIANTS OneEngineDelivers
CHECK_DEADLOCK FALSE
