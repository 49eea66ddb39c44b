\* Is a refresh undone when its save fails and the link drops?
SPECIFICATION Spec
CONSTANTS
  Connectors = {c1}
  Refreshers = {r1}
  Exporters = {}
  Closers = {}
  MaxFaults = 1
  MaxDrops = 1
  None = None
  Free = Free
PROPERTIES FailedRefreshRestores
CHECK_DEADLOCK FALSE
