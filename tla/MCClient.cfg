\* Two connects, two refreshes, an export and one close; two failing calls, one drop.
SPECIFICATION Spec
CONSTANTS
  Connectors = {c1, c2}
  Refreshers = {r1, r2}
  Exporters = {x1}
  Closers = {k1}
  MaxFaults = 2
  MaxDrops = 1
  None = None
  Free = Free
INVARIANTS ClosedHoldsNothing CloseEndsEngines ReconnectUsesLiveCookies
PROPERTIES RefreshRestores CloseReturns
CHECK_DEADLOCK FALSE
