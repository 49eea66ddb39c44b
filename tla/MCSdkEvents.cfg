CONSTANTS
    i1 = i1
    i2 = i2
    l1 = l1
    l2 = l2
    Iterators <- MCIterators
    Listeners <- MCListeners
    Limit = 2
    MaxEvents = 4
SPECIFICATION Spec
INVARIANTS
    EndAlwaysFits
PROPERTIES
    NodeDrainsBeforeTheError
    KeepsThePromise
    EveryWaitEnds
\* A stream ends.
CHECK_DEADLOCK FALSE
