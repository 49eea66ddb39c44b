\* Safety: two transports, two subscribers whose channels hold two events.
SPECIFICATION SafeSpec
CONSTANTS
  Publishers = {p1, p2}
  Subs = {s1, s2}
  Closers = {c1}
  Buffer = 2
  MaxEvents = 3
  Free = Free
SYMMETRY Symmetry
INVARIANTS TypeOK NoPanic QueueIsRecentSuffix DropsAccounted NothingSkipped NewestNeverRefused NoSubscriberLeak
PROPERTIES NothingPublishedAfterClose ImplementsStream
CHECK_DEADLOCK FALSE
