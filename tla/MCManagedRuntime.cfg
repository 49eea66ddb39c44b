CONSTANTS
    p1 = p1
    s1 = s1
    c1 = c1
    main = main
    k1 = k1
    k2 = k2
    Publishers = {p1}
    Subs = {s1}
    Closers = {c1, main}
    Main = main
    Creators = {k1, k2}
    Traced = k1
    Buffer = 1
    MaxEvents = 2
    Free = Free
SPECIFICATION OwnerSpec
INVARIANTS
    NoSessionSurvives
PROPERTIES
    ShutdownEnds
    NoRuntimeLeftBehind
    PublishReturns
    CloseEndsStreams
\* A runtime ends.
CHECK_DEADLOCK FALSE
