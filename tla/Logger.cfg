SPECIFICATION Spec
CONSTANTS
    Threads = {t1, t2}
    Nobody = Nobody
    Components = {"a", "b", "c"}
    Names <- MCNames
    NoName <- MCNoName
    Unregistered = Unregistered
    Debug = 1
    Paths = {p, q}
    NoPath = NoPath
    NoFile = NoFile
    Consumers = {k}
    MaxCalls = 4
SYMMETRY LoggerSymmetry
INVARIANTS
    TypeOK
    OneOrder
    FileIsFilename
    HeirsFollow
PROPERTY NothingToTheDead
\* The calls are bounded.
CHECK_DEADLOCK FALSE
