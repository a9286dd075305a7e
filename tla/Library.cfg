\* One part at a time, on small instances.
SPECIFICATION Spec
CONSTANTS
    Threads = {t1, t2}
    Nobody = nobody
    Worker = worker
    Problems <- MCProblems
    Infinity = 100000
    Junk <- MCJunk
    MaxCycles = 20
    Networks <- MCNetworks
    AdHocPoints <- MCAdHocPoints
    Preferred = {"NoDirection", "Up"}
    Beyond = 100
    MaxRoutingCalls = 3
    Vertices <- MCVertices
    Grid <- MCGrid
    MaxPoints = 4
    Kilo = 10
    KiloDigits = 1
    SecondsPerMinute = 60
    MinutesPerHour = 60
    HoursPerDay = 2
    HoursPerYear = 241
    Exact = 1073741824
    Parts <- MCParts
    Operands = {1, 60000, 7199999}
    Factors = {2, 7}
    SpanTexts <- MCSpanTexts
    MaxOperations = 1
    Times = {0, 1, 2, 3, 4}
    Spans = {0, 1, 3, 4, 7}
    PerMillisecond = 2
    MaxRanges = 3
    Letters = {"a", "b"}
    Quote = "q"
    Separator = ","
    Space = "_"
    EndOfLine = ";"
    MaxLetters = 3
    MaxLength = 4
    MaxDistance = 2
    MaxLines = 3
    RowSize = 4
    Thousand = 50
    Paths <- MCPaths
    Directories <- MCDirectories
    Protected <- MCProtected
    FileTexts <- MCFileTexts
    MaxFileCalls = 2
    MaxWrites = 3
    MaxArrivals = 2
    MaxRuns = 2
    MaxSent = 3
    Windows = {1, 2}
    PruneIntervalMsecs = 1
    MaxEvents = 2
    MaxTime = 3
    EntityTypes = {1, 2}
    Names = {a, b}
    Icons = {0, 1}
    MaxMetadataCalls = 3
INVARIANTS
    TypeOK
    RouteBeforeMargins
    VisitedIsFinal
    ShortestPathFound
    TimesAgree
    NothingLost
    RecentKept
    RegistryAgrees
    TextAlgorithmsAgree
    ShapesAgree
    FilesWhole
PROPERTIES
    CalculationReturns
    QueuesDrain
    ClientEnds
CHECK_DEADLOCK FALSE
