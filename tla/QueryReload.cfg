SPECIFICATION ReadsSpec
CONSTANTS
    Parts = {"query"}
    \* the query engine
    QRequests = {r1, r2}
    QConfigs <- EngineConfigs
    QKinds = {"insight"}
    CacheEntries = 1
    CacheBytes = 2
    ResultSizes = {1, 3}
    MaxData = 1
    MaxMerges = 1
    MaxErasures = 1
    \* the event feed and the person list
    FeedIds = {1, 2, 3, 4}
    DayMicros = 2
    Today = 1
    FeedDays = 4
    FeedLimit = 2
    MaxWindows = 4
    PersonIds = {1, 2, 3, 4}
    PersonTimes = {1, 2}
    PersonLimit = 1
    \* capture
    Callers = {c1, c2}
    Bodies <- CaptureBodies
    CaptureTokens = {"ta", "tb"}
    NoToken = "notoken"
    MaxDecodes = 1
    ParseBudget = 4
    QueueEventsMax = 2
    MaxPerSecond = 1
    MaxTracked = 2
    AcceptTtl = 2
    RejectTtl = 1
    CacheTokens = 1
    EndOfSeconds = 1
    \* the backlog
    SegmentBatches = 2
    MaxUnpublished = 3
    MaxBatches = 5
    \* the explore gate
    Queries = {q1, q2, q3}
    Connections = {k1, k2, k3}
    NoConnection = NoConnection
    MaxConcurrent = 2
    MaxQueuedReads = 1
INVARIANT AnswersFresh
SYMMETRY ReadsSymmetry
