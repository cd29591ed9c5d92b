SPECIFICATION InsightsSpec
CONSTANTS
    Parts = {"funnels", "insights", "web"}
    \* funnels
    FunnelQueries <- FunnelQuestions
    FunnelSteps = 3
    FunnelWindow = 1
    LastFunnelTime = 2
    GatherBytes = 6
    MaxTied = 1
    PartitionRows = 2
    MaxPartitions = 2
    BreakdownLimit = 1
    \* the other insights
    Questions <- InsightQuestions
    PersonText <- TextOfPerson
    PersonHash <- HashOfPerson
    PersonRank <- RankOfPerson
    MaxBuckets = 14
    Now = 3
    WordBits = 2
    MaxMaskWords = 3
    MonthWindow = 6
    PathPartitionRows = 2
    PathMaxPartitions = 2
    \* web analytics
    WebIds = {w1, w2}
    WebSessions = {"s"}
    Cols = {"a"}
    Missing = "null"
    LastTick = 5
    SessionGap = 1
    BounceTime = 1
    LiveWindow = 2
    MonthsBegin = {0, 5}
    MaskBits = 2
    MaxBucketWords = 2
    WebMaxBuckets = 3
    MaxVisits = 3
    SiteEvents <- WebVisits
    WebQueries <- WebQuestions
INVARIANTS
    FunnelsExact
    PeriodsExact
    TrendsAndPathsExact
    WebExact
SYMMETRY InsightsSymmetry
