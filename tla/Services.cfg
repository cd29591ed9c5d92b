SPECIFICATION ServicesSpec
CONSTANTS
    Parts = {"members", "credentials", "resources", "flags", "evaluation", "continuity", "bootstrap", "forwarder", "import", "throttle"}
    \* accounts
    Users = {u1, u2}
    Orgs = {o1, o2}
    InvitedRoles = {"owner"}
    Reqs = {r1, r2}
    None = None
    MaxSessions = 1
    MaxInvites = 1
    MaxMembers = 2
    SessionTtl = 1
    InviteTtl = 1
    DrainTimesOut = FALSE
    MaxTime = 1
    MaxMinted = 2
    MaxKeys = 1
    MaxPw = 1
    MaxProjects = 1
    \* insights, dashboards, shares
    Projects = {p1, p2}
    InsightIds = {i1}
    DashboardIds = {d1}
    ShareTokens = {t1}
    Queries = {"sql", "legacy"}
    MaxTiles = 1
    ResEnd = 1
    \* feature flags
    FlagProjects = {fp1, fp2}
    FlagKeys = {k1, k2}
    FlagWriters = {fw1, fw2}
    FlagReaders = {fr1}
    MaxFlags = 2
    MaxCached = 1
    MaxRows = 2
    MaxVersion = 2
    Scale = 16
    Percent <- PercentNearest
    Fraction <- FractionNearest
    Rounding = 1
    Epsilon = 1
    Variants = {"va", "vb", "vc"}
    MaxVariants = 3
    Hashes = {0, 8, 14}
    Rollouts = {0, 8, 16}
    VariantLists <- SomeVariantLists
    MaxGroups = 2
    Filters = {{}, {"is_not"}}
    NoValue = NoValue
    NoPerson = NoPerson
    AnonymousFirst = TRUE
    EndOfTime = 2
    \* storage bootstrap
    PairIds = {b1, b2, b3}
    Foreign = Foreign
    NoFile = NoFile
    \* the forwarder
    FwdProjects = {fa, fb}
    FwdHosts = {"h"}
    QueueEvents = 2
    BatchEvents = 1
    MaxAttempts = 2
    MaxEvents = 3
    \* the importer
    SourceRows = 5
    SourcePersons = 3
    PageRows = 2
    BatchRows = 1
    LongGaps = FALSE
    \* the login throttle
    Emails = {e1, e2}
    Sources = {s1, s2}
    FreeFailures = 1
    MaxDelay = 3
    EmailWindow = 4
    SourceMaxFailures = 2
    SourceWindow = 3
    MaxKeysTracked = 1
    MaxOverlap = 2
    LastMoment = 5
INVARIANTS
    OrgKeepsOwner
    UsedOnce
    CredentialsCurrent
    ResourcesHold
    FlagCacheHolds
    FlagAnswersHold
    BucketSurvivesLogin
    BootHolds
    ForwardingHolds
    NothingSkipped
    WaitsAreBounded
PROPERTIES
    MembershipSteps
    WritesStayInProject
    RolloutOnlyAdds
SYMMETRY ServicesSymmetry
