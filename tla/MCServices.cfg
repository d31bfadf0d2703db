SPECIFICATION ServicesSpec
CONSTANTS
    Workers = {w1, w2}
    Cancellers = {d1, d2}
    MaxRetries = 2
    Nobody = Nobody
    Callers = {c1, c2}
    Writers = {c1, c2}
    Ids = {i1, i2}
    Contents = {"pending", "completed"}
    NoRow = NoRow
    SharedConnection = FALSE
    None = None
    EmptyText = EmptyText
    RetryLimits = {0, 1, 2}
    Sources = {p1, p2}
    EventTasks = {k1, k2}
    NoLimit = NoLimit
    LimitSettings = {0, 2}
    MaxEvents = 3
    MaxAttempts = 2
    EpisodeKeys = {m1, m2, m3}
    Limits = {0, 2}
    MaxNow = 4
    RegAgents = {o, x, y}
    Orchestrator = o
    NoParent = NoParent
    MaxTotal = 4
    Tools = {"plan", "threat_scan"}
    BuiltIn <- BuiltInTools
    MaxLog = 4
    MaxDepth = 2
    Names = {"a", "b"}
    FallbackNames = {"a"}
    NoList = NoList
    SampleCounts = {0, 1, 4}
    BatchSizes = {1, 2, 3}
    Ratios = {0, 3, 5, 8}
INVARIANTS RunningNotAbandoned AcknowledgedKept RestartUnnoticed ViewsAgree AcknowledgedRead
INVARIANTS ForgetsTheOldest NoDanglingReference CountNotBelow TrailExplainsModes
INVARIANTS FunctionalMeansAvailable StrictStartup AbsenceExplained
INVARIANTS EpochIsWhole SplitIsPartition WindowsFit
PROPERTY AtomicExport
