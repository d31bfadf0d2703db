SPECIFICATION Spec
CONSTANTS
    t1 = t1
    t2 = t2
    a1 = a1
    a2 = a2
    w1 = w1
    w2 = w2
    NoTask = NoTask
    NoAgent = NoAgent
    Tasks = {t1, t2}
    Agents = {a1, a2}
    Workers = {w1, w2}
    Schedulers = {s1}
    Clients = {}
    Prio <- UrgentFirst
    Capable <- OnlyFirstAgent
    MaxActive = 1
    MaxRetries = 1
    ResultBound = 3
    FreeCalls = FALSE
    ForcedFallback = FALSE
    HookCancels = {}
    Suspendable = {}
    Removable = {a1}
    NoMemory = {}
INVARIANTS DependencyOrder Ownership SuccessAccounting FailureAccounting CompletedIsClean RetriesKept
SYMMETRY WorkerSymmetry
PROPERTY LostOnlyByDequeue
