SPECIFICATION Spec
CONSTANTS
    t1 = t1
    t2 = t2
    a1 = a1
    a2 = a2
    w1 = w1
    w2 = w2
    NoTask = NoTask
    NoAgent = NoAgent
    Tasks = {t1}
    Agents = {a1}
    Workers = {w1}
    Schedulers = {s1}
    Clients = {}
    Prio <- EqualPriority
    Capable <- EveryAgent
    MaxActive = 1
    MaxRetries = 1
    ResultBound = 3
    FreeCalls = FALSE
    ForcedFallback = FALSE
    HookCancels = {}
    Suspendable = {}
    Removable = {}
    NoMemory = {}
INVARIANT NoRetryLost
