SPECIFICATION Spec
CONSTANTS
    t1 = t1
    t2 = t2
    a1 = a1
    a2 = a2
    w1 = w1
    w2 = w2
    NoTask = NoTask
    NoAgent = NoAgent
    Tasks = {t1}
    Agents = {a1, a2}
    Workers = {w1, w2}
    Schedulers = {s1}
    Clients = {}
    Prio <- EqualPriority
    Capable <- EveryAgent
    MaxActive = 1
    MaxRetries = 1
    ResultBound = 1
    FreeCalls = TRUE
    ForcedFallback = FALSE
    HookCancels = {t1}
    Suspendable = {}
    Removable = {}
    NoMemory = {a2}
INVARIANTS QueueSound RunningHasWorker RetryOvershoot
PROPERTIES FollowsLifecycle TerminalSettles
SYMMETRY WorkerSymmetry
VIEW StatusView
CHECK_DEADLOCK FALSE
