SPECIFICATION FairTimelySpec
CONSTANTS
    w1 = w1
    w2 = w2
    A = A
    B = B
    k = k
    NoKey = NoKey
    NoWorker = NoWorker
    Workers <- MCWorkers
    Windows <- MCWindows
    Keys <- NoKeys
    Priorities <- MCPriorities
    AttemptLimits <- TwoAttempts
    MaxJobs = 2
INVARIANTS
    NoConcurrentRuns
    InFlightIsLeased
    OneAttemptPerLog
    DoneMeansConcluded
PROPERTIES
    KeepsPromise
    EveryJobSettles
    EveryRunConcludes
CHECK_DEADLOCK FALSE
