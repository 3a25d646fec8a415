SPECIFICATION Spec
CONSTANTS
    w1 = w1
    w2 = w2
    A = A
    B = B
    k = k
    NoKey = NoKey
    NoWorker = NoWorker
    Workers <- MCWorkers
    Windows <- MCWindows
    Keys <- MCKeys
    Priorities <- OnePriority
    AttemptLimits <- MCAttemptLimits
    MaxJobs = 2
INVARIANTS
    OneActivePerWindow
    AttemptsFence
    SingleAttemptRunsOnce
SYMMETRY Symmetry
CHECK_DEADLOCK FALSE
