SPECIFICATION Spec
CONSTANTS
    A = A
    B = B
    Windows <- MCWindows
    NumWorkers = 2
    MaxRuns = 2
INVARIANTS
    CatchesUp
    ProducedHasFile
    OkCoversMonth
PROPERTIES
    ExcludedForCause
SYMMETRY Symmetry
CHECK_DEADLOCK FALSE
