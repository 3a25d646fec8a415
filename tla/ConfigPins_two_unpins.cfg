SPECIFICATION Spec
CONSTANTS
    v0 = v0
    v1 = v1
    a1 = a1
    a2 = a2
    NoVersion = NoVersion
    Initial = v0
    Versions <- MCVersions
    Admins <- MCAdmins
    MaxRuns = 2
    MaxActs = 3
INVARIANTS
    ReRunsKeepTheRules
    HistoryExplainsPin
SYMMETRY Symmetry
CHECK_DEADLOCK FALSE
