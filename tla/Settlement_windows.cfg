\* Every deployment, two runs.
SPECIFICATION Spec
CONSTANTS
    Unreadable = Unreadable
    Undated = Undated
    NoStore = NoStore
    Unresolved = Unresolved
    NoType = NoType
    NoOrder = NoOrder
    NoBucket = NoBucket
    DefaultMasters = DefaultMasters
    OtherMasters = OtherMasters
    NotDeclared = NotDeclared
    Blank = Blank
    Clerks = {k1, k2}
    Setups <- AllSetups
    MaxRuns = 2
    MaxDecisions = 3
INVARIANTS
    SettledIsOnRecord
    CleanMeansMoneyAgrees
    NearestWindowLends
    LendersWereNamed
    RosterHolds
    MasterAddsUp
    HistoryReplays
PROPERTY ReRunsReproduce
CHECK_DEADLOCK FALSE
