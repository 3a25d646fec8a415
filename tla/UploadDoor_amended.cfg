\* Contracts that change under the files, rosters, and an earlier window that lends.
SPECIFICATION DoorSpec
CONSTANTS
    Unreadable = Unreadable
    Undated = Undated
    NoStore = NoStore
    Unresolved = Unresolved
    NotDeclared = NotDeclared
    NotGiven = NotGiven
    NoBytes = NoBytes
    Foreign = Foreign
    MaxFiles = 2
    Setups <- DoorSetups
INVARIANTS
    ReadyWindowRuns
    LendersAreWhole
    IndexIsOfTheFile
CHECK_DEADLOCK FALSE
