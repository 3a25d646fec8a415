SPECIFICATION FairSpec
CONSTANTS
    MaxAttempts = 2
    MaxLines = 4
    FlushEvery = 2
    Limit = 2
INVARIANTS
    StoredIsPrefix
    ViewHasNoGap
    CompleteMeansAll
PROPERTIES
    ReaderStops
CHECK_DEADLOCK FALSE
