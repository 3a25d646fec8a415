SPECIFICATION Spec
CONSTANTS
    e1 = e1
    e2 = e2
    A = A
    B = B
    d1 = d1
    NoObject = NoObject
    Exports <- MCExports
    Windows <- MCWindows
    Lends <- MCLends
    Requests <- MCRequests
    Digests <- MCDigests
    MaxPosting = 2
    MaxRuns = 2
INVARIANTS
    OneWindowPerExport
    ReadIsAttributed
CHECK_DEADLOCK FALSE
