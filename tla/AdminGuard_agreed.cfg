SPECIFICATION FairAgreedSpec
CONSTANTS
    a = a
    b = b
    p = p
    q = q
    NoUser = NoUser
    NoRequest = NoRequest
    Ids <- MCIds
    Requests <- MCRequests
INVARIANTS
    AdminRemains
PROPERTIES
    EveryRequestEnds
