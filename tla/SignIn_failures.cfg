\* One account and a name without one; two requests at a time.
SPECIFICATION Spec
CONSTANTS
    Users = {u1}
    Strangers = {x1}
    Clients = {c1, c2}
    Limit = 2
    Window = 1
    Cooloff = 2
    MaxKeys = 1
    Idle = 4
    Minute = 1
    Lifetime = 5
    Keep = 1
    Bounds <- AllBounds
    Never = Never
    NoName = NoName
SYMMETRY Symmetry
INVARIANTS
    FailuresCount
    LimitBlocks
    UsedSessionsLast
CHECK_DEADLOCK FALSE
