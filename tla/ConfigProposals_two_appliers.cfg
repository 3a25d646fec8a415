SPECIFICATION Spec
CONSTANTS
    a1 = a1
    a2 = a2
    Keys <- MCKeys
    Seed <- MCSeed
    LockedKeys <- MCLocked
    Baskets <- AllBaskets
    Absent = "absent"
    Undecided = "undecided"
    Nonsense = "nonsense"
    CanaryVerdicts = {"cells_moved", "unavailable"}
    Appliers <- MCAppliers
    MaxProposals = 2
INVARIANTS
    AppliedHasLanded
PROPERTIES
    MovedBaseIsRefused
SYMMETRY Symmetry
CHECK_DEADLOCK FALSE
