SPECIFICATION FairSpec

CONSTANTS
    M = 5
    Level = 2
    CanCancel = TRUE

INVARIANTS
    Placed

PROPERTIES
    Implements
    AllAnswered

CHECK_DEADLOCK FALSE
