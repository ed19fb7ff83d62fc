SPECIFICATION Spec
CONSTANTS
    Runs = {r1, r2, r3, r4}
    Old = 2
    MaxRetries = 2
    MaxFails = 3
    Scenes <- LostOrDeleted
SYMMETRY AnyRun
INVARIANTS
    NumbersUnique
    RefusalsBounded
CHECK_DEADLOCK FALSE
