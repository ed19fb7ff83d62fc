SPECIFICATION Spec
CONSTANTS
    Instances = {i1}
    HookName <- TwoNames
    Contents = {c1, c2}
    None = None
    Broken = Broken
    MaxEdits = 2
    MaxFaults = 1
    MaxCrashes = 1
INVARIANTS
    ListMatchesBus
PROPERTIES
    Converges
CHECK_DEADLOCK FALSE
