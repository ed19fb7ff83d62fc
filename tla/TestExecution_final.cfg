SPECIFICATION Spec
CONSTANTS
    a1 = a1
    Aborters <- OneAborter
    Scenes <- Undisturbed
INVARIANTS
    SavesFinalState
CHECK_DEADLOCK FALSE
