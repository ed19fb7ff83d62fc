SPECIFICATION Spec

CONSTANTS
    a1 = a1
    N = 2
    Aborters <- OneAborter
    Scenes <- OnlyReconciler

PROPERTIES
    OnlyAbandoned

CHECK_DEADLOCK FALSE
