SPECIFICATION FairSpec

CONSTANTS
    a1 = a1
    N = 2
    Aborters <- OneAborter
    Scenes <- EndOrRecovery

INVARIANTS
    TypeOK
    VerdictJustified
    CancelJustified
    StopsOnFailure
    EndReported
PROPERTIES
    SuiteEnds
    CancelHeeded
    EventuallyFinal
    AbandonedVerdict

CHECK_DEADLOCK FALSE
