SPECIFICATION FairSpec
CONSTANTS
    a1 = a1
    Aborters <- OneAborter
    Scenes <- RacesOrRecovery
INVARIANTS
    TypeOK
    StatusJustified
    ReportsAgree
PROPERTIES
    CancelIsFinal
    EventuallyFinal
CHECK_DEADLOCK FALSE
