SPECIFICATION FairSpec
CONSTANTS
    a1 = a1
    Aborters <- OneAborter
    Outputs <- SomeOutputs
    ScraperOutputs <- SomeErrors
    Scenes <- AbortsOrRecovery
INVARIANTS
    TypeOK
    Honest
    ReportsAgree
    ClaimReleased
    ParsersAgree
PROPERTIES
    CancelKept
    EventuallyFinal
CHECK_DEADLOCK FALSE
