SPECIFICATION FairSpec
CONSTANTS
    t1 = t1
    s1 = s1
    s2 = s2
    None = None
    Triggers <- OneTrigger
    Probed <- OneTrigger
    Sources <- TwoSources
    Cases <- OneOfEach
    MaxHandlers = 2
    MaxTests = 2
    MaxEvents = 2
    MaxTrouble = 2
INVARIANTS
    TypeOK
    OneRound
    NeverDies
    
PROPERTIES
    Settles
CHECK_DEADLOCK FALSE
