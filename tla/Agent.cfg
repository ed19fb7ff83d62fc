SPECIFICATION FairSpec
CONSTANTS
    CommandWorkers = {c1}
    LogWorkers = {l1}
    Capacity = 1
    MaxLines = 1
    Scenes <- OneBusyLane
INVARIANTS
    OnePlace
PROPERTIES
    Answered
    ReconnectsUnlessJammed
CHECK_DEADLOCK FALSE
