SPECIFICATION FairSpec
CONSTANTS
    CommandWorkers = {c1}
    LogWorkers = {l1}
    Capacity = 1
    MaxLines = 1
    Scenes <- OneFailure
PROPERTIES
    Reconnects
CHECK_DEADLOCK FALSE
