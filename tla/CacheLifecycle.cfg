SPECIFICATION FairSpec
CONSTANTS
    Handlers = {h1}
    Threads = {w1}
    Keys = {1, 2, 3}
    None = None
    Lists <- MCLists
    Size <- MCSize
    SegCells = 1
    FirstCapacity = 1
    MaxProxies = 2
    MaxCaches = 2
    MaxRequests = 2
    MaxErrors = 1
CHECK_DEADLOCK FALSE
INVARIANTS TypeOK NoSecondAnswer AnswerIsOwn SearchInRange KilledAfterRestart
PROPERTIES EveryRequestEnds
