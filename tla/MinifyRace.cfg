SPECIFICATION FairSpec
CONSTANTS
    w1 = w1  w2 = w2
    Workers <- TwoWorkers
    Outstanding = 2
    MaxCalls = 3
CHECK_DEADLOCK FALSE
PROPERTIES EveryCallAnswered
