SPECIFICATION FairSpec
CONSTANTS
    w1 = w1  w2 = w2
    Workers <- TwoWorkers
    Outstanding = 1
    MaxCalls = 4
CHECK_DEADLOCK FALSE
INVARIANTS TypeOK QueueIntact QueueNeverKills
PROPERTIES EveryCallAnswered
