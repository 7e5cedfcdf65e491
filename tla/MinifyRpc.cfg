SPECIFICATION FairSpec
CONSTANTS
    Threads = 2
    Workload <- MCWorkload
    MayMiss = {2}
    MayRefuse = {1}
    Workers = {w1, w2}
    None = None
CHECK_DEADLOCK FALSE
INVARIANTS TypeOK OutputIsOwn TransportOutlivesCall OneAnswerPerCall SuccessIsOfAll
PROPERTIES EveryRunEnds
