SPECIFICATION FairSpec
CONSTANTS
    p1 = p1  p2 = p2
    w1 = w1  w2 = w2
    empty = empty  short = short  long = long
    absent = absent
    None = None
    Proxies <- TwoProxies
    Workers <- TwoWorkers
    Paths <- TwoPaths
    Cached <- TwoFiles
    Size <- TwoSize
    Chunk = 2
    SegCells = 2
    QueueCap = 1
    IntMax = 3
    FdLimit = 2
    MaxRequests = 3
    MaxReadErrors = 1
CHECK_DEADLOCK FALSE
INVARIANTS OneAnswerPerRequest WholeUntilAnswered
PROPERTIES EveryRequestReturns
