SPECIFICATION Spec
CONSTANTS
    p1 = p1  p2 = p2
    w1 = w1  w2 = w2
    empty = empty  short = short  long = long
    absent = absent
    None = None
    Proxies <- TwoProxies
    Workers <- TwoWorkers
    Paths <- TwoFiles
    Cached <- TwoFiles
    Size <- TwoSize
    Chunk = 2
    SegCells = 2
    QueueCap = 2
    IntMax = 3
    FdLimit = 4
    MaxRequests = 2
    MaxReadErrors = 0
CHECK_DEADLOCK FALSE
INVARIANTS BodyOfPath
