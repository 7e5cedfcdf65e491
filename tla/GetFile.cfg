SPECIFICATION FairSpec
CONSTANTS
    c1 = c1  c2 = c2
    d = d  bad = bad
    fits = fits  long = long  huge = huge  absent = absent
    Junk = Junk  None = None
    Clients <- TwoClients
    Dirs <- SomeDirs
    Names <- SomeNames
    NoSlash = bad
    Size <- SomeSize
    RecvBuf = 4
    Window = 4
    MaxPending = 1
    DigitsLimit = 8
    Radix = 2
    FdLimit = 2
    Chunk = 4
    Workload <- Workloads
    Requests <- ThreeRequests
CHECK_DEADLOCK FALSE
INVARIANTS TypeOK KeptIsWhole InvalidHasCause DiesOfItsClientOnly
PROPERTIES EveryPerformReturns
