SPECIFICATION FairSpec
CONSTANTS
    page = page
    chunked = chunked
    absent = absent
    None = None
    CurlThreads = {c1, c2}
    FileThreads = {f1}
    Paths <- MCPaths
    Exists <- MCExists
    Known <- MCKnown
    Size <- MCSize
    Chunk = 2
    FdLimit = 1
    MaxRequests = 2
    MaxFaults = 2
CHECK_DEADLOCK FALSE
INVARIANTS TypeOK  BodyIsOwn SuccessIsAnswered GlobalStateHeld
PROPERTIES EveryRequestReturns
