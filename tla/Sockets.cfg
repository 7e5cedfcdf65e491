SPECIFICATION FairSpec
CONSTANTS
    t1 = t1  e1 = e1  e2 = e2
    None = None  File = File
    Clients <- EchoesAndTransfer
    TransferClients <- OneTransfer
    EchoClients <- TwoEchoes
    MsgLen <- TwoMessages
    Window = 2
    MaxPending = 0
    FileLen = 3
    Chunk = 2
    RecvBuf = 2
    EchoBuf = 2
    PrintBuf = 2
CHECK_DEADLOCK FALSE
INVARIANTS TypeOK  EchoIsOwn ServerEndsHaveCause
PROPERTIES EveryClientEnds
