CONSTANTS
    c1 = c1
    c2 = c2
    Conns <- TwoConns
    SndBuf = 1
    MaxRtx = 1
    FileLen = 2
    ReqQueueLen = 1
    MaxRetries = 2
    NumPcb = 1
    Backlog = 1
    PoolSize = 2
    MaxReq = 2
    Trailing = FALSE
SPECIFICATION FairSpec
INVARIANTS   CloseNotForgotten
PROPERTIES  ConnectionEnds
CHECK_DEADLOCK FALSE
