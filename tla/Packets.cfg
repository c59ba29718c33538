SPECIFICATION Spec
CONSTANTS
    PoolSize = 2
    RomSize = 1
    RamSize = 2
    BufSize = 6
    Eth = 1
    Ip = 1
    Th = 1
    FrameLens <- Frames
    Mss = 2
    Mtu = 8
    MaxFrags = 2
    MaxReq = 2
    MaxSegs = 2
    ArpQueueLen = 1
INVARIANTS  LengthsSafe OutputWhole
CHECK_DEADLOCK FALSE
