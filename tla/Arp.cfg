SPECIFICATION FairSpec
CONSTANTS
    a1 = a1
    a2 = a2
    a3 = a3
    m1 = m1
    m2 = m2
    NoIp = NoIp
    NoMac = NoMac
    Ips <- MCIps
    Macs <- MCMacs
    TableSize = 2
    QueueLen = 1
    MaxAge = 4
    Rerequest = 1
    MaxPending = 2
    MaxPackets = 2
INVARIANTS TableSafe
PROPERTIES  NoEndlessWait
