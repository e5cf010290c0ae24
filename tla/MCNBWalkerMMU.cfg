SPECIFICATION Spec
CONSTANTS
    Req <- ThreeReqs
    PathOf <- Paths
    NumWalkers = 2
    ReqQueueCap = 1
    RspQueueCap = 1
    TopSenderCap = 3
    EndCap = 1
    MemCap = 1
    L1Cap = 1
    PortCap = 1
    MaxLevel = 3
INVARIANTS TypeOK EachRequestOnce InflightCounted ReadsAwaited WalkerAwake WalksInTree PagesMatch
PROPERTY Refines
