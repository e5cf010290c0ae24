SPECIFICATION Spec
CONSTANTS
    Req <- ThreeReqs
    PathOf <- Paths
    NumWalkers = 1
    ReqQueueCap = 1
    RspQueueCap = 1
    TopSenderCap = 1
    EndCap = 1
    MemCap = 1
    L1Cap = 1
    PortCap = 1
    MaxLevel = 6
INVARIANT PagesMatch
CHECK_DEADLOCK FALSE
