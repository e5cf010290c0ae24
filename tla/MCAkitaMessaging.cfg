SPECIFICATION Spec
CONSTANTS
    N = 2
    PortCap = 1
    EndCap = 1
    Latency = 2
    MaxTrans = 2
    Addr = {x, y}
    Val = {v, w}
    Zero = zero
    NumWrite = 2
    NumRead = 1
INVARIANTS TypeOK NoLostWakeup Conserved QuiescentMeansServed ReadsMatch
PROPERTY EventuallyServed
CHECK_DEADLOCK FALSE
