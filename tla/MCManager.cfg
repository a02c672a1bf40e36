SPECIFICATION FairSpec
CONSTANTS
    None = None
    Names = {n1, n2}
    Ports = {p1, p2}
    Callers = {c1}
    Requested = 2
    MaxPool = 8
    ChanCap = 1
    NetCap = 1
    MaxMsgs = 2
INVARIANTS TypeOK NoDoubleClose ListenersOwned ProxiesListen
PROPERTIES RemovedOnlyIfClosed ReapedUnlessBacklogged
CHECK_DEADLOCK FALSE
