SPECIFICATION FairSpec
CONSTANTS
    None = None
    Names = {n1}
    Ports = {p1}
    Callers = {c1}
    Requested = 1
    MaxPool = 8
    ChanCap = 1
    NetCap = 1
    MaxMsgs = 3
PROPERTIES GoneIsReaped
CHECK_DEADLOCK FALSE
