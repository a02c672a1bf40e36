SPECIFICATION FairSpec
CONSTANTS
    Callers = {m1, m2}
    Start = 1
    End = 3
    ForceRange = TRUE
    Asked = {2, 4}
    OsPorts = {4}
    Foreign = {2}
    ChanCap = 1
    Free = Free
    Other = Other
INVARIANTS TypeOK NoListenerLeft RequestKept RangeLeftOnlyIfBusy
PROPERTIES SearchEnds
CHECK_DEADLOCK FALSE
