SPECIFICATION FairSpec
CONSTANTS
    None = None
    Names = {n1}
    Interval = 60
    ChanCap = 2
    NetCap = 1
    MaxMsgs = 1
INVARIANTS TypeOK CrashOnlyAfterLoss
PROPERTIES LossDetected Released SilenceDetected
CHECK_DEADLOCK FALSE
