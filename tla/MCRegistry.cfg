SPECIFICATION FairSpec
CONSTANTS
    None = None
    Clients = {a, b, c}
    MaxIds = 3
    DoneCap = 1
INVARIANTS TypeOK LiveFound
PROPERTIES LeavesForGood
CHECK_DEADLOCK FALSE
