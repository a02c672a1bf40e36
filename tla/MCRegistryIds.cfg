SPECIFICATION Spec
CONSTANTS
    None = None
    Clients = {a, b}
    MaxIds = 3
    DoneCap = 1
INVARIANTS UniqueIds
CHECK_DEADLOCK FALSE
