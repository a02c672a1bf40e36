SPECIFICATION Spec
CONSTANTS
    None = None
    Users = {u1, u2}
    Pipes = {s1, s2, s3}
    Requested = 1
    MaxPool = 8
    AskCap = 3
SYMMETRY Symmetry
INVARIANTS TypeOK WaitersCovered PipesAccounted PipesMatch
PROPERTIES KeepsPromise
CHECK_DEADLOCK FALSE
