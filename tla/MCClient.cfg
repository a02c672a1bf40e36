SPECIFICATION Spec
CONSTANTS
    None = None
    Processes = {m, n}
    Logins = {a, b, c}
    Pipes = {p}
    Ids = {i, j}
INVARIANTS TypeOK PipesHome PipesStraight OneStream
SYMMETRY Symmetry
CHECK_DEADLOCK FALSE
