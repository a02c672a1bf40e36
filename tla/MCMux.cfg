SPECIFICATION Spec
CONSTANTS
    Workers = {w1, w2, w3}
    Tagged = {w1, w2}
    Ports = {p1}
    Requests = {r1}
    Tag = Tag
    None = None
SYMMETRY Symmetry
INVARIANTS TypeOK NoFalse404 Routed
CHECK_DEADLOCK FALSE
