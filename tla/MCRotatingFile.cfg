SPECIFICATION LogSpec
CONSTANTS
    Writers = {v, w}
    Sizes = {1, 2}
    MaxBytes = 3
    Backups = 2
    MaxLines = 4
    MaxRestarts = 1
INVARIANTS LogTypeOK OldestFirst SizeBound
PROPERTIES OnlyOldestLost
SYMMETRY Symmetry
CHECK_DEADLOCK FALSE
