SPECIFICATION FairSpec
CONSTANTS
    MaxBytes <- MCMaxBytes
    HalfClose = {"there"}
    LenSize = 1
    Window = 5
INVARIANTS TypeOK Prefixes
PROPERTIES Delivered TornDown
CHECK_DEADLOCK FALSE
