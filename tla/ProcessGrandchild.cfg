SPECIFICATION Spec
CONSTANTS
    r1 = r1
    r2 = r2
    r3 = r3
    Requests <- TwoRequests
    MaxProcs = 2
    LongLines = FALSE
    Grandchildren = TRUE
INVARIANT NothingBehindIdle
CHECK_DEADLOCK FALSE
