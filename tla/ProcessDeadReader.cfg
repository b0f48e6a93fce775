SPECIFICATION FairSpec
CONSTANTS
    r1 = r1
    r2 = r2
    r3 = r3
    Requests <- TwoRequests
    MaxProcs = 2
    LongLines = TRUE
    Grandchildren = FALSE
PROPERTY ExitIsAlwaysNoticed
CHECK_DEADLOCK FALSE
