SPECIFICATION FairSpec
CONSTANTS
    r1 = r1
    r2 = r2
    r3 = r3
    Requests <- TwoRequests
    MaxProcs = 2
    LongLines = FALSE
    Grandchildren = FALSE
PROPERTY EstopKills
CHECK_DEADLOCK FALSE
