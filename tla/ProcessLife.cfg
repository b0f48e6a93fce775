SPECIFICATION FairSpec
CONSTANTS
    r1 = r1
    r2 = r2
    r3 = r3
    Requests <- ThreeRequests
    MaxProcs = 3
    LongLines = TRUE
    Grandchildren = FALSE
INVARIANT TypeOK
INVARIANT ChildIsHeld
PROPERTY StopEnds
PROPERTY EndIsSeen
CHECK_DEADLOCK FALSE
