SPECIFICATION FairSpec
CONSTANTS
    j1 = j1
    j2 = j2
    Box = Box
    None = None
    Rentals <- One
    Visits <- Other
    MaxCrashes = 1
    Overlap = FALSE
INVARIANT TypeOK
INVARIANT RunnerReturns
INVARIANT ScanIsExact
PROPERTY SoughtBeforeDestroyed
PROPERTY CostEnds
CHECK_DEADLOCK FALSE
