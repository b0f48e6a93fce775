SPECIFICATION Spec
CONSTANTS
    r1 = r1
    r2 = r2
    Requests <- TwoRequests
    Acts <- LocalActs
    Units <- Nothing
    RemoteTraining = TRUE
SYMMETRY RequestSymmetry
INVARIANT RunningIsSeen
INVARIANT EstopLeavesNothing
CHECK_DEADLOCK FALSE
