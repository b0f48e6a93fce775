SPECIFICATION Spec
CONSTANTS
    r1 = r1
    r2 = r2
    Requests <- TwoRequests
    Acts <- ArmActs
    Units <- Nothing
    RemoteTraining = FALSE
INVARIANT NoContention
CHECK_DEADLOCK FALSE
