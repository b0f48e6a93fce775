SPECIFICATION Spec
CONSTANTS
    r1 = r1
    r2 = r2
    Requests <- OneRequest
    Acts <- Table
    Units <- TableUnits
    RemoteTraining = FALSE
INVARIANT NoContention
CHECK_DEADLOCK FALSE
