SPECIFICATION Spec
CONSTANTS
    r1 = r1
    r2 = r2
    Requests <- OneRequest
    Acts <- OnlyRecording
    Units <- OnlyRecording
    RemoteTraining = FALSE
INVARIANT EstopLeavesNothing
CHECK_DEADLOCK FALSE
