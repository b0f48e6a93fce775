SPECIFICATION Spec
CONSTANTS
    r1 = r1
    r2 = r2
    Requests <- TwoRequests
    Acts <- OnlyRecording
    Units <- OnlyRecording
    RemoteTraining = FALSE
INVARIANT RunningIsSeen
CHECK_DEADLOCK FALSE
