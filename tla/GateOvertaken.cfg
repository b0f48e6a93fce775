SPECIFICATION Spec
CONSTANTS
    r1 = r1
    r2 = r2
    Requests <- TwoRequests
    Acts <- PluginActs
    Units <- Nothing
    RemoteTraining = FALSE
PROPERTY EstopHolds
CHECK_DEADLOCK FALSE
