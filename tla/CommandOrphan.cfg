SPECIFICATION PromptSpec
CONSTANTS
    p1 = p1
    p2 = p2
    Jog = Jog
    Relay = Relay
    NoFile = NoFile
    Proxies <- OneProxy
    Cross = FALSE
    DaemonMayUnlink = TRUE
    MaxFiles = 2
    MaxSeq = 1
PROPERTY OwnerIsHeard
CHECK_DEADLOCK FALSE
