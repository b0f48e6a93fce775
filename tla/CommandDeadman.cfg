SPECIFICATION FairSpec
CONSTANTS
    p1 = p1
    p2 = p2
    Jog = Jog
    Relay = Relay
    NoFile = NoFile
    Proxies <- OneProxy
    Cross = TRUE
    DaemonMayUnlink = FALSE
    MaxFiles = 2
    MaxSeq = 2
PROPERTY DeadmanCatches
CHECK_DEADLOCK FALSE
