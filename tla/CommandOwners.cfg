SPECIFICATION Spec
CONSTANTS
    p1 = p1
    p2 = p2
    Jog = Jog
    Relay = Relay
    NoFile = NoFile
    Proxies <- TwoProxies
    Cross = FALSE
    DaemonMayUnlink = TRUE
    MaxFiles = 3
    MaxSeq = 2
SYMMETRY ProxySymmetry
INVARIANT TypeOK
INVARIANT LockCoversSession
INVARIANT OneAtATime
PROPERTY TakeOverSparesTheLiving
CHECK_DEADLOCK FALSE
