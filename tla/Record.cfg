SPECIFICATION RecordFairSpec
CONSTANTS
    t1 = t1
    t2 = t2
    t3 = t3
    None = None
    Plan <- TwoTrials
    Block <- TwoBlocks
    Loses = FALSE
    MaxSessions = 2
    MaxPresses = 2
    MaxRestarts = 1
INVARIANT RecordTypeOK
INVARIANT Conserved
INVARIANT LogIsTrue
INVARIANT KeysOfThisSession
PROPERTY EscapeEnds
CHECK_DEADLOCK FALSE
