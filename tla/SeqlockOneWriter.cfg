SPECIFICATION Spec
CONSTANTS
    w1 = w1
    w2 = w2
    Words <- MCWords
    NSlots = 3
    MaxRetries = 2
    Calls <- BothCalls
    MaxSeq = 7
    MaxLives = 0
INVARIANT NoTornRecord
INVARIANT GivesUpOnlyLapped
PROPERTY ReadsAreLatest
CHECK_DEADLOCK FALSE
