SPECIFICATION ReopenSpec
CONSTANTS
    w1 = w1
    w2 = w2
    Words <- MCWords
    NSlots = 3
    MaxRetries = 2
    Calls <- BothCalls
    MaxSeq = 4
    MaxLives = 2
SYMMETRY WordSymmetry
INVARIANT CleanWithinLife
CHECK_DEADLOCK FALSE
