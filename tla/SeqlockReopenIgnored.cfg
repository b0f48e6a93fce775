SPECIFICATION FairReopenSpec
CONSTANTS
    w1 = w1
    w2 = w2
    Words <- MCWords
    NSlots = 3
    MaxRetries = 2
    Calls <- OnlyReadNew
    MaxSeq = 3
    MaxLives = 1
PROPERTY DeliversNew
CHECK_DEADLOCK FALSE
