SPECIFICATION FairSpec
CONSTANTS
    Policies <- Two
    First = "pick"
    None = none
    Chunk = 2
    MaxMessages = 2
INVARIANT TypeOK
INVARIANT BuffersAreCurrent
INVARIANT FeedFollowsQueue
PROPERTY SwitchIsServed
PROPERTY InferenceGoesOn
CHECK_DEADLOCK FALSE
