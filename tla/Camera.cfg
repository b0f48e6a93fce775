SPECIFICATION FairSpec
CONSTANTS
    Streams <- OneColor
    Idles <- OneColor
    Threads <- TwoThreads
    Main = main
    NoOne = none
    Narrow = TRUE
    MaxEmpty = 1
    MaxRefs = 2
    MaxFaults = 1
    MaxHangs = 0
INVARIANT OneReader
PROPERTY GoneIsGivenUp
PROPERTY RequestEnds
CHECK_DEADLOCK FALSE
