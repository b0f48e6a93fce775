SPECIFICATION LinkSpec
CONSTANTS
    Ids = {1, 2}
    Loop = Loop
    Poll = Poll
    Watch = Watch
    QuickPlug = FALSE
    MaxFaults = 1
INVARIANT LinkTypeOK
INVARIANT LastWordWins
INVARIANT ToldTheTruth
PROPERTY NoGhost
CHECK_DEADLOCK FALSE
