SPECIFICATION FairSpec
CONSTANT LastGeneration = 3
INVARIANTS
    JoinsOnlyEnded
PROPERTIES
    ImplementsProcess
    StopEnds
    NewsSeen
CHECK_DEADLOCK FALSE
