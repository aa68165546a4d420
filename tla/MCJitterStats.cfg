SPECIFICATION StatsSpec
CONSTANTS
    LastSequence = 7
    FrameStart <- MCFrameStart
    StartThreshold = 2
    MaxFrames = 4
    RestartGap = 3
    PopSizes = {1, 3}
INVARIANTS PendingInWindow InOrderOnce CountersBalance
PROPERTIES ImplementsPlayout HolesDoNotBlock
