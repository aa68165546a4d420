SPECIFICATION FairSpec
CONSTANTS
    a = a
    b = b
    Cores <- MCCores
    LastSession <- TwoOne
    LastRevision <- OneZero
    Voice = TRUE
    MaxLost = 2
    MaxDuplicated = 1
    MaxDelayed = 1
PROPERTIES
    ProfilesSettle
    ExchangeEnds
    NoStepBack
INVARIANTS
    ProfileOfSession
