SPECIFICATION Spec
CONSTANTS
    PeerCount = 1
    Options <- Started
INVARIANT ListensWhileOpen
CHECK_DEADLOCK FALSE
