SPECIFICATION FairSpec
CONSTANTS
    Contacts = {a, b}
    LastGeneration = 3
    QueueLimit = 0
    Removable = FALSE
    Events = {"crash", "failure"}
INVARIANTS
    LatchesKept
PROPERTIES
    UsesController
    RestartCompletes
CHECK_DEADLOCK FALSE
