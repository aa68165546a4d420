SPECIFICATION Spec
CONSTANTS
    Contacts = {a}
    LastGeneration = 2
    QueueLimit = 1
    Removable = FALSE
    Events = {"restart"}
INVARIANT GroupOnlyWhileHeld
CHECK_DEADLOCK FALSE
