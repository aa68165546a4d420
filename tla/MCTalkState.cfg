SPECIFICATION Spec
CONSTANTS
    Contacts = {a, b}
    LastGeneration = 2
    QueueLimit = 1
    Removable = TRUE
    Events = {"crash"}
SYMMETRY Alike
INVARIANT TransmitsAsShown
INVARIANT GroupOnlyWhileHeld
INVARIANT PrivateOnlyWhileHeld
INVARIANT SettingsApplied
INVARIANT OnlyMeant
CHECK_DEADLOCK FALSE
