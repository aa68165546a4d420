SPECIFICATION Spec
CONSTANTS
    People = {1}
    EndpointsOf <- MCEndpointsOf
    FirstContacts = {"a1"}
    MaxSearches = 2
    MaxSessions <- MCSessions
    Keys = {"f"}
    Buttons = {"x"}
    Modifiers = {"ctrl"}
    FirstHotkeys <- MCHotkeys
    Count = 2
    MaxPosted = 2
    Launches = 3
INVARIANTS SearchShown NoDuplicates HeardAsHeld CoreWithInstance
PROPERTIES AnswerShown LaunchShows
CHECK_DEADLOCK FALSE
