SPECIFICATION FairSpec
CONSTANTS
    PeerCount = 2
    Options <- Started
INVARIANTS
    OpenOnlyWhenBound
    FaultsReported
    RoutedExactly
PROPERTIES
    AllEnd
CHECK_DEADLOCK FALSE
