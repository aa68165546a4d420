SPECIFICATION FairSpec
CONSTANTS
    Cores = {a, b}
    LastSession = 3
    OnlineProbe = {6}
    OfflineProbe = {7}
    MaxLost = 2
    MaxDuplicated = 1
    MaxDelayed = 0
    MaxAudio = 1
    MaxSpent = 3
PROPERTIES
    LossTolerated
    PresenceSettles
    Calms
INVARIANT SilenceBounded
