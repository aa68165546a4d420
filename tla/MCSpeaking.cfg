SPECIFICATION Spec
CONSTANTS
    Callers = {a, b}
    StreamHold = 2
    OsdHold = 3
    MaxCores = 2
    MaxVoice = 2
INVARIANT SpeakersShown
