SPECIFICATION Spec
CONSTANTS
    N = 2
    MaxStarts = 1
    NumTracks = 3
    TrackLen = 1
    RepeatAll = FALSE
    Library = {1, 3}
    BadFiles = {3}
    Vgm = {TRUE, FALSE}
    Commands = {"play", "switch", "next", "prev", "seek", "pause", "stop"}
INVARIANTS
    TimestampsValid
    QueuedAudioIsCurrent
CHECK_DEADLOCK FALSE
