SPECIFICATION Spec
CONSTANTS
    N = 1
    MaxStarts = 2
    NumTracks = 1
    TrackLen = 1
    RepeatAll = FALSE
    Library = {1}
    BadFiles = {}
    Vgm = {FALSE}
    Commands = {"play", "start", "pause"}
INVARIANTS
    EmptyBuffersCleared
CHECK_DEADLOCK FALSE
