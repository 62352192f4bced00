SPECIFICATION Spec
CONSTANTS
    N = 2
    MaxStarts = 1
    NumTracks = 1
    TrackLen = 2
    RepeatAll = FALSE
    Library = {1}
    BadFiles = {}
    Vgm = {FALSE}
    Commands = {"play", "switch", "seek", "leave"}
PROPERTIES
    DrainCompletes
CHECK_DEADLOCK FALSE
