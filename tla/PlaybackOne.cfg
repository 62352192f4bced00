SPECIFICATION Spec
CONSTANTS
    N = 2
    MaxStarts = 1
    NumTracks = 2
    TrackLen = 2
    RepeatAll = FALSE
    Library = {1, 2}
    BadFiles = {}
    Vgm = {FALSE}
    Commands = {"start", "play", "switch", "next", "pause", "stop", "leave"}
INVARIANTS
    TypeOK
    BuffersCirculate
PROPERTIES
    ThreadsEnd
    PlaybackEnds
CHECK_DEADLOCK FALSE
