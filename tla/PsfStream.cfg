SPECIFICATION Spec
CONSTANTS
    Rate = 3
    Second = 2
    FadeTime = 4
    Buf = 2
    Width = 5
    Tags = {0, 7}
    DefaultLength = 2
    Libraries = {"psf", "usf"}
    Blocks = {1, 3}
    Failures = {"load", "array", "render"}
    Commands = {"skip", "seek", "pause", "stop"}
INVARIANTS
    TypeOK
    MemorySafeInPlainUse
    BuffersFollowTheClock
PROPERTIES
    AudioNeverRepeats
    FadeNeverRises
    SeekLands
    TrackEnds
CHECK_DEADLOCK FALSE
