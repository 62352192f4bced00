SPECIFICATION Spec
CONSTANTS
    SampleRate = 3
    VGMSampleRate = 2
    FadeLen = 4
    SlowStep = 2
    Buf = 3
    Width = 6
    Files <- MCFiles
    Targets = {0, 4, 8}
    Full = 2
    Tempos = {1, 3}
    MAX_ACTIVE_CHIPS = 3
INVARIANTS
    TypeOK
    ClocksAgree
    CommandsOnTime
    FadeHasBegun
    VoicesOfThisFile
PROPERTIES
    TrackEnds
CHECK_DEADLOCK FALSE
