SPECIFICATION Spec
CONSTANTS
    Rate = 3
    Ticks = 2
    Buf = 3
    buf_size = 2
    InitialMax = 4
    SilenceMax = 12
    Lookahead = 3
    FadeBlock = 2
    fade_shift = 2
    FadeStep = 2
    Unit = 8
    Width = 8
    TempoFade = 100
    Tracks <- MCTracks
    Targets = {0, 5, 14}
INVARIANTS
    FadeWaitsForItsTime
CHECK_DEADLOCK FALSE
