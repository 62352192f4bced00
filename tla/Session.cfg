SPECIFICATION Spec
CONSTANTS
    Readers = {r1, r2}
    Writers = {w1, w2}
    MaxCommands = 5
SYMMETRY Symmetry
INVARIANTS TypeOK StoppedLetsGo PausedIsDismissible PlayingIsForeground
CHECK_DEADLOCK FALSE
