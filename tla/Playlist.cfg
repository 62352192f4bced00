SPECIFICATION Spec
CONSTANTS
    t1 = t1
    t2 = t2
    Tracks <- MCTracks
    Lists <- MCLists
    Null = Null
INVARIANTS
    TypeOK
    PositionFollowsTrack
    OnlyRemovalOrRaceCrashes
PROPERTIES
    RepeatAllPlaysEverything
    RepeatOffFinishes
CHECK_DEADLOCK FALSE
