SPECIFICATION Spec
CONSTANTS
    p1 = p1 p2 = p2 p3 = p3
    t1 = t1 t2 = t2 t3 = t3
    g1 = g1 g2 = g2 a1 = a1 a2 = a2
    None = None
    Walk <- MCWalk
    Contents <- MCContents
    MultiTrack = {p3}
    MaxTracks = 5
    MaxScans = 3
    MaxEdits = 3
    MaxKills = 1
INVARIANTS TypeOK LinksAgree LibraryComplete UpToDate OneEntryUnlessKilled
CHECK_DEADLOCK FALSE
