SPECIFICATION FairSpec
CONSTANTS
    c1 = c1
    c2 = c2
    Clients = {c1, c2}
    Lengths = {3}
    Funcs = {"PLAY"}
    BufLen = 2
    MaxSample = 2
    MaxAgain = 1
    MaxPlayer = 2
    MaxReset = 1
INVARIANTS
    TypeOK
    RefCountExact
    PlayingExact
    ParentAlive
    DeferredHasPlayer
    CursorsInBounds
PROPERTIES
    NonLoopEnds
CHECK_DEADLOCK FALSE
