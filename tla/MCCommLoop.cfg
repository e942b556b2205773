SPECIFICATION FairSpec
CONSTANTS
    c1 = c1
    c2 = c2
    Clients = {c1, c2}
    Offers <- Every
    SecsChoices <- OffOrOne
    MaxPlaying = 1
INVARIANTS
    TypeOK
    AutoIsStandby
    StandbyFreesDevice
    RecordIffRecorders
    PausedIsQuiet
PROPERTIES
    ForcedUntilResume
CHECK_DEADLOCK FALSE
