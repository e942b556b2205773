SPECIFICATION FairSpec
CONSTANTS
    c1 = c1
    c2 = c2
    Clients = {c1, c2}
    Offers <- OneStreams
    SecsChoices <- OffOrZero
    MaxPlaying = 1
PROPERTIES
    
    GoesToStandby
    WakesUp
    Terminates
CHECK_DEADLOCK FALSE
