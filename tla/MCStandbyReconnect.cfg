\* SIGUSR1 while on standby.
SPECIFICATION Spec
CONSTANTS
    c1 = c1
    Clients = {c1}
    Offers <- Every
    SecsChoices <- OffOrOne
    MaxPlaying = 1
INVARIANTS
    StandbyFreesAlways
CHECK_DEADLOCK FALSE
