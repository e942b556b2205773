\* The owner asks for standby while on autostandby.
SPECIFICATION Spec
CONSTANTS
    c1 = c1
    Clients = {c1}
    Offers <- Every
    SecsChoices <- OffOrOne
    MaxPlaying = 1
INVARIANTS
    StandbyUntilResumed
CHECK_DEADLOCK FALSE
