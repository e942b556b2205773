\* The last client leaves while its sample plays, autostandby off.
SPECIFICATION Spec
CONSTANTS
    c1 = c1
    Clients = {c1}
    Offers <- Every
    SecsChoices <- Off
    MaxPlaying = 1
INVARIANTS
    TerminatesAfterSamples
CHECK_DEADLOCK FALSE
