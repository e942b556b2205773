\* A looping sample whose end meets the end of the player's buffer.
SPECIFICATION Spec
CONSTANTS
    c1 = c1
    Clients = {c1}
    Lengths = {2, 3}
    Funcs = {"PLAY"}
    BufLen = 2
    MaxSample = 1
    MaxAgain = 1
    MaxPlayer = 1
    MaxReset = 0
PROPERTIES
    LoopGoesOn
CHECK_DEADLOCK FALSE
