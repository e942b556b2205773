\* SIGHUP while a sample is playing.
SPECIFICATION Spec
CONSTANTS
    c1 = c1
    Clients = {c1}
    Lengths = {3}
    Funcs = {"PLAY"}
    BufLen = 2
    MaxSample = 1
    MaxAgain = 1
    MaxPlayer = 1
    MaxReset = 1
INVARIANTS
    CleanDeletion
CHECK_DEADLOCK FALSE
