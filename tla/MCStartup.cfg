SPECIFICATION Spec
CONSTANTS
    d1 = d1
    d2 = d2
    a1 = a1
    Daemons = {d1, d2}
    Clients = {a1}
    Hosts = {"unset", "localhost", "display"}
    Settings <- SomeSettings
    CommandLines <- ByHand
    SpawnFds = {4, 5}
    Attempts = 2
    MaxKills = 1
INVARIANTS
    TypeOK
    NothingLeft
    
PROPERTIES
    
    DaemonsSettle
CHECK_DEADLOCK FALSE
