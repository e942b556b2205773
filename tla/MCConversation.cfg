CONSTANTS
    IntSize = 2
    KeySize = 1
    NameSize = 1
    DataSize = 2
    Used <- SomeCalls
    Mistaken <- SomeMistakes
    MaxCalls = 3
    MaxGarbled = 1
SPECIFICATION Spec
INVARIANTS
    TypeOK
    Aligned
    Matched
PROPERTY CallReturns
CHECK_DEADLOCK FALSE
