SPECIFICATION Spec
CONSTANTS
    c1 = c1
    c2 = c2
    c3 = c3
    k1 = k1
    k2 = k2
    Clients = {c1, c2, c3}
    Keys = {k1, k2}
    Scrambled = Scrambled
    Zero = Zero
    NoOwner = NoOwner
INVARIANTS
    TypeOK
    UnownedServesNobody
    OnlyOwnerUntilOpened
PROPERTIES
    OwnerStays
    ImplementsAccessControl
