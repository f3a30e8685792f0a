CONSTANTS
    Procs = {p1, p2}
    Ids = {i1, i2}
SPECIFICATION IdFairSpec
INVARIANTS
    IdentityInv
    OneIdentity
    CreatedIsForever
PROPERTIES
    NeverRotated
    CallReturns
