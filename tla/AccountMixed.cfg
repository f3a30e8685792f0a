CONSTANTS
    Sites = {"s1", "s2"}
    Accounts = {"a1", "a2"}
    Inputs <- SmallInputs
    Registered <- SmallRegistered
SPECIFICATION Spec
INVARIANTS
    ActivatesSubmittedAccount
