SPECIFICATION Spec
CONSTANTS
    Users = {u1, u2}
    Serial = {u1}
    Handlers = {h1, h2}
    NoUser = NoUser
    Admitters = {a1}
    Rates = {1, 2}
    PerTick = 2
    MaxEntries = 3
    MaxCuts = 1
CHECK_DEADLOCK FALSE
INVARIANTS
    OneUse
    AdmittedInOrder
    LostIsPending
