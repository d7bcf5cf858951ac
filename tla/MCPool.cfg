SPECIFICATION FairPSpec
CONSTANTS
    Students = {s1, s2}
    Offerings = {o1, o2}
    Keys = {}
    NoKey = NoKey
    NoRow = NoRow
    Workers = {w1, w2}
    Seats <- OneSeat
    Clash <- NoClash
    MaxDrift = 0
    PoolSizes = {1, 2}
    Seeks <- Contended
    s1 = s1
    s2 = s2
    o1 = o1
    o2 = o2
    Swaps <- OwnSwaps
INVARIANTS
    ConnectionsOnlyForPostgres
PROPERTY
    EveryRequestReturns
