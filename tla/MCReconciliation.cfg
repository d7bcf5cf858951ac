SPECIFICATION FairRSpec
CONSTANTS
    Students = {s1}
    Offerings = {o1}
    Keys = {}
    NoKey = NoKey
    NoRow = NoRow
    Workers = {w1, w2}
    Seats <- OneSeat
    Clash <- NoClash
    MaxDrift = 1
    Admins = {a1}
    NoWork = NoWork
    Deltas <- PlusMinus
    MaxVersion = 2
    MaxFlushes = 1
INVARIANTS
    CountWithinCapacity
PROPERTY Converges
