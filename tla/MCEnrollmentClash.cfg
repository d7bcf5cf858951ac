SPECIFICATION Spec
CONSTANTS
    Students = {s1}
    Offerings = {o1, o2}
    Keys = {}
    NoKey = NoKey
    NoRow = NoRow
    Workers = {w1, w2}
    Seats <- OneSeat
    Clash <- AllClash
    MaxDrift = 0
INVARIANT
    NoClashingEnrollments
