SPECIFICATION Spec
CONSTANTS
    Students = {s1}
    Offerings = {o1}
    Keys = {}
    NoKey = NoKey
    NoRow = NoRow
    Workers = {w1}
    Seats <- OneSeat
    Clash <- NoClash
    MaxDrift = 0
PROPERTY
    SwapAllOrNothing
