SPECIFICATION Spec
CONSTANTS
    Students = {s1, s2}
    Offerings = {o1}
    Keys = {k1}
    NoKey = NoKey
    NoRow = NoRow
    Workers = {w1, w2, w3}
    Seats <- OneSeat
    Clash <- NoClash
    MaxDrift = 1
SYMMETRY Symmetry
INVARIANTS
    TypeOK
    TransactionsExclude
    NoOversell
    CountMatchesRoster
    StockLedger
    KeyBuysOneSeat
    OutboxTellsHistory
PROPERTY
    ImplementsSeatBook
