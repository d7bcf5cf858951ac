SPECIFICATION FairSpec
CONSTANTS
    s1 = s1
    o1 = o1
    o2 = o2
    o3 = o3
    r1 = r1
    h1 = h1
    h2 = h2
    n1 = n1
    n2 = n2
    Students = {s1}
    Offerings = {o1, o2, o3}
    Names = {n1, n2}
    Filters <- MCFilters
    Handlers = {h1, h2}
    MaxConcurrency = 1
    Recs = {r1}
    Owner <- MCOwner
    Picks <- MCPicks
    Mixes <- MCMixes
    Seats <- MCSeats
    Code <- MCCode
    PageSize = 1
INVARIANTS
    SlotsAccounted
    MarkedIsComplete
    ClaimedOnce
    WalkMissesNothing
PROPERTY
    WaitersServed
