SPECIFICATION FairProcSpec
CONSTANTS
    Aggregates = {a1, a2}
    Publishers = {worker}
    a1 = a1
    a2 = a2
    Sent <- Three
    Apis = {api}
    NoEvent = NoEvent
    Batch = 2
    MaxDeaths = 1
    MaxRestarts = 1
INVARIANTS
    PublishedWasAccepted
    AcceptedInOrder
    DuplicatesNeedDeaths
    UpOnWholeSchema
PROPERTIES
    EveryEventSettles
    EveryProcessComesUp
CHECK_DEADLOCK FALSE
