SPECIFICATION FairSpec
CONSTANTS
    Aggregates = {a1}
    Publishers = {p1}
    NoEvent = NoEvent
    Batch = 1
    MaxDeaths = 0
CHECK_DEADLOCK FALSE
PROPERTY
    AtLeastOnce
