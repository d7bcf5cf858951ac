SPECIFICATION FairSpec
CONSTANTS
    Calls = {c1, c2, c3}
    Threshold = 2
    Cooldown = 2
    Retries = 1
    Timeout = 1
    Lifetimes = {1, 3, 5}
    Margin = 2
    MaxOutages = 2
INVARIANTS
    TripNeedsFailures
    ShutBounded
PROPERTIES
    TokenFresh
    Recovers
