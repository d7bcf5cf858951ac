SPECIFICATION LSpec
CONSTANTS
    Students = {s1, s2}
    Offerings = {o1, o2}
    Keys = {}
    NoKey = NoKey
    NoRow = NoRow
    Workers = {w1}
    Seats <- OneSeat
    Clash <- NoClash
    MaxDrift = 0
    Runs = {r1, r2}
    NoRun = NoRun
    Intents <- AllIntents
    Sought = o1
    Asked <- OneCourse
    Batch = 2
    Shards = 2
    ShardOf <- FirstShard
SYMMETRY Symmetry
INVARIANTS
    CountMatchesRoster
    ReportIsTrue
    LosersMetFullCourse
PROPERTIES
    ImplementsLotteryBook
