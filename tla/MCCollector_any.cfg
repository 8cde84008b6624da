CONSTANTS
    Key = {"a"}
    BatchMax = 2
    Request <- Pair
    BodyOf <- PairCarries
    KeyOf <- PairTrace
    NoCalls = {}
    Capacity = 2
    NoItem = NoItem
    MaxPosts = 2
    Batch <- TwoBatches
    Needs <- PairNeeds
    NoBatch = NoBatch
    Inverted = {"a2"}
    HasCpu = {"a1"}
    NoDb = NoDb
    NoRow = NoRow
    Faults = {"io", "disconnect", "crash"}
    MaxFaults = 1
    Resumes = TRUE
SPECIFICATION FairSpec
PROPERTIES
    RequestsAnswered
CHECK_DEADLOCK FALSE
