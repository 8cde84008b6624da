CONSTANTS
    Key = {"a"}
    BatchMax = 2
    Request <- Pair
    BodyOf <- PairCarries
    KeyOf <- PairTrace
    NoCalls = {}
    Capacity = 2
    NoItem = NoItem
    MaxPosts = 1
    Batch <- TwoBatches
    Needs <- PairNeeds
    NoBatch = NoBatch
    Inverted = {"a2"}
    HasCpu = {"a1"}
    NoDb = NoDb
    NoRow = NoRow
    Faults = {}
    MaxFaults = 0
    Resumes = TRUE
SPECIFICATION FairSpec
PROPERTIES
    AckedIsRecorded
CHECK_DEADLOCK FALSE
