CONSTANTS
    Key = {"a"}
    BatchMax = 2
    Request <- Pair
    BodyOf <- PairCarries
    KeyOf <- PairTrace
    NoCalls = {}
    Capacity = 2
    NoItem = NoItem
    MaxPosts = 1
    Batch <- TwoBatches
    Needs <- PairNeeds
    NoBatch = NoBatch
    Inverted = {"a2"}
    HasCpu = {"a1"}
    NoDb = NoDb
    NoRow = NoRow
    Faults = {"crash"}
    MaxFaults = 1
    Resumes = FALSE
SPECIFICATION Spec
INVARIANTS
    KillLosesNothing
CHECK_DEADLOCK FALSE
