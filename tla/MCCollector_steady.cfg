CONSTANTS
    Key = {"a", "b"}
    BatchMax = 2
    Request <- Trio
    BodyOf <- TrioCarries
    KeyOf <- TrioTrace
    NoCalls = {}
    Capacity = 2
    NoItem = NoItem
    MaxPosts = 1
    Batch <- ThreeBatches
    Needs <- TrioNeeds
    NoBatch = NoBatch
    Inverted = {"a2"}
    HasCpu = {"a1"}
    NoDb = NoDb
    NoRow = NoRow
    Faults = {"io"}
    MaxFaults = 1
    Resumes = FALSE
SPECIFICATION FairSpec
PROPERTIES
    DecoderReadsWhatWasSent
    CleaningSparesTheUnread
    AckedIsRecorded
CHECK_DEADLOCK FALSE
