CONSTANTS
    Key <- TwoKeys
    Batch <- ThreeBatches
    KeyOf <- KeyOfThree
    Needs <- NeedsThree
    NoBatch = NoBatch
    Inverted = {"a2"}
    HasCpu = {"a1"}
    NoDb = NoDb
    NoRow = NoRow
    Faults = {"finalize", "delete"}
    MaxRecords = 2
    MaxFaults = 1
    MaxStored = 1
    BatchMax = 1
SPECIFICATION FairSpec
INVARIANTS
    NoOrphans
PROPERTIES
    EventuallyFinalized
    EventuallyReclaimed
CHECK_DEADLOCK FALSE
