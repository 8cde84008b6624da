CONSTANTS
    Key <- OneKey
    Batch <- TwoBatches
    KeyOf <- KeyOfTwo
    Needs <- NeedsTwo
    NoBatch = NoBatch
    Inverted = {"a2"}
    HasCpu = {"a1"}
    NoDb = NoDb
    NoRow = NoRow
    Faults = {"record", "finalize", "delete", "crash"}
    MaxRecords = 4
    MaxFaults = 2
    MaxStored = 1
    BatchMax = 1
SPECIFICATION Spec
INVARIANTS
    TypeOK
    ConnsHaveFiles
    FinalizedIsReconciled
    IndexNeverOvercounts
    IndexAgrees
PROPERTIES
    CleanMeansDrained
CHECK_DEADLOCK FALSE
