CONSTANTS
    Key = {"a"}
    BatchMax = 3
    Request <- Pair
    BodyOf <- PairCarries
    KeyOf <- PairTrace
    TraceOf <- PairTrace
    NoToken = {}
    WrongType = {}
    TooLarge = {}
    NoMeta = {}
    OtherSchema = {}
    NoCalls = {}
    Capacity = 2
    NoItem = NoItem
    Faults = {"disconnect"}
    MaxFaults = 1
    MaxPosts = 1
SPECIFICATION Spec
PROPERTIES
    FilesAreNeverReplaced
CHECK_DEADLOCK FALSE
