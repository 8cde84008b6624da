CONSTANTS
    Key <- KindKeys
    BatchMax = 1
    Request <- Kinds
    BodyOf <- KindCarries
    KeyOf <- KindKey
    TraceOf <- KindTrace
    NoToken <- KindStrangers
    WrongType <- KindStrangers
    TooLarge = {"large"}
    NoMeta = {}
    OtherSchema <- KindSchema
    NoCalls <- KindNoCalls
    Capacity = 2
    NoItem = NoItem
    Faults = {"io", "read", "disconnect", "clean", "crash"}
    MaxFaults = 1
    MaxPosts = 1
SPECIFICATION Spec
INVARIANTS
    ChannelBounded
    AckedIsOnDisk
    RefusedLeavesNothing
    PartialsAccounted
    TracesApart
PROPERTIES
    CommittedFilesStay
    BackpressureIsForeseen
CHECK_DEADLOCK FALSE
