CONSTANTS
    CallId <- FiveCalls
    FnId <- Functions2
    Top = 0
    Parent <- Parents
    Fn <- Fns
    Wall <- Walls
    Depth <- RecorderDepths
    Batches <- SmallBatches
    Unmapped = Unmapped
    MaxDeliveries = 3
SPECIFICATION FairSpec
INVARIANTS
    TypeOK
    OneHome
    PlacedUnderCaller
    NothingResolvableWaits
    BucketsAddUp
    InvertedOnce
    DeltasExact
    NothingLost
    SelfTimeExplained
    DepthWithinOne
PROPERTIES
    TreeOnlyGrows
    ImplementsTraceTree
    TransactionEnds
