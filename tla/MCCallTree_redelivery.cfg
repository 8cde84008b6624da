CONSTANTS
    CallId <- FiveCalls
    FnId <- Functions2
    Top = 0
    Parent <- Parents
    Fn <- Fns
    Wall <- Walls
    Depth <- RecorderDepths
    Batches <- SmallBatches
    Unmapped = Unmapped
    MaxDeliveries = 2
SPECIFICATION Spec
INVARIANTS
    RedeliveryAddsNothing
