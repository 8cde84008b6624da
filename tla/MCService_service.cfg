CONSTANTS
    Absent = Absent
    NoWalk = NoWalk
    NoEntry = NoEntry
    NoConf = NoConf
    Trace = {"a"}
    Launches <- Operator
    Indexes <- Builds
    Strays <- Backup
    DayNanos = 2
    I64Half = 16
    StartBurst = 2
    Faults = {"io", "kill"}
    MaxFaults = 1
    MaxDays = 2
SPECIFICATION FairSpec
INVARIANTS
    ActiveServes
    RefusedTouchesNothing
    GaugeTellsTheTruth
PROPERTIES
    AnnouncedEndsInOrder
    KeepsTheYoung
    StartSettles
