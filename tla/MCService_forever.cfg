CONSTANTS
    Absent = Absent
    NoWalk = NoWalk
    NoEntry = NoEntry
    NoConf = NoConf
    Trace = {"a"}
    Launches <- Forever
    Indexes <- Empty
    Strays = {}
    DayNanos = 2
    I64Half = 16
    StartBurst = 1
    Faults = {}
    MaxFaults = 0
    MaxDays = 1
SPECIFICATION Spec
PROPERTIES
    KeepsTheYoung
CHECK_DEADLOCK FALSE
