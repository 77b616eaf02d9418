SPECIFICATION Spec
CONSTANTS
    Half = 8
    CountPerOp = 1
    Capacity = 4
    PowerOnCount = 3
    Devices = {"PI_INT"}
    Delays = {3}
    ViDelay = 5
    NmiDelay = 6
    BlockLength = 2
    Values = {5}
    MaxLate = 3
    Signals = TRUE
    SoftResets = TRUE
INVARIANTS
    TypeOK
    TimerAndWrapScheduled
    HeadCached
