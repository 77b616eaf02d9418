SPECIFICATION LiveSpec
CONSTANTS
    Half = 32
    CountPerOp = 1
    Capacity = 6
    PowerOnCount = 3
    Devices = {"PI_INT"}
    Delays = {9}
    ViDelay = 23
    NmiDelay = 5
    BlockLength = 2
    Values = {0, 31, 63}
    MaxLate = 22
    Signals = FALSE
    SoftResets = FALSE
INVARIANTS
    CyclicOrder
    OnTime
    DueIsSeen
    NotEarly
    LoadKeepsDeviceOrder
PROPERTY ViKeepsComing
