SPECIFICATION LiveSpec
CONSTANTS
    MaxSlot = 0
    Files = {}
    NoName = NoName
    FileTypes = {"m64p"}
    AutoInc = FALSE
    Failures = {"write"}
    MaxRequests = 2
    MaxSaves = 1
    MaxStarts = 1
PROPERTIES LoadsAlwaysComplete
CHECK_DEADLOCK FALSE
