SPECIFICATION LiveSpec
CONSTANTS
    MaxSlot = 1
    Files = {100}
    NoName = NoName
    FileTypes = {"m64p", "zip"}
    AutoInc = TRUE
    Failures = {"open", "write"}
    MaxRequests = 3
    MaxSaves = 2
    MaxStarts = 1
INVARIANTS LoadsAreWhole LastSaveStands LockOutlivesUse
PROPERTIES SlotStaysLoadable LoadsComplete
CHECK_DEADLOCK FALSE
