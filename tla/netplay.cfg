SPECIFICATION LiveSpec
CONSTANTS
    Count = 2
    Own = {0}
    Keys = {k}
    NoKeys = NoKeys
    Target = 0
    MaxReads = 2
INVARIANTS
    Lockstep
    BufferIsAhead
PROPERTIES
    AnswersEndWaits
    TimeEndsWaits
CHECK_DEADLOCK FALSE
