SPECIFICATION LiveSpec
CONSTANTS
    Dismiss = Dismiss
    Works = {w1, w2, w3}
    Threads = {t1, t2}
INVARIANTS
    NoWorkSleeps
PROPERTIES
    KeepsPromise
    QueuedIsDone
    ShutdownReturns
CHECK_DEADLOCK FALSE
