SPECIFICATION Spec
CONSTANTS
    Parts = 2
    Cells = 2
    Values = {"a", "b"}
    Default = "a"
    Faults = FALSE
INVARIANTS
    SavedIsKept
