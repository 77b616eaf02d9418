SPECIFICATION Spec
CONSTANTS
    Parts = 1
    Cells = 3
    Values = {"a", "b"}
    Default = "a"
    Faults = TRUE
INVARIANTS
    SavedIsKept
PROPERTIES
    NextSessionFindsIt
