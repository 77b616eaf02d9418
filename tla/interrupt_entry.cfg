SPECIFICATION LiveSpec
CONSTANTS
   Length = 4
   Lines = {"VI", "SP"}
   SignalLines = {}
   Capacity = 3
   SlotFaults = TRUE
   SlotWrites = {}
   Tasks = {"other"}
   Jobs = {"reset"}
INVARIANTS
   CauseFollowsMi
   Resumes
   SkipIsSpent
PROPERTIES
   PendingIsTaken
