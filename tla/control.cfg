SPECIFICATION LiveSpec
CONSTANTS
    Commands = {"pause", "resume", "stop", "advance", "close"}
    HotKeys = {"pause", "stop", "advance"}
INVARIANTS
    ShownAgrees
PROPERTIES
    StopStops
    PauseTakesHold
