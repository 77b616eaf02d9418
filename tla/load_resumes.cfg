SPECIFICATION Spec
CONSTANTS
    Length = 2
    Lines = {}
    SignalLines = {}
    Capacity = 1
    SlotFaults = FALSE
    SlotWrites = {"status"}
    Tasks = {"other"}
    Jobs = {"load", "save"}
PROPERTIES
    LoadResumes
