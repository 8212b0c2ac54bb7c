CONSTANTS
    Packets = 2
    MaxCalls = 3
    MaxLate = 1
    LateReads = {"drain"}
SPECIFICATION Spec
INVARIANT
    ReturnedWasDone
CHECK_DEADLOCK FALSE
