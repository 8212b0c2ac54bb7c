SPECIFICATION Spec
CONSTANTS
    k1 = k1
    k2 = k2
    p1 = p1
    p2 = p2
    Keys <- MCKeys
    Readers <- MCReaders
    Paths <- MCPaths
    MaxMoves = 2
    MaxFaults = 1
INVARIANTS TypeOK ViewIsSnapshot NoFalseAlarm
PROPERTY ViewConverges
