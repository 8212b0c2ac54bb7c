SPECIFICATION Spec
CONSTANTS
    a = a
    b = b
    Pins <- MCPins
    None = None
    MaxTries = 8
    MaxStreak = 3
    Permissions = 2
    MaxFaults = 2
    MaxForeign = 2
INVARIANTS TypeOK CachedIsCurrent TriesBudget
PROPERTY Serves
