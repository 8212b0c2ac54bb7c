CONSTANTS
    Packets = 3
    MaxCalls = 4
    MaxLate = 2
    LateReads = {}
SPECIFICATION Spec
INVARIANT
    TypeOK
    RepliesAreOwn
    DrainedOnSuccess
PROPERTY
    ImplementsIsp
\* A behaviour ends after MaxCalls commands.
CHECK_DEADLOCK FALSE
