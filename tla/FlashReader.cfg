CONSTANT Chunk = 2
CONSTANT Chunks = 5
CONSTANT Pfr = 7
SPECIFICATION Spec
INVARIANT
    TypeOK
    ExtentToChunk
    SettingsApart
    BlankIsBlank
PROPERTY
    Terminates
\* The loop ends.
CHECK_DEADLOCK FALSE
