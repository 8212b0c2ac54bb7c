SPECIFICATION Spec
CONSTANTS
    p = p
    a = a
    b = b
    FilePaths <- MCFilePaths
    Chunks <- MCChunks
    Contents <- MCContents
    NameCap = 2
    DataCap = 2
    MaxFaults = 2
    MaxUses = 2
    None = None
INVARIANTS TypeOK WritesGiven SendsToSelected WholeReply
PROPERTY WriteConverges
