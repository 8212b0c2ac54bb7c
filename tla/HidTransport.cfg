CONSTANTS
    Keys = {key1, key2}
    Paths = {path1, path2, path3}
    None = None
    MaxFaults = 2
    MaxUnplugs = 3
SPECIFICATION FairSpec
INVARIANT
    TypeOK
    SameDevice
PROPERTY
    ComesBack
