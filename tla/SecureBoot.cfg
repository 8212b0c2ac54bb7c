CONSTANTS
    CmpaBits <- MC_CmpaBits
    SbeBits <- MC_Sbe
    SealBits <- MC_Seal
    Factory <- MC_Factory
    Signed = {signed}
    Custom = {custom}
    Blank = Blank
    Garbled = Garbled
    NoImage = NoImage
    MaxFaults = 2
    TornPages = FALSE
SPECIFICATION FairSpec
INVARIANT
    TypeOK
    CmpaWritesOnlyClear
    ErasedIsRestorable
    RelockedExactly
    UnlockedExactly
PROPERTY
    RelockConverges
