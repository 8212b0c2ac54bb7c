CONSTANTS
    CmpaBits <- MC_CmpaBits
    SbeBits <- MC_Sbe
    SealBits <- MC_Seal
    Factory <- MC_Factory
    Signed = {signed}
    Custom = {custom}
    Blank = Blank
    Garbled = Garbled
    NoImage = NoImage
    MaxFaults = 1
    TornPages = FALSE
SPECIFICATION Spec
PROPERTY
    MissesNoDevice
