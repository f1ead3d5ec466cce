CONSTANTS
    ByteBits = 3
    PtrSizes = {4, 8}
    Starts = {16, 17}
    Bases <- MCBases
    Apple = FALSE
    MaxPad = 2
    Samples <- Limits
SPECIFICATION Spec
INVARIANTS
    ReadsWhatIsMeant
    SizeIsStride
    NoUndefinedShift
PROPERTIES
    ReadingEnds
CHECK_DEADLOCK FALSE
