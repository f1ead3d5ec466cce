SPECIFICATION OutputSpec
CONSTANTS
    Terminators = {"ret", "switch", "unreachable"}
    MaxBlocks = 3
    MaxReturns = 2
    MaxCases = 2
    MaxSourceLine = 2
    Earlier = 1
    BareUnreachable = FALSE
    MaxDepth = 2
INVARIANTS
    UsesCounted
    MeaningKept
    OutputKept
CHECK_DEADLOCK FALSE
