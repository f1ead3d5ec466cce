SPECIFICATION OutputSpec
CONSTANTS
    Terminators = {"ret", "br", "cond"}
    MaxBlocks = 4
    MaxReturns = 1
    MaxCases = 0
    MaxSourceLine = 1
    Earlier = 0
    BareUnreachable = FALSE
    MaxDepth = 1
INVARIANTS
    ElsesLead
    MeaningKept
    GotosResolved
    OutputKept
CHECK_DEADLOCK FALSE
