CONSTANTS
    Labels = {}
    Exceptions = {E1}
    PushKinds = {"plain", "at_end", "finally"}
    Features = {"call"}
    MaxDepth = 3
    MaxBlocks = 3
    MaxGotos = 0
SPECIFICATION Spec
INVARIANTS
    FinallyOnAbnormalExit
