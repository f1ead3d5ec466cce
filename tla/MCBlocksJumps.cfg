CONSTANTS
    Labels = {L1}
    Exceptions = {E1}
    PushKinds = {"plain", "at_end", "handlers"}
    Features = {"save"}
    MaxDepth = 3
    MaxBlocks = 3
    MaxGotos = 3
SPECIFICATION Spec
INVARIANTS
    TransfersCleanUp
    ForwardRestoresStack
    OpenBranchesAligned
