CONSTANTS
    Labels = {}
    Exceptions = {E1}
    PushKinds = {"plain", "finally", "handlers"}
    Features = {"loop", "call", "lifetime"}
    MaxDepth = 3
    MaxBlocks = 4
    MaxGotos = 0
SPECIFICATION Spec
INVARIANTS
    TypeInv
    TransfersCleanUp
    CachesFresh
    LifetimesEnd
