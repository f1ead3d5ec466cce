CONSTANTS
    Labels = {}
    Exceptions = {E1, E2}
    PushKinds = {"plain", "at_end", "finally", "handlers", "main"}
    Features = {"call"}
    MaxDepth = 3
    MaxBlocks = 3
    MaxGotos = 0
SPECIFICATION Spec
SYMMETRY Symmetry
INVARIANTS
    PadsEmitted
    PopUnwindsOutward
    ExceptionsUnwind
