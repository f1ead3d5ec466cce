CONSTANTS
    Functions <- MCFunctions
    Bits = 3
SPECIFICATION Spec
INVARIANTS
    MeaningKept
    PhisEliminated
    JumpsFollowed
PROPERTIES
    TransformEnds
CHECK_DEADLOCK FALSE
