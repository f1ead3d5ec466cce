CONSTANTS
    Lines <- MCLines
    Triples <- MCTriples
SPECIFICATION Spec
INVARIANTS
    PositionIndependence
    UserFeaturesWin
    NoCodeFromBadModule
    FailuresReported
    SanitizersApplied
CHECK_DEADLOCK FALSE
