CONSTANTS
    Lines <- MCLines
    Triples <- MCTriples
SPECIFICATION Spec
INVARIANT
    RejectionReported
CHECK_DEADLOCK FALSE
