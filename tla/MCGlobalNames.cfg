CONSTANTS
    Names <- MCNames
    Entities <- MCEntities
    NameOf <- MCNameOf
    Builtins <- MCBuiltins
    Registered <- MCRegistered
    Definable <- MCDefinable
    DeclsOnly = FALSE
SPECIFICATION Spec
INVARIANTS
    SameNameSameFunction
    CallsResolve
    OnlyDeclarationsMerged
PROPERTIES
    ModuleCompleted
CHECK_DEADLOCK FALSE
