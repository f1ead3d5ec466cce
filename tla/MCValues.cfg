CONSTANTS
    Addrs = {A1, A2}
    Globals = {G1, G2}
    Locals = {L1}
    AType = AType
    NoEntity = NoEntity
    NoAddr = NoAddr
    MaxValues = 3
    MaxOrder = 3
SPECIFICATION Spec
INVARIANTS
    TypeOK
    NoStaleInfo
    ParamsOfTheLiving
    OrderRefersToLiving
PROPERTIES
    DeletionsEnd
    ImplementsValueInfo
CHECK_DEADLOCK FALSE
