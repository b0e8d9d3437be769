SPECIFICATION Spec
CONSTANTS
    a1 = a1
    a2 = a2
    Clients = {a1, a2}
    MaxRequests = 2
    Window = 2
    MaxTime = 7
CHECK_DEADLOCK FALSE
INVARIANTS
    TypeOK
    WithinLimit
PROPERTIES
    WindowSpec
