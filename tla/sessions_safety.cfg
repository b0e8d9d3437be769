SPECIFICATION Spec
CONSTANTS
    t1 = t1
    t2 = t2
    t3 = t3
    c1 = c1
    c2 = c2
    r1 = r1
    r2 = r2
    s1 = s1
    s2 = s2
    s3 = s3
    s4 = s4
    s5 = s5
    s6 = s6
    None = None
    Tasks = {t1, t2, t3}
    Convs = {c1, c2}
    Runtimes = {r1, r2}
    Sessions = {s1, s2, s3}
    ConvOf <- MCConvOf
SYMMETRY Symmetry
CHECK_DEADLOCK FALSE
INVARIANTS
    TypeOK
    AtMostTwoDeliveries
    LinkedWhenUsed
    StoredWhenAlone
    SessionsIsolated
PROPERTIES
    SessionKept
