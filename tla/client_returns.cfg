SPECIFICATION FairSpec
CONSTANTS
    t1 = t1
    t2 = t2
    Tasks = {t1, t2}
CHECK_DEADLOCK FALSE
INVARIANTS
    TypeOK
    ReturnedIsClosed
PROPERTIES
    ClientReturns
