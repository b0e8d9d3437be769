SPECIFICATION FairSpec
CONSTANTS
    w1 = w1
    w2 = w2
    Threads = {w1, w2}
    NoThread = NoThread
    MaxManaged = 2
    NumPorts = 2
    MaxSpawns = 3
    MaxCrashes = 1
    MaxFaults = 1
CHECK_DEADLOCK FALSE
INVARIANTS
    TypeOK
    AtMostMaxReady
    StoppedIsKilled
    ForgottenBounded
PROPERTIES
    PoolSpec
    LockReleased
