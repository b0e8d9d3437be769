SPECIFICATION Spec
CONSTANTS
    w1 = w1
    w2 = w2
    Threads = {w1}
    NoThread = NoThread
    MaxManaged = 1
    NumPorts = 2
    MaxSpawns = 2
    MaxCrashes = 0
    MaxFaults = 0
CHECK_DEADLOCK FALSE
PROPERTIES
    StaleNotAcquired
