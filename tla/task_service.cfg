SPECIFICATION FairSpec
CONSTANTS
    t1 = t1
    t2 = t2
    t3 = t3
    c1 = c1
    c2 = c2
    Tasks = {t1, t2}
    Convs = {c1, c2}
    Runtimes = {r1, r2}
    NoRuntime = NoRuntime
    ConvOf <- MCConvOf
    MaxConcurrent = 1
    MaxWorkers = 1
    MaxCrashes = 1
CHECK_DEADLOCK FALSE
INVARIANTS
    TypeOK
    RunningIsServed
    SemaphoreConserved
    HandlesExact
PROPERTIES
    TimelyResultKept
    ContractSpec
    EveryServedTaskCloses
    EverySlotReturns
