SPECIFICATION Spec
CONSTANTS
    Threads = {t1, t2, t3}
    NumFcts = 1
    NumAccelerated = 2
    NumArgs = 2
    ClientTotal = 1
    MaxCalls = 3
INVARIANTS ResultOfOwnCall SchedulerExact NoLostWakeup
PROPERTY AllCallsReturn
CHECK_DEADLOCK FALSE
