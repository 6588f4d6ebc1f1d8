SPECIFICATION Spec
CONSTANTS
    N = 3
    Hybrid = FALSE
    Locks = {0}
INVARIANTS MutualExclusion NoLostLock PollHearsController
PROPERTIES ImplementsMutex TwoThreadsServed
