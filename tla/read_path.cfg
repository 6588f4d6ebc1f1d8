SPECIFICATION PathSpec
CONSTANTS
    N = 2
    Hybrid = FALSE
    ParallelPorts = {1}
INVARIANTS ParallelLoadsCorrect MasterLoneLoadsCorrect
