SPECIFICATION Spec
CONSTANTS
    N = 3
    Hybrid = TRUE
    ParentStalls = TRUE
INVARIANTS BoundedBypass
PROPERTIES EveryRequestServed
