SPECIFICATION Spec
CONSTANTS
    Loops <- MCLoops
    Settings <- MCSettings
INVARIANTS
    ScheduleRepeats
    LoadsSeeStores
    BookkeepingAgrees
    AssertionsHold
PROPERTIES
    SchedulingEnds
