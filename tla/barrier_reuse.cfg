SPECIFICATION Spec
CONSTANTS
    N = 4
    Hybrid = FALSE
    Participants = {1, 2, 3}
    MaxWaits = 2
    OthersMayPause = TRUE
INVARIANTS NoEarlyExit NobodyOvertaken
PROPERTY EveryoneLeaves
CHECK_DEADLOCK FALSE
