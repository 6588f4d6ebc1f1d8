SPECIFICATION Spec
CONSTANTS
    N = 11
    Hybrid = FALSE
    Participants = {1, 6}
    MaxWaits = 2
    OthersMayPause = FALSE
PROPERTY EveryoneLeaves
CHECK_DEADLOCK FALSE
