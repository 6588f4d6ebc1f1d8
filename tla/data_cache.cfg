SPECIFICATION MCSpec
CONSTANTS
    NumTags = 2
    CACHE_LINES = 2
    BLOCK_SIZE = 2
    Lanes = {0, 1}
    Bytes = {0, 1}
    MaxWrites = 1
    MaxCut = 1
INVARIANTS
    ValidLinesMatchMemory
    BurstInStep
PROPERTIES
    ImplementsWordMemory
    RequestsFinish
