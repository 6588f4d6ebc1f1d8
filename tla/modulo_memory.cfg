SPECIFICATION Spec
CONSTANTS
    Loops <- ArrayAccess
    Settings <- MCSettings
INVARIANTS
    MemoryInOrder
