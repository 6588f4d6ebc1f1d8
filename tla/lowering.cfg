SPECIFICATION LoweringSpec
CONSTANTS
    PthreadMutexes = {1, 2}
    MaxSites = 6
    MaxHeld = 2
INVARIANTS MutexNumbersAgree AddressesSelectCores LoadsAfterLockVolatile
CHECK_DEADLOCK FALSE
