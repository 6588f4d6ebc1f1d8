SPECIFICATION Spec
CONSTANTS
    NodeIds = {n1, n2, n3, n4, n5}
    free_onchip_blk = free_onchip_blk
    free_ddr_blk = free_ddr_blk
    NULL = NULL
    ONCHIP_TAG_MASK = 16
    ONCHIP_HEAP_SIZE = 8
    DDR_HEAP_SIZE = 32
    Sizes = {1, 9}
    MaxHostFailures = 1
INVARIANTS TypeOK AllocationsDisjoint AllocationsInServingHeap FreeRingsExact EverythingFreedIsOneBlock
PROPERTIES MallocReturns ImplementsAllocator
