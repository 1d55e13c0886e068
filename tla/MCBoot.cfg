SPECIFICATION Spec
CONSTANTS
    PHYS_ADDR_MAX = 16383
    MAX_REGIONS = 3
    SMP_CACHE_BYTES = 16
    UINT_MAX = 511
    CELL = 128
    SZ_4K = 64
    Boots <- MCBoots
INVARIANTS
    VerifiedBlob
    MemoryMap
    CopyPlaced
    DevicesFound
PROPERTIES
    AllocHighest
