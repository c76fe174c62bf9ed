\* 48 bytes above the pool start: 12 blocks of 4 bytes, of which the first
\* computation gives 5 to descriptors, and 7 are left to allocate.
CONSTANTS
    POOL_START = 8
    MEM_BLK_SIZE = 4
    DESC_SIZE = 2
    MemSize = 56
    Requests = {0, 3, 4, 5, 12, 24}
    Garbage = {0, 7}
SPECIFICATION Spec
INVARIANTS TypeOK CountersMatchTable RunsTileTable ScanFindsFirstFit
PROPERTY PoolSpec
