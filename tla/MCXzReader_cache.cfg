\* A cache of three blocks for a file of four, every handled failure.
SPECIFICATION Spec
CONSTANTS
    Blocks <- FourBlocks
    BlockStart <- FourStarts
    BlockSize <- FourSizes
    ImageSize <- FourSize
    MAX_NUM_BLOCKS_CACHE = 3
    Entry = {e1, e2, e3}
    Buffer = {d1, d2, d3, d4}
    NULL = NULL
    Free = Free
    MaxLen = 4
    Faults <- HandledFaults
SYMMETRY Addresses
INVARIANTS
    ListWellFormed
    CacheCoherent
    NoLeak
    ReadCorrect
PROPERTY
    LruRefinement
