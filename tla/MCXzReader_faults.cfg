\* Every failure, those read_block reports as success included.  A killed
\* process may stop.
SPECIFICATION FairSpec
CONSTANTS
    Blocks <- ThreeBlocks
    BlockStart <- ThreeStarts
    BlockSize <- ThreeSizes
    ImageSize <- ThreeSize
    MAX_NUM_BLOCKS_CACHE = 2
    Entry = {e1, e2}
    Buffer = {d1, d2, d3}
    NULL = NULL
    Free = Free
    MaxLen = 3
    Faults <- AllFaults
INVARIANTS
    ReadComplete
PROPERTY
    OperationsEnd
CHECK_DEADLOCK FALSE
