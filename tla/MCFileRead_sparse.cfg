SPECIFICATION Spec
CONSTANTS
    BLOCK_SIZE = 2
    NDIR = 2
    ADDR = 2
    DiskBlocks = 71
    Word = 65536
    File <- Files
    Size <- Sizes
    HasExtents <- WithExtents
    Root <- Roots
    Tree <- Nodes
    IBlock <- IBlocks
    Pointers <- PointerBlocks
    BlockOf <- Blocks
    Request <- SparseReads
INVARIANT ReadSoFar
