\* Every operation, in any order, on two directories of several blocks and the
\* files in them.
SPECIFICATION FsFairSpec
CONSTANTS
    BLOCK_SIZE = 4
    NDIR = 2
    ADDR = 2
    DiskBlocks = 83
    Word = 65536
    File <- Inodes
    Size <- SizeOf
    HasExtents <- ExtentsOf
    Root <- RootOf
    Tree <- Nodes
    IBlock <- IBlockOf
    Pointers <- PointersOf
    BlockOf <- BlocksOf
    Request <- SoundReads
    Kind <- KindOf
    ROOT = "root"
    NoInode = "none"
    Dentries <- DentriesOf
    FAST_LINK = 2
    Below <- BelowOf
    Paths <- SomePaths
    MaxRoom = 3
INVARIANTS
    ReadSoFar
    ReadAll
    FsTypeOK
    BufferIsBlock
    LookupExact
    FsAssertsHold
    ListingExact
    ListingComplete
    LinkRight
PROPERTIES
    CallsEnd
CHECK_DEADLOCK FALSE
