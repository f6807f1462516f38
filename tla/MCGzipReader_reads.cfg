\* Two instances: the file in small chunks, so that reads in any order build
\* the index piece by piece; and a truncated file in one chunk, references as
\* long as the window, with read and data errors.
SPECIFICATION FairSpec
CONSTANTS
    SPAN = 5
    WINDOW_SIZE = 4
    Total <- Bytes20
    NumBlocks = 7
    End <- EndOf
    EndBit <- EndBitOf
    ByteBit <- ByteBitOf
    MaxLen = 3
    Instances <- SomeInstances
INVARIANTS
    TypeOK
    IndexAsInOnePass
    PointsRestart
    SkipBounded
    ReadCorrectInOneChunk
PROPERTY
    ReadsEnd
CHECK_DEADLOCK FALSE
