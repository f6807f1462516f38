\* References as long as the window, the file in small chunks.
SPECIFICATION Spec
CONSTANTS
    SPAN = 5
    WINDOW_SIZE = 4
    Total <- Bytes20
    NumBlocks = 7
    End <- EndOf
    EndBit <- EndBitOf
    ByteBit <- ByteBitOf
    MaxLen = 3
    Instances <- WindowInstances
INVARIANT
    ReadCorrect
CHECK_DEADLOCK FALSE
