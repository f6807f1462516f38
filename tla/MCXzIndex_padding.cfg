\* Files of one stream with four bytes of padding, no failures.
SPECIFICATION Spec
CONSTANTS
    Files <- PaddedFiles
    IO_BUFFER_SIZE = 12
    Faults <- NoFaults
INVARIANT
    WellFormedParses
CHECK_DEADLOCK FALSE
