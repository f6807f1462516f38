\* Every file, with and without failures of pread and liblzma.
SPECIFICATION FairSpec
CONSTANTS
    Files <- AllFiles
    IO_BUFFER_SIZE = 12
    Faults <- AllFaults
INVARIANTS
    TypeOK
    IndexIsFile
    AcceptsExactly
    EndedOnce
    OnlyProbeLeaks
PROPERTY
    OpeningEnds
CHECK_DEADLOCK FALSE
