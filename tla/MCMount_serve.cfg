\* Two threads, every image, every failure.  The process ends.
SPECIFICATION FairSpec
CONSTANTS
    t1 = t1  t2 = t2
    Thread <- TwoThreads
    Main = Main
    NULL = NULL
    Word = 65536
    Images <- AllImages
    Faults <- AllFaults
INVARIANTS
    TypeOK
    ReaderFits
    ReadRight
    UseAfterCloseOnlyInCrash
    OnlyPartialGroupAborts
PROPERTIES
    WaitsEnd
CHECK_DEADLOCK FALSE
