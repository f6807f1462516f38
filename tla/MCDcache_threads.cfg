SPECIFICATION Spec
CONSTANTS
    d = d  f = f  g = g  x = x
    t1 = t1  t2 = t2
    e1 = e1  e2 = e2  e3 = e3  e4 = e4  e5 = e5
    Root = Root  NULL = NULL
    Thread <- TwoThreads
    Entry <- Entries5
    Name <- AllNames
    Inode <- Inodes
    RootInode = 2
    Child <- Tree
    Paths <- MixedPaths
    Target <- MixedTarget
    LongName <- LongLast
CHECK_DEADLOCK FALSE
SYMMETRY Interchange
INVARIANTS LookupRight CacheSound NoNullSibling
