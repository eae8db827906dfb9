SPECIFICATION Spec
CONSTANTS
    Threads = {t1, t2, t3}
    NoThread = NoThread
    UINT64_MAX = 4
    MaxBlk = 2
    Kinds = {"read", "write", "append", "freesp"}
    MaxOps = 1
SYMMETRY ThreadSymmetry
INVARIANTS
    TreeIsExact
    WritersExclude
    WritersSeeTheFile
PROPERTIES
    FreespResizesAlone
