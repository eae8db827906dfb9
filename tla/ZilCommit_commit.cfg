SPECIFICATION Spec
CONSTANTS
    t1 = t1
    t2 = t2
    t3 = t3
    o1 = o1
    Threads = {t1, t2, t3}
    Objs = {o1}
    NoObj = NoObj
    Workloads <- Both
    TXG_SIZE = 3
    TXG_CONCURRENT_STATES = 2
SYMMETRY ThreadSymmetry
CHECK_DEADLOCK FALSE
INVARIANTS
    CommittedIsStable
    LoggedOnce
    ObjectsReplay
    WaitersAreServed
