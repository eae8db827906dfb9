SPECIFICATION Spec
CONSTANTS
    t1 = t1
    t2 = t2
    t3 = t3
    o1 = o1
    o2 = o2
    Threads = {t1, t2}
    Objs = {o1, o2}
    NoObj = NoObj
    Workloads <- Files
    TXG_SIZE = 4
    TXG_CONCURRENT_STATES = 3
INVARIANTS
    CommittedIsStable
CHECK_DEADLOCK FALSE
