SPECIFICATION Spec
CONSTANTS
    NoThread = NoThread
    Threads = {t1, t2}
    MaxHeld = 1
INVARIANT LockedOnlyAtZero
CHECK_DEADLOCK FALSE
