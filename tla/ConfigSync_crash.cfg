SPECIFICATION Spec
CONSTANTS
    a = a
    b = b
    top = top
    top2 = top2
    Leaves = {a, b}
    Layouts <- Both
    VDEV_LABELS = 2
    VDEV_UBERBLOCK_COUNT = 2
    SPA_DVAS_PER_BP = 1
    MaxTxg = 3
CHECK_DEADLOCK FALSE
INVARIANTS
    OpenedStateIsComplete
    SyncedIsDurable
    FirstCrashLeavesValidLabels
