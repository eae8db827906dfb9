SPECIFICATION FairSpec
CONSTANTS
    Txs = {a}
    Waiters = {v, w}
    max_ncpus = 1
    FirstTxg = 4
    MaxTxg = 6
    zfs_txg_history = 3
CHECK_DEADLOCK FALSE
INVARIANTS
    IInv
PROPERTIES
    OrderedCommit
    WaitersReturn
    CallbackIsCalled
