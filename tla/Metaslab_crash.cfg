SPECIFICATION Spec
CONSTANTS
    Blocks = {b1, b2, b3}
    b1 = b1
    b2 = b2
    b3 = b3
    FirstTxg = 4
    MaxTxg = 8
    MaxPass = 2
    MaxCrashes = 2
CHECK_DEADLOCK FALSE
SYMMETRY BlockSymmetry
INVARIANTS
    MapsAreSound
    DiskIsSound
    DeferredKeepSyncing
    RewindIsSafe
