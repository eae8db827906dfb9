SPECIFICATION Spec
CONSTANTS
    Blks = {b1, b2, b3}
    NoBlk = NoBlk
    Vdevs = {{b1, b2}, {b3}}
    LwbSize = 1
    Big = {3}
    TXG_CONCURRENT_STATES = 3
    TXG_DEFER_SIZE = 1
    MaxOps = 3
    MaxTxg = 4
    MaxCrashes = 2
    MaxEvents = 1
SYMMETRY BlkSymmetry
CHECK_DEADLOCK FALSE
INVARIANTS
    ChainIsSound
    CommittedSurvives
    ReplayGivesAPrefix
    NoBlockLeaks
