SPECIFICATION FairSpec
CONSTANTS
    io = io
    getattr = getattr
    read = read
    admin = admin
    offline = offline
    Ios = {io}
    Getattrs = {getattr}
    Reads = {read}
    Admins = {admin}
    Offlines = {offline}
    Sync = sync
    Child = child
    NoUser = NoUser
    TXG_CONCURRENT_STATES = 2
    TXG_DEFER_SIZE = 1
    Casts <- FourCasts
CHECK_DEADLOCK FALSE
INVARIANTS
    LocksAreWhatIsHeld
    ChangesAreAlone
    ChangesAreSynced
PROPERTIES
    NobodyStarves
