SPECIFICATION FairSpec
CONSTANTS
  a = a
  b = b
  c = c
  x = x
  y = y
  fs = fs
  gs = gs
  j = j
  k = k
  Txs = {a, b, c}
  Tasks = {j, k}
  Dnodes = {x, y}
  Dirs = {fs, gs}
  Casts <- MCCasts
  Quota <- MCQuota
  PoolSize = 8
  WriteLimit = 1
  TaskSpace = 1
  CONTINUE = TRUE
  FirstTxg = 4
INVARIANTS
  DnodeInOneGroup
  QuotaHolds
  ReservationsEnd
  TasksAreAtomic
  SnapshotsAreGroups
PROPERTY
  EveryoneReturns
CHECK_DEADLOCK FALSE
