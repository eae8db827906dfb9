SPECIFICATION Spec
CONSTANTS
  Casts <- MCCasts
  FirstTxg = 4
  LastTxg = 7
INVARIANTS
  HistoryIsLinear
  SyncedIsSnapshot
  PendingIsFrozen
  HoldersKeepTheirData
  RecordsAreSound
