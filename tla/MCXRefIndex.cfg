CONSTANTS
  n1 = n1
  NoEntry = NoEntry
  Obj <- MCObj
  Offset <- MCOffset
  Files <- MCFiles
SPECIFICATION IndexSpec
INVARIANTS LatestWinsUnlessOldHybrid BuildsFullIndex
PROPERTIES Terminates
CHECK_DEADLOCK FALSE
