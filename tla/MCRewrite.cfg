CONSTANTS
  n1 = n1
  n2 = n2
  NoEntry = NoEntry
  RootObj = n1
  Obj <- MCObj
  Offset <- MCOffset
  Files <- MCFiles
  Rooted <- MCRooted
  ZeroPrevs <- MCZeroPrevs
SPECIFICATION RewriteSpec
INVARIANTS KeepsNewestBody KeepsWhatIsIndexed
PROPERTIES CollectEnds
CHECK_DEADLOCK FALSE
