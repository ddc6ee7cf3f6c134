CONSTANTS
  n1 = n1
  n2 = n2
  t1 = t1
  t2 = t2
  NoEntry = NoEntry
  XRefPart = XRefPart
  Nobody = Nobody
  Obj <- MCObj
  Offset <- MCOffset
  Files <- MCFiles
  Thread <- TwoThreads
  ReadsAlone = TRUE
  Op = {"entry", "index", "read"}
SPECIFICATION Spec
INVARIANTS MissingIsMissing ReadsNewestBody
PROPERTIES CallReturns
