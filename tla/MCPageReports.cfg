\* Validation and first page information on damaged files; TooDeep at 2 parents, a cut below 2 levels.
SPECIFICATION FairSpec
CONSTANTS
  r = r
  p = p
  q = q
  s = s
  a = a
  b = b
  none = none
  Node <- MCNode
  Root = r
  Trees <- MCTrees
  NoNode = none
  MaxLookup = 2
  MaxTreeDepth = 2
  Files <- MCFiles
  OnLoops = FALSE
INVARIANTS
  NearestAncestor
  EveryPageChecked
  ValidMeansBoxes
  ReportsAgree
  FirstPageIsFirst

  
CHECK_DEADLOCK FALSE
