CONSTANTS
  r = r
  p = p
  a = a
  b = b
  x = x
  NoPage = NoPage
  Node <- MCNode
  Root <- MCRoot
  Trees <- MCTrees
SPECIFICATION Spec
INVARIANTS NoPageTwice NoBranchLost
PROPERTIES ImplementsPageSource NextReturns
