CONSTANTS
  r = r
  p = p
  a = a
  b = b
  c = c
  NoPage = NoPage
  MaxDepth = 1
  Node <- MCNode
  Root <- MCRoot
  Trees <- MCTrees
SPECIFICATION Spec
INVARIANTS ExtractsWholePage NumbersMeanTheSame
CHECK_DEADLOCK FALSE
