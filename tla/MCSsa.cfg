CONSTANTS
  Functions <- MCFunctions
  FirstFresh = 100
SPECIFICATION Spec
INVARIANTS
  DominanceExact
  SsaForm
  SameReads
  EdgesAgree
CHECK_DEADLOCK FALSE
