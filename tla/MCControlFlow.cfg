CONSTANTS
  Programs <- MCPrograms
  FirstBlock = 2
  FirstInstruction = 50
SPECIFICATION Spec
INVARIANTS
  BlocksEndOnce
  ReturnBlockLast
  TargetsListed
  SameBehaviour
PROPERTIES
  NeitherStalls
CHECK_DEADLOCK FALSE
