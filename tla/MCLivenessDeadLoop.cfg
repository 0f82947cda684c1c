CONSTANTS
  b1 = b1
  b2 = b2
  b3 = b3
  b4 = b4
  b5 = b5
  x = x
  y = y
  a0 = a0
  Block <- DeadLoopBlock
  Operand <- MCOperand
  Programs <- DeadLoopPrograms
SPECIFICATION Spec
INVARIANTS
  EveryMentionFound
