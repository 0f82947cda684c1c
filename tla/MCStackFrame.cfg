CONSTANTS
  f = f
  g = g
  s0 = s0
  s1 = s1
  fs0 = fs0
  ra = ra
  Function <- MCFunction
  Shapes <- MCShapes
  CalleeSaved <- MCCalleeSaved
  SavedIndex <- MCSavedIndex
  S0 = s0
  RA = ra
  ArgRegs = 1
  StackTop = 320
  MaxDepth = 3
SPECIFICATION Spec
INVARIANTS
  CallerStateKept
  ArgumentsArrive
  LocalsKept
  StackAligned
