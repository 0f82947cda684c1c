CONSTANTS
  Shapes <- MCShapes
  BaseTypes <- MCBaseTypes
  MaxItems = 6
  FillWords = 4
  MaxCalls = 2
  Anywhere = FALSE
SPECIFICATION Spec
INVARIANTS
  ElementsPlaced
  StaysInside
  AccessExact
CHECK_DEADLOCK FALSE
