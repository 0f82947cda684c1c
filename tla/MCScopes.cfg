CONSTANTS
  x = x
  y = y
  f1 = f1
  f2 = f2
  Names = {x, y}
  FunctionNames = {f1, f2}
  ParameterLists <- MCParameterLists
  TempName <- MCTempName
  MaxTokens = 13
SPECIFICATION Spec
INVARIANTS
  SameVariable
  NothingLost
  ScopesMatch
SYMMETRY Symmetric
