CONSTANTS
  Width = 5
  ImmediateWidth = 3
  Variables <- MCVariables
  Functions <- MCFunctions
  Body <- MCBody
  Statements <- MCStatements
  Memories <- MCMemories
SPECIFICATION Spec
INVARIANTS
  SameResult
  EntryAgrees
  SameCalls
  OperandsFit
  SignExtended
