CONSTANTS
  b1 = b1
  b2 = b2
  b3 = b3
  b4 = b4
  x = x
  y = y
  z = z
  a0 = a0
  s1 = s1
  sp = sp
  NoReg = NoReg
  InMemory = InMemory
  NoVreg = NoVreg
  MaxReads = 3
  Vreg <- ThreeValues
  Reg <- OneReg
  OtherReg <- MCOtherReg
  RegIndex <- OneIndex
  FloatVreg <- MCNone
  FloatReg <- MCNone
  ClobberedReg <- MCNone
  CalleeSavedReg <- OneReg
  Block <- MCBlock
  BlockWeight <- MCBlockWeight
  Functions <- WithoutCalls
SPECIFICATION Spec
INVARIANTS
  LiveValuesApart
