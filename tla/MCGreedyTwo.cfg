CONSTANTS
  b1 = b1
  b2 = b2
  b3 = b3
  b4 = b4
  x = x
  y = y
  z = z
  a0 = a0
  s1 = s1
  sp = sp
  NoReg = NoReg
  InMemory = InMemory
  NoVreg = NoVreg
  MaxReads = 3
  Vreg <- TwoValues
  Reg <- TwoRegs
  OtherReg <- MCOtherReg
  RegIndex <- TwoIndex
  FloatVreg <- MCNone
  FloatReg <- MCNone
  ClobberedReg <- ArgReg
  CalleeSavedReg <- OneReg
  Block <- MCBlock
  BlockWeight <- MCBlockWeight
  Functions <- TwoValuesAndCalls
SPECIFICATION Spec
INVARIANTS
  LiveValuesApart
  NoValueClobbered
PROPERTIES
  Terminates
