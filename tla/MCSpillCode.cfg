CONSTANTS
  x = x
  y = y
  f = f
  g = g
  z = z
  t2 = t2
  T0 = T0
  T1 = T1
  FT0 = FT0
  FT1 = FT1
  FT2 = FT2
  SP = SP
  Vreg <- MCVreg
  FloatVreg <- MCFloatVreg
  Scratch <- MCScratch
  MaxImmediate <- MCMaxImmediate
  Programs <- MCPrograms
SPECIFICATION Spec
INVARIANTS
  MeaningKept
  TempsSuffice
