CONSTANTS
  v1 = v1
  v2 = v2
  v3 = v3
  a0 = a0
  s1 = s1
  sp = sp
  block = block
  NoReg = NoReg
  InMemory = InMemory
  NoVreg = NoVreg
  MaxInstr = 3
  MaxUses = 3
  Vreg <- MCVreg
  Reg <- MCReg
  OtherReg <- MCOtherReg
  RegIndex <- MCRegIndex
  FloatVreg <- MCNone
  FloatReg <- MCNone
  ClobberedReg <- MCClobbered
  CalleeSavedReg <- MCCalleeSaved
  Block <- MCBlock
  BlockWeight <- MCBlockWeight
  Inputs <- MCInputs
SPECIFICATION Spec
INVARIANTS
  NoSharedRegister
  SlotsApart
  FixedRegistersRespected
  MapsAgree
  WaitsOnce
PROPERTIES
  SpillIsFinal
  ImplementsAllocation
