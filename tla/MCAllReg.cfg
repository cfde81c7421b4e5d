SPECIFICATION Spec
CONSTANTS
  Inst <- MCInst
  Cycles <- SrcCycles
  RegNum <- AllRegNum
  RegCalls <- AllCalls
  Width = 2
  Values <- OneValue
  ConfigFile <- IndexFiles
  MaxDyn = 3
INVARIANT OneRegisterPerInstruction
