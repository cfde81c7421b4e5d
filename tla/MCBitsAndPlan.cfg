SPECIFICATION Spec
CONSTANTS
  Inst <- MCInst
  Cycles <- SrcCycles
  RegNum <- SrcRegNum
  RegCalls <- SrcCalls
  Width = 2
  Values <- OneValue
  ConfigFile <- BitsAndPlanFile
  MaxDyn = 4
INVARIANT EveryLocationInjected
