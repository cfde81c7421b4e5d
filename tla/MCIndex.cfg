SPECIFICATION Spec
CONSTANTS
  Inst <- MCInst
  Cycles <- SrcCycles
  RegNum <- SrcRegNum
  RegCalls <- SrcCalls
  Width = 2
  Values <- OneValue
  ConfigFile <- IndexFiles
  MaxDyn = 3
INVARIANT FirstOccurrenceOnly
