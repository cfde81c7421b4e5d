SPECIFICATION FairSpec
CONSTANTS
  Inst <- MCInst
  Cycles <- SrcCycles
  RegNum <- SrcRegNum
  RegCalls <- SrcCalls
  Width = 2
  Values <- OneValue
  ConfigFile <- AllFiles
  MaxDyn = 4
INVARIANT TypeOK
INVARIANT OneRegisterPerInstruction
INVARIANT CycleCountExact
INVARIANT RecordedFirst
INVARIANT BitsCorrupted
INVARIANT EveryInstance
PROPERTY PlanCarriedOut
PROPERTY InjectFuncEnds
