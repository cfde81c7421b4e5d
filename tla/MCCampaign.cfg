SPECIFICATION CampaignSpec
CONSTANTS
  Code <- SourcesCode
  Location <- Sources
  Option <- RandomFault
  Inst <- MCInst
  Cycles <- MCCycles
  RegNum <- MCRegNum
  RegCalls <- MCRegCalls
  Opcode <- MCOpcode
  Weight <- MCWeight
  Width = 1
  Values <- OneBit
  ConfigFile <- Written
  MaxDyn = 3
  MaxCalls = 3
  MaxLayers = 2
INVARIANT SameCycles
INVARIANT FaultWhereProfiled
INVARIANT EveryRunHasItsFault
INVARIANT ProfTypeOK
INVARIANT LayersLabelCycles
INVARIANT TotalCountsCycles
