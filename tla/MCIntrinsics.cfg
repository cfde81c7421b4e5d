SPECIFICATION CampaignSpec
CONSTANTS
  Code <- IntrinsicCode
  Location <- Destination
  Option <- RandomFault
  Inst <- MCInst
  Cycles <- MCCycles
  RegNum <- MCRegNum
  RegCalls <- MCRegCalls
  Opcode <- MCOpcode
  Weight <- MCWeight
  Width = 1
  Values <- OneBit
  ConfigFile <- Written
  MaxDyn = 4
  MaxCalls = 4
  MaxLayers = 0
INVARIANT OneFaultPerRun
