SPECIFICATION PartsSpec
CONSTANTS
  RegisterInputs <- MCRegisterInputs
  OpcodeOf <- MCOpcodeOf
  OpcodeNames <- MCOpcodeNames
  SelectionInputs <- MCSelectionInputs
  OperatorInputs <- MCOperatorInputs
  DuplicationInputs <- MCDuplicationInputs
  MLConfigFile <- DriverFiles
  Total = 4
  Size = 2
  MaxPreFunc = 6
  maxPrints = 3
  MaxTraced = 9
  NumModels = 3
  MaxBuild = 2
INVARIANT EachRegisterOnce
INVARIANT OneSidedUnlessAll
INVARIANT PassesAgree
INVARIANT TracedSelection
INVARIANT TargetsInLayers
INVARIANT RaisedBitsMasked
INVARIANT MLTypeOK
INVARIANT MLPlanStruck
INVARIANT MLNoMoreThanAsked
INVARIANT MLRecordFollows
INVARIANT MLClosedForGood
INVARIANT TraceTypeOK
INVARIANT PrintedAroundFaults
INVARIANT HeadersMarkFaults
INVARIANT ComparesSameInstruction
INVARIANT BatchTypeOK
INVARIANT SameBuild
INVARIANT StatusCountsFailures
