SPECIFICATION PassSpec
CONSTANTS
  RegisterInputs <- MCRegisterInputs
  OpcodeOf <- MCOpcodeOf
  OpcodeNames <- MCOpcodeNames
  SelectionInputs <- MCSelectionInputs
  OperatorInputs <- MCOperatorInputs
  DuplicationInputs <- MCDuplicationInputs
INVARIANT DuplicatesInOperators
