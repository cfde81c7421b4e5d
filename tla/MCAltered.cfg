SPECIFICATION Spec
CONSTANTS
  RunOption <- TwoOptions
  TotalCycles = 3
  MaxSessions = 1
INVARIANT InputRestored
