SPECIFICATION Spec
CONSTANTS
  RunOption <- TwoOptions
  TotalCycles = 3
  MaxSessions = 1
INVARIANT TypeOK
INVARIANT RunsAttributed
INVARIANT AllRunsDone
INVARIANT RunsStartAlike
INVARIANT OwnOption
INVARIANT PlanIncreases
