SPECIFICATION FairSpec
CONSTANTS
  RunOption <- RunAndFailure
  TotalCycles = 2
  MaxSessions = 2
INVARIANT NoMixedResults
PROPERTY ScriptEnds
