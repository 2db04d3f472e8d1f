SPECIFICATION FairSpec
CONSTANTS
  Programs <- AllPrograms
  Entry = 1
  DepthModulus = 4
  StackCapacity = 14
  MaxRuns = 2
INVARIANTS
  VMTypeOK
  OkMeansMainReturned
  DisciplinedSameOutcome
  DepthCounts
  LeafCapturesAreMine
PROPERTIES
  InnermostCatch
  NoExceptionLost
  CallersSlotsStay
  RunsEnd
\* A run ends, and the host need not start another.
CHECK_DEADLOCK FALSE
