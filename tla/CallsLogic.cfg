SPECIFICATION Spec
CONSTANTS
  Programs <- LogicPrograms
  Entry = 1
  DepthModulus = 256
  StackCapacity = 8
  MaxRuns = 1
INVARIANTS
  OneResultValue
\* A run ends, and the host need not start another.
CHECK_DEADLOCK FALSE
