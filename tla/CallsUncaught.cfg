SPECIFICATION Spec
CONSTANTS
  Programs <- CallPrograms
  Entry = 1
  DepthModulus = 256
  StackCapacity = 12
  MaxRuns = 1
PROPERTIES
  ThrowsAreCaught
\* A run ends, and the host need not start another.
CHECK_DEADLOCK FALSE
