SPECIFICATION Spec
CONSTANTS
  Opcodes <- MCOpcodes
  Sources <- Programs
  FlagModulus = 3
  IntBits = 4
  ConstantPools <- Pools
  StackCapacity = 10
INVARIANTS
  OptimizationKeepsResults
\* A program ends.
CHECK_DEADLOCK FALSE
