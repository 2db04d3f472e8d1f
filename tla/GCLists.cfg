SPECIFICATION MCSpec
CONSTANTS
  CellCapacity = 3
  Objects = {"list", "string"}
  Families <- AllKinds
  NoDel = {}
  NullCell = NullCell
  HeapPopMax = 4
  U8Bits = 8
  MaxStack = 4
  MaxItems = 1
  MaxCollections = 1
INVARIANTS
  MarkComplete
  RipeAtTwoThirds
PROPERTIES
  AcyclicCollectionEnds
\* The process may die, and the bound on collections may stop a program.
CHECK_DEADLOCK FALSE
