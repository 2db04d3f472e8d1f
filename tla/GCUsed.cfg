SPECIFICATION MCSpec
CONSTANTS
  CellCapacity = 3
  Objects = {"list"}
  Families <- AllKinds
  NoDel = {}
  NullCell = NullCell
  HeapPopMax = 4
  U8Bits = 8
  MaxStack = 3
  MaxItems = 1
  MaxCollections = 1
PROPERTIES
  UsedObjectsStay
\* The process may die, and the bound on collections may stop a program.
CHECK_DEADLOCK FALSE
