SPECIFICATION MCSpec
CONSTANTS
  CellCapacity = 5
  Objects = {"list", "string", "dict", "err", "closure"}
  Families <- KindsTogether
  NoDel = {"closure"}
  NullCell = NullCell
  HeapPopMax = 3
  U8Bits = 1
  MaxStack = 3
  MaxItems = 1
  MaxCollections = 2
INVARIANTS
  GCTypeOK
  BooksBalance
  MarksReachable
PROPERTIES
  GarbageBelowBitsGoes
\* The process may die, and the bound on collections may stop a program.
CHECK_DEADLOCK FALSE
