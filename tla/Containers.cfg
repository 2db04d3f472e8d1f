SPECIFICATION MCSpec
CONSTANTS
  CellCapacity = 4
  Objects <- MCObjects
  NoDel <- MCNoDel
  NullCell = NullCell
  a = a
  b = b
  None = None
  Nil = Nil
  Blank = Blank
  Keys <- MCKeys
  Items <- MCItems
  Elements <- MCItems
  Indices <- MCIndices
  ListSizes = {1, 3}
  VecSizes = {2, 3}
  StringSizes = {1, 2, 4}
  MaxAppend = 2
  MaxLength = 5
INVARIANTS
  HeapInv
  DictInv
  BufferInv
PROPERTIES
  NoOverwrite
  ImplementsTable
  ImplementsMap
  CallsReturn
  ImplementsSequence
