SPECIFICATION MCSpec
CONSTANTS
  x = x
  y = y
  Families <- AllFamilies
  Names <- MCNames
  Numerals <- MCNumerals
  Texts <- MCTexts
  DEFAULT_SYMBOL_COUNT = 2
  HeaderNames = 2
  MaxParts = 5
  MaxScopes = 3
SYMMETRY Swaps
INVARIANTS
  AssignmentsReachTheirSlot
\* A source ends, with or without an error.
CHECK_DEADLOCK FALSE
