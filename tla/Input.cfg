SPECIFICATION MCSpec
CONSTANTS
  Programs <- MCPrograms
  Damages = {0, 1, 2, 3, 128, 255}
  Huge = 1000000
  Scraps <- MCScraps
  Literals <- MCLiterals
  MaxLiterals = 2
  Specials <- MCSpecials
  IntWidth = 8
  IntLexeme = 2
INVARIANTS
  LoaderInv
  LoadsAsWritten
  RefusesCutFiles
  SourceCovered
  ConversionsStayInside
  LiteralsAsWritten
PROPERTIES
  LoadEnds
\* A file or a source ends.
CHECK_DEADLOCK FALSE
