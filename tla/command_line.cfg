CONSTANTS
  Char = {"q", " "}
  NUL = NUL
  Size = 4
  Capacity = 2
  Names <- MCNames
  Entered <- MCEntered
  LogBound = 4
SPECIFICATION Spec
INVARIANTS CommandTypeOK HistoryIsRecent
PROPERTIES EditsLine
