CONSTANTS
  Character <- MCCharacter
  Alphabet <- MCAlphabet
  Openings <- MCOpenings
  Leaves <- MCLeaves
  Keys <- MCKeys
  TextBound = 4
  DepthBound = 3
  WidthBound = 2
SPECIFICATION DocSpec
INVARIANTS ReadsJson RoundTrip CutIsRefused SetThenGet
CHECK_DEADLOCK FALSE
