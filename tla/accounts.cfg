CONSTANTS
  Fry = {f1, f2, f3}
  Name = {a, b}
  Key = {k1, k2}
  MaxTokens = 2
  Keychain = TRUE
  NoName = none
  NoKey = nokey
SPECIFICATION Spec
SYMMETRY Sym
INVARIANTS AccountsTypeOK AccountsReadable LoginKept
CHECK_DEADLOCK FALSE
