CONSTANTS
  Fry = {f1, f2, f3}
  Pid = {p1, p2}
  SaveName = {n1}
  MaxTargets = 2
  Interrupts = TRUE
SPECIFICATION Spec
SYMMETRY Sym
INVARIANTS SessionsTypeOK Recorded EndedHaveEnded
CHECK_DEADLOCK FALSE
