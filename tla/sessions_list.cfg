CONSTANTS
  Fry = {f1, f2}
  Pid = {p1, p2}
  SaveName = {n1}
  MaxTargets = 1
  Interrupts = FALSE
SPECIFICATION Spec
PROPERTY ListStopsNothing
CHECK_DEADLOCK FALSE
