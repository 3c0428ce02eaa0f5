CONSTANTS
  Pane = {a, b}
  MaxPanes = 2
  Fd = {5, 6}
  Pid = {p1, p2}
  MaxTime = 1
  NoPane = NoPane
SPECIFICATION DestroySpec
SYMMETRY Sym
INVARIANT DestroysAllPanes
CHECK_DEADLOCK FALSE
