CONSTANTS
  Pane = {a, b, c}
  MaxPanes = 3
  Fd = {5, 6, 7}
  Pid = {p1, p2, p3}
  MaxTime = 2
  NoPane = NoPane
SPECIFICATION Spec
SYMMETRY Sym
INVARIANTS TypeOK NumbersDense FocusConsistent MasterOwnership Attached NoForgottenChild SignalsOwnChild
PROPERTY ImplementsList
CHECK_DEADLOCK FALSE
