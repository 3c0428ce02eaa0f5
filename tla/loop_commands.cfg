CONSTANTS
  Pane = {a, b}
  MaxPanes = 2
  Fd = {5, 6}
  Pid = {p1, p2}
  MaxTime = 1
  NoPane = NoPane
  Typed = {":", "cr"}
  StdinSize = 1
  BufferSize = 1
  InputSystem = {FALSE}
  Resizes = FALSE
  LineSize = 1
SPECIFICATION LoopSpec
SYMMETRY Sym
INVARIANTS LoopTypeOK NoFalseDisconnect LineCleared
PROPERTY DrivesPanes
CHECK_DEADLOCK FALSE
