CONSTANTS
  Pane = {a}
  MaxPanes = 1
  Fd = {5}
  Pid = {p1}
  MaxTime = 1
  NoPane = NoPane
  Typed = {"esc", "[", "q"}
  StdinSize = 2
  BufferSize = 2
  InputSystem = {TRUE}
  Resizes = TRUE
  LineSize = 1
SPECIFICATION LoopSpec
PROPERTY KeysAreHandled
CHECK_DEADLOCK FALSE
