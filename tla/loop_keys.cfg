CONSTANTS
  Pane = {a}
  MaxPanes = 1
  Fd = {5}
  Pid = {p1}
  MaxTime = 2
  NoPane = NoPane
  Typed = {"esc", "[", "q", ":", "cr"}
  StdinSize = 1
  BufferSize = 2
  InputSystem = {TRUE, FALSE}
  Resizes = TRUE
  LineSize = 1
SPECIFICATION LoopSpec
PROPERTIES OutputIsRead ResizeIsHandled ChangesAreDrawn QuitEnds
CHECK_DEADLOCK FALSE
