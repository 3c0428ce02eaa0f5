--------------------------- MODULE MCPaneManager ---------------------------
EXTENDS PaneManager, TLC
Sym == Permutations(Pane) \cup Permutations(Pid)
=============================================================================
