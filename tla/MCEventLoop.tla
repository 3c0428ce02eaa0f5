---------------------------- MODULE MCEventLoop ----------------------------
EXTENDS EventLoop, TLC
Sym == Permutations(Pane) \cup Permutations(Pid)
=============================================================================
