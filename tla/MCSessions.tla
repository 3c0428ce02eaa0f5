----------------------------- MODULE MCSessions -----------------------------
EXTENDS Sessions, TLC
Sym == Permutations(Fry) \cup Permutations(Pid)
=============================================================================
