----------------------------- MODULE MCAccounts -----------------------------
EXTENDS Accounts, TLC
Sym == Permutations(Fry) \cup Permutations(Name) \cup Permutations(Key)
=============================================================================
