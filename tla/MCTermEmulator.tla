--------------------------- MODULE MCTermEmulator ---------------------------
EXTENDS TermEmulator, TLC
=============================================================================
