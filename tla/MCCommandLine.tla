--------------------------- MODULE MCCommandLine ---------------------------
(* Lines of up to three characters; one command name begins another.        *)
EXTENDS CommandLine

MCNames   == {<<"q">>, <<"q", "q", "q">>}
MCEntered == {<<"q">>, <<" ">>, <<"q", " ", "q">>}
=============================================================================
