-------------------------- MODULE MCJsonDocuments --------------------------
(* One symbol of each kind, and strings with every character that counts.  *)
EXTENDS JsonGrammar

MCAlphabet == {"\"", "\\", "x", "[", "]", "{", "}", ":", ",", "1", "-", " ", "true"}
MCOpenings == {<<>>, <<"[", "1", ",">>, <<"{", "\"", "x", "\"", ":">>, <<"[", "\"", "\\">>}
MCLeaves   == {Word("true"), Number(<<"-", "1">>), Text(<<>>), Text(<<"\"", "]">>),
               Text(<<"x", "\\">>)}
MCCharacter == {"\"", "]", "x", "\\", "-", "1"}
MCKeys     == {<<>>, <<"\"">>}
=============================================================================
