----------------------------- MODULE JsonStrings -----------------------------
(***************************************************************************)
(* The strings of src/utils/json.c: how stringify_string writes one and    *)
(* what parse_string makes of it.  A string is a sequence of characters.   *)
(***************************************************************************)
EXTENDS Integers, Sequences, SequencesExt

Quote    == "\""
ToEscape == {Quote, "\\", "\n"}      \* \b, \f, \r and \t are like \n

Letter(c)  == IF c = "\n" THEN "n" ELSE c        \* what follows the backslash
Meant(c)   == IF c = "n" THEN "\n" ELSE c        \* and what it stands for
Escaped(s) ==
  FlattenSeq([i \in DOMAIN s |-> IF s[i] \in ToEscape THEN <<"\\", Letter(s[i])>> ELSE <<s[i]>>])

Quoted(s) == <<Quote>> \o Escaped(s) \o <<Quote>>

\* Mutant: an escaped quote ends the string.
ScanNoEscape(text, p) ==
  LET scan[i \in 1..(Len(text) + 2)] ==
        IF i > Len(text) \/ text[i] = Quote THEN [quote |-> i, length |-> 0]
        ELSE LET rest == scan[i + 1] IN [rest EXCEPT !.length = @ + 1]
  IN scan[p]

\* The scan for the closing quote of the string whose content starts at p: the position
\* of the quote, and how many characters the content has, an escape being one.  Beyond
\* the text where there is none.
Scan(text, p) ==
  LET scan[i \in 1..(Len(text) + 2)] ==
        IF i > Len(text) \/ text[i] = Quote THEN [quote |-> i, length |-> 0]
        ELSE LET rest == scan[i + (IF text[i] = "\\" THEN 2 ELSE 1)]
             IN  [rest EXCEPT !.length = @ + 1]
  IN scan[p]

\* The escapes of s undone; a backslash that ends s stands for itself.
Unescaped(s) ==
  LET rest[i \in 1..(Len(s) + 1)] ==
        CASE i > Len(s) -> <<>>
          [] s[i] = "\\" /\ i < Len(s) -> <<Meant(s[i + 1])>> \o rest[i + 2]
          [] OTHER -> <<s[i]>> \o rest[i + 1]
  IN rest[1]

\* parse_string takes as many characters from the text as it counted, and it counted
\* the escapes once: every escape costs the string its last character.
Content(text, p) ==
  Unescaped(SubSeq(text, p, p + Scan(text, p).length - 1))

\* A string written and read again.
Reread(s) == Content(Quoted(s), 2)

Plain(s) == \A i \in DOMAIN s : s[i] \notin ToEscape
=============================================================================
