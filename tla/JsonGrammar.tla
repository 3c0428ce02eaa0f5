---------------------------- MODULE JsonGrammar ----------------------------
(***************************************************************************)
(* What texts json_parse is to read: the grammar of JSON.                  *)
(***************************************************************************)
EXTENDS JsonDocuments

-----------------------------------------------------------------------------
(* What the stretches of a text are, each from one place up to another and *)
(* without it.  The grammar is as lenient as the reader about the inside   *)
(* of a string, where any character may follow a backslash and a line may  *)
(* end, and about leading zeros.                                           *)

Blanks(s, i, j) == i <= j /\ \A k \in i..(j - 1) : s[k] \in White

Enclosed(s, i, j, open, close) == i + 1 < j /\ s[i] = open /\ s[j - 1] = close

\* A string, by the places where its characters begin and the one of the quote behind
\* them: no character is a quote, and a backslash is one with what follows it.
IsString(s, i, j) ==
  /\ Enclosed(s, i, j, Quote, Quote)
  /\ \E places \in SUBSET ((i + 1)..(j - 1)) :
       /\ {i + 1, j - 1} \subseteq places
       /\ \A k \in places \ {j - 1} :
            s[k] # Quote /\ k + (IF s[k] = "\\" THEN 2 ELSE 1) \in places

\* A value with blanks around it, given which stretches are what.
IsValue(s, i, j, is) ==
  \E c, d \in i..j :
    /\ c < d /\ Blanks(s, i, c) /\ Blanks(s, d, j)
    /\ \/ d = c + 1 /\ s[c] \in Words
       \/ IsNumber(SubSeq(s, c, d - 1))
       \/ IsString(s, c, d)
       \/ /\ Enclosed(s, c, d, "[", "]")
          /\ Blanks(s, c + 1, d - 1) \/ is[<<"items", c + 1, d - 1>>]
       \/ /\ Enclosed(s, c, d, "{", "}")
          /\ Blanks(s, c + 1, d - 1) \/ is[<<"members", c + 1, d - 1>>]

IsKey(s, i, j) == \E c, d \in i..j : Blanks(s, i, c) /\ IsString(s, c, d) /\ Blanks(s, d, j)

\* An item of an array, or a key of an object with its value.
IsEntry(s, kind, i, j, is) ==
  \/ kind = "items" /\ is[<<"value", i, j>>]
  \/ /\ kind = "members"
     /\ \E k \in i..(j - 1) : s[k] = ":" /\ IsKey(s, i, k) /\ is[<<"value", k + 1, j>>]

\* Entries with commas between them.
AreEntries(s, kind, i, j, is) ==
  \/ IsEntry(s, kind, i, j, is)
  \/ \E k \in i..(j - 1) : s[k] = "," /\ IsEntry(s, kind, i, k, is) /\ is[<<kind, k + 1, j>>]

IsPart(s, part, is) ==
  IF part[1] = "value" THEN IsValue(s, part[2], part[3], is)
  ELSE AreEntries(s, part[1], part[2], part[3], is)

Grammar(s) ==
  LET is[part \in Kinds \X (1..(Len(s) + 1)) \X (1..(Len(s) + 1))] == IsPart(s, part, is)
  IN is

-----------------------------------------------------------------------------
(* Properties.                                                             *)

(***************************************************************************)
(* json_parse reads a text exactly when it begins with JSON, and it reads  *)
(* the longest such beginning: no text is refused for its spaces, nesting  *)
(* or escapes, and none with a comma too many or a bracket too few read.   *)
(***************************************************************************)
ReadsJson ==
  LET parsed == Parse(text)
      is     == Grammar(text)
      values == {n \in 0..Len(text) : is[<<"value", 1, n + 1>>]}
  IN  state = "typing" =>
        /\ Ok(parsed) <=> values # {}
        /\ Ok(parsed) => /\ parsed.next - 1 \in values
                        /\ \A n \in values : \A k \in parsed.next..n : text[k] \in White
=============================================================================
