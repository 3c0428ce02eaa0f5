--------------------------- MODULE JsonDocuments ---------------------------
(***************************************************************************)
(* Documents in the hands of the program: built by json_array_append and   *)
(* json_object_set, written compact or pretty, the writing cut short by a  *)
(* crash, and texts typed by anybody.                                      *)
(***************************************************************************)
EXTENDS Json

CONSTANTS
  Alphabet,    \* the symbols that are typed
  Openings,    \* how a typed text begins
  Leaves,      \* the words, numbers and strings that documents are built of
  Keys,        \* the keys of their objects
  TextBound,   \* bounds: the symbols that follow an opening, and the entries on the
  WidthBound   \*         top level of a document that is built

ASSUME TypingAssumption == Openings \subseteq Seq(Alphabet)
ASSUME BoundsAssumption == {TextBound, WidthBound} \subseteq Nat
ASSUME DocumentsAssumption == Leaves \subseteq Documents[1] /\ Keys \subseteq Seq(Character)

VARIABLES doc, text, state

docVars == <<doc, text, state>>

States == {"typing", "building", "written", "cut"}

DocInit ==
  \/ /\ state = "typing" /\ doc = Word("null")
     /\ text \in Openings
  \/ /\ state = "building" /\ text = <<>>
     /\ doc \in Leaves \cup {Array(<<>>), Object(<<>>, <<>>)}

Type(c) ==
  /\ state = "typing"
  /\ \E o \in Openings : IsPrefix(o, text) /\ Len(text) < Len(o) + TextBound
  /\ text' = Append(text, c)
  /\ UNCHANGED <<doc, state>>

\* Another entry for the document, or the document as the first entry of another.
Extensions ==
  LET array  == IF doc.type = "array" /\ Len(doc.items) < WidthBound
                THEN {Appended(doc, v) : v \in Leaves} ELSE {}
      object == IF doc.type = "object" /\ Len(doc.items) < WidthBound
                THEN {WithKey(doc, k, v) : k \in Keys, v \in Leaves} ELSE {}
      outer  == IF doc \in Documents[DepthBound - 1]
                THEN {Appended(Array(<<>>), doc)} \cup
                     {WithKey(Object(<<>>, <<>>), k, doc) : k \in Keys}
                ELSE {}
  IN array \cup object \cup outer

Build ==
  /\ state = "building"
  /\ doc' \in Extensions
  /\ UNCHANGED <<text, state>>

Write ==
  /\ state = "building"
  /\ text' \in {Stringify(doc), StringifyPretty(doc)}
  /\ state' = "written"
  /\ UNCHANGED doc

\* fopen truncates the file; a crash before fclose leaves any part of the text.
CutShort ==
  /\ state = "written"
  /\ \E n \in 0..(Len(text) - 1) : text' = SubSeq(text, 1, n)
  /\ state' = "cut"
  /\ UNCHANGED doc

DocNext == (\E c \in Alphabet : Type(c)) \/ Build \/ Write \/ CutShort

DocSpec == DocInit /\ [][DocNext]_docVars

-----------------------------------------------------------------------------
(* Properties.                                                             *)

(***************************************************************************)
(* What the program writes, compact or pretty, it reads to the last        *)
(* symbol, and as the same document when no string in it has a character   *)
(* that is escaped; a string with k escapes comes back without its last k  *)
(* characters (Content).                                                   *)
(***************************************************************************)
RoundTrip ==
  LET parsed == Parse(text)
  IN  state = "written" => /\ parsed.next = Len(text) + 1
                           /\ doc \in PlainDocuments[DepthBound] => parsed.value = doc

(***************************************************************************)
(* An array or object whose writing a crash cut short is refused and never *)
(* read as another document, whatever its strings are: brackets and quotes *)
(* inside of them do not end it.                                           *)
(***************************************************************************)
CutIsRefused ==
  state = "cut" /\ doc.type \in {"array", "object"} => ~Ok(Parse(text))

(***************************************************************************)
(* A key that is set has that value, every other key keeps its own, and no *)
(* key comes twice in what is written.                                     *)
(***************************************************************************)
SetThenGet ==
  doc.type = "object" =>
    /\ \A i, j \in DOMAIN doc.keys : doc.keys[i] = doc.keys[j] => i = j
    /\ \A k \in Keys, v \in Leaves :
         LET set == WithKey(doc, k, v)
         IN  /\ Member(set, k) = v
             /\ \A other \in Keys \ {k} : /\ Has(set, other) = Has(doc, other)
                                          /\ Has(doc, other) => Member(set, other) = Member(doc, other)
=============================================================================
