----------------------------- MODULE LineEditor -----------------------------
(***************************************************************************)
(* What the command line promises to whoever types: a text before and a    *)
(* text after the cursor.                                                  *)
(***************************************************************************)
EXTENDS Integers, Sequences

CONSTANTS
  Char,   \* the printable characters, " " among them
  Limit   \* the longest line

VARIABLES editing, before, after

editorVars == <<editing, before, after>>

Lines == UNION {[1..n -> Char] : n \in 0..Limit}

Closed == ~editing /\ before = <<>> /\ after = <<>>

Open  == editing' /\ before' = <<>> /\ after' = <<>>
Close == ~editing' /\ before' = <<>> /\ after' = <<>>

Insert(c) ==
  /\ editing /\ Len(before) + Len(after) < Limit
  /\ before' = Append(before, c)
  /\ UNCHANGED <<editing, after>>

Backspace ==
  /\ editing /\ before # <<>>
  /\ before' = SubSeq(before, 1, Len(before) - 1)
  /\ UNCHANGED <<editing, after>>

Left ==
  /\ editing /\ before # <<>>
  /\ before' = SubSeq(before, 1, Len(before) - 1)
  /\ after' = <<before[Len(before)]>> \o after
  /\ UNCHANGED editing

Right ==
  /\ editing /\ after # <<>>
  /\ before' = Append(before, Head(after))
  /\ after' = Tail(after)
  /\ UNCHANGED editing

Home == /\ editing /\ before' = <<>> /\ after' = before \o after
        /\ UNCHANGED editing
End  == /\ editing /\ before' = before \o after /\ after' = <<>>
        /\ UNCHANGED editing

\* Where the words of a text begin.
WordStarts(s) == {i \in DOMAIN s : s[i] # " " /\ (i = 1 \/ s[i - 1] = " ")}

\* The word before the cursor goes, with the spaces that follow it.
DeleteWord ==
  /\ editing
  /\ \/ WordStarts(before) = {} /\ before' = <<>>
     \/ \E i \in WordStarts(before) :
          /\ \A j \in WordStarts(before) : j <= i
          /\ before' = SubSeq(before, 1, i - 1)
  /\ UNCHANGED <<editing, after>>

\* Another line takes the place of this one: a command of the history, a completion, or
\* nothing.  The cursor is at its end.
Replace ==
  /\ editing
  /\ before' \in Lines /\ after' = <<>>
  /\ UNCHANGED editing

Edit == \/ \E c \in Char : Insert(c)
        \/ Backspace \/ Left \/ Right \/ Home \/ End \/ DeleteWord \/ Replace

Spec == Closed /\ [][Open \/ Close \/ Edit]_editorVars
=============================================================================
