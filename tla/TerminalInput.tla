--------------------------- MODULE TerminalInput ---------------------------
(***************************************************************************)
(* From the bytes of the terminal to key events                            *)
(* (src/tui/components/tui_input.c): the bytes wait in the kernel until    *)
(* app_tui_input_read_event moves them to a buffer of its own, from which  *)
(* it takes one event per call.  Escape sequences may arrive in pieces.    *)
(***************************************************************************)
EXTENDS Integers, Sequences, FiniteSets

CONSTANTS
  Typed,       \* the bytes the terminal sends, a subset of Byte
  StdinSize,   \* bound on the bytes the kernel holds for the model
  BufferSize   \* sizeof(input->buffer), 32

\* One representative of each class of bytes the code tells apart.
Byte == {"esc", "[", "A", "1", ":", "q", "h", "x", "cr", "tab", "del", "ctrl-w"}

ASSUME TypedAssumption      == Typed \subseteq Byte
ASSUME StdinSizeAssumption  == StdinSize \in Nat \ {0}
ASSUME BufferSizeAssumption == BufferSize \in Nat \ {0}

VARIABLES
  stdin,   \* what the kernel holds
  buffer   \* input->buffer

inputVars == <<stdin, buffer>>

\* Letters end a CSI sequence (isalpha; '~' is not in the model).
Final == {"A", "q", "h", "x"}

None == [code |-> "none", ctrl |-> FALSE]
Key(c) == [code |-> c, ctrl |-> FALSE]

\* "Check for control characters": the code becomes the letter, so that no control
\* byte keeps its own code.
Control == [b \in {"cr", "tab", "ctrl-w", "esc"} |->
              CASE b = "cr"     -> "M"
                [] b = "tab"    -> "I"
                [] b = "ctrl-w" -> "W"
                [] b = "esc"    -> "["]

Regular(b) ==
  IF b \in DOMAIN Control THEN [code |-> Control[b], ctrl |-> TRUE] ELSE Key(b)

\* app_tui_input_is_escape_sequence
IsEscape(s) == s # <<>> /\ s[1] = "esc" /\ (Len(s) = 1 \/ s[2] = "[")

\* Where a CSI sequence ends, if it does: at its first letter.
Ends(s) ==
  {i \in 3..Len(s) : s[i] \in Final /\ \A j \in 3..(i - 1) : s[j] \notin Final}

\* parse_csi_sequence: what follows the digits gives the key its meaning, and only
\* the arrow has one here.
Csi(s, end) ==
  LET final == CHOOSE j \in 3..end : s[j] # "1" /\ \A k \in 3..(j - 1) : s[k] = "1"
  IN  Key(IF s[final] = "A" THEN "up" ELSE "unknown")

\* One look at the buffer: an event and what is left, or "need more data".  A lone
\* ESC is an event at once.
Look(s) ==
  IF s = <<>>
    THEN [event |-> None, rest |-> s, incomplete |-> TRUE]
  ELSE IF ~IsEscape(s)
    THEN [event |-> Regular(s[1]), rest |-> Tail(s), incomplete |-> FALSE]
  ELSE IF Len(s) = 1
    THEN [event |-> Key("esc"), rest |-> <<>>, incomplete |-> FALSE]
  ELSE IF Ends(s) = {}
    THEN [event |-> None, rest |-> s, incomplete |-> TRUE]
  ELSE LET i == CHOOSE i \in Ends(s) : TRUE
       IN  [event |-> Csi(s, i), rest |-> SubSeq(s, i + 1, Len(s)),
            incomplete |-> FALSE]

NeedsMore == Look(buffer).incomplete

\* "Treat buffered data as regular keys": the first byte of a partial sequence, with
\* its own code, when nothing follows in time.
Expire(event) ==
  /\ NeedsMore /\ stdin = <<>>
  /\ IF buffer = <<>> THEN event = None /\ UNCHANGED inputVars
     ELSE event = Key(buffer[1]) /\ buffer' = Tail(buffer) /\ UNCHANGED stdin

\* The read that follows: as much as fits.  Nothing fits a full buffer, and the 0
\* it returns counts as the end of the file.
Fill ==
  LET room == BufferSize - Len(buffer)
      n    == IF room < Len(stdin) THEN room ELSE Len(stdin)
  IN  /\ NeedsMore /\ stdin # <<>> /\ room > 0
      /\ buffer' = buffer \o SubSeq(stdin, 1, n)
      /\ stdin'  = SubSeq(stdin, n + 1, Len(stdin))

Full == NeedsMore /\ stdin # <<>> /\ Len(buffer) = BufferSize

\* An event from the bytes that are there.
Take(event) ==
  /\ ~NeedsMore
  /\ event = Look(buffer).event
  /\ buffer' = Look(buffer).rest
  /\ UNCHANGED stdin

\* The terminal sends a byte.
Type(b) ==
  /\ Len(stdin) < StdinSize
  /\ stdin' = Append(stdin, b)
  /\ UNCHANGED buffer
=============================================================================
