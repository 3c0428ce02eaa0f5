---------------------------- MODULE CommandLine ----------------------------
(***************************************************************************)
(* The command line (src/tui/components/tui_command.c): a buffer that ends *)
(* at its first NUL and is edited with memmove, a cursor, the history of   *)
(* the commands and the file it is kept in from one multiplexer to the     *)
(* next.  What a command does is left to EventLoop and Workspace; here it  *)
(* succeeds or fails.                                                      *)
(***************************************************************************)
EXTENDS Integers, Sequences, SequencesExt

CONSTANTS
  Char,      \* the printable characters, " " among them
  NUL,
  Size,      \* command_buffer_size, and the buffer of fgets; 256
  Capacity,  \* of the history; 100
  Names,     \* the names and aliases of the commands
  Entered,   \* bounds: the lines on which Enter is pressed, and how many
  LogBound   \*         commands are counted

ASSUME SizeAssumption     == Size \in Nat /\ Size >= 2
ASSUME CapacityAssumption == Capacity \in Nat \ {0}
ASSUME CharsAssumption    == " " \in Char /\ {NUL, "newline"} \cap Char = {}
ASSUME NamesAssumption    == Names \subseteq Seq(Char)
\* Enter on an empty line is EnterNothing.
ASSUME EnteredAssumption  == Entered \subseteq UNION {[1..n -> Char] : n \in 1..(Size - 1)}

VARIABLES
  running,    \* whether there is a multiplexer
  editing,    \* input_mode = INPUT_MODE_COMMAND
  buffer,     \* command_buffer
  cursor,     \* command_cursor
  history,    \* history->commands
  current,    \* history->current, an index from 0
  file,       \* the lines of ~/.cache/fry/command_history
  log         \* the commands of the file at the start and those entered since

lineVars    == <<editing, buffer, cursor>>
historyVars == <<history, current, log>>
commandVars == <<running, lineVars, historyVars, file>>

-----------------------------------------------------------------------------
(* Strings of C.                                                           *)

Index == 0..(Size - 1)
Empty == [k \in Index |-> NUL]      \* memset

strlen(b) == CHOOSE n \in Index : b[n] = NUL /\ \A k \in 0..(n - 1) : b[k] # NUL

\* Characters 1 to n of a buffer as a text.
Upto(b, n) == [i \in 1..n |-> b[i - 1]]
Line == Upto(buffer, strlen(buffer))

memmove(b, to, from, n) ==
  [k \in Index |-> IF k \in to..(to + n - 1) THEN b[from + k - to] ELSE b[k]]

\* strncpy(b, s, Size - 1) fills up with NUL and leaves the last byte alone.
strncpy(b, s) ==
  [k \in Index |-> CASE k = Size - 1 -> b[k]
                     [] k < Len(s) /\ k < Size - 1 -> s[k + 1]
                     [] OTHER -> NUL]

-----------------------------------------------------------------------------
(* Editing.                                                                *)

\* app_tui_command_enter
Open ==
  /\ running /\ ~editing
  /\ editing' = TRUE /\ buffer' = Empty /\ cursor' = 0
  /\ current' = Len(history)
  /\ UNCHANGED <<running, history, log, file>>

Emptied == editing' = FALSE /\ buffer' = Empty /\ cursor' = 0

\* Escape and Ctrl-C.
Cancel ==
  /\ editing
  /\ Emptied
  /\ UNCHANGED <<running, historyVars, file>>

Edited(b, c) ==
  /\ buffer' = b /\ cursor' = c
  /\ UNCHANGED <<running, editing, historyVars, file>>

\* Mutant: the line may fill the buffer.
InsertUnchecked(c) ==
  /\ editing /\ strlen(buffer) < Size
  /\ Edited([memmove(buffer, cursor + 1, cursor, strlen(buffer) - cursor + 1)
               EXCEPT ![cursor] = c],
            cursor + 1)

\* Also what becomes of a function key: isprint gets a code beyond a byte, which is
\* undefined, so the key does nothing or inserts some character.
Insert(c) ==
  /\ editing /\ strlen(buffer) < Size - 1
  /\ Edited([memmove(buffer, cursor + 1, cursor, strlen(buffer) - cursor + 1)
               EXCEPT ![cursor] = c],
            cursor + 1)

\* Mutant: the NUL is not moved with the rest.
BackspaceNoNul ==
  /\ editing /\ cursor > 0
  /\ Edited(memmove(buffer, cursor - 1, cursor, strlen(buffer) - cursor), cursor - 1)

Backspace ==
  /\ editing /\ cursor > 0
  /\ Edited(memmove(buffer, cursor - 1, cursor, strlen(buffer) - cursor + 1), cursor - 1)

\* app_tui_command_move_cursor, Home and End.
Move(to) == editing /\ to \in 0..strlen(buffer) /\ Edited(buffer, to)
MoveCursor == \E to \in {cursor - 1, cursor + 1, 0, strlen(buffer)} : Move(to)

Clear == editing /\ Edited(Empty, 0)

\* Where the spaces before the cursor begin, and where the word before them does.
SpacesBefore == CHOOSE p \in 0..cursor : /\ \A k \in p..(cursor - 1) : buffer[k] = " "
                                         /\ p = 0 \/ buffer[p - 1] # " "
WordBefore == CHOOSE p \in 0..SpacesBefore : /\ \A k \in p..(SpacesBefore - 1) : buffer[k] # " "
                                             /\ p = 0 \/ buffer[p - 1] = " "

DeleteWord ==
  /\ editing
  /\ Edited(memmove(buffer, WordBefore, cursor, strlen(buffer) - cursor + 1), WordBefore)

Recalled(s) == Edited(strncpy(buffer, s), strlen(strncpy(buffer, s)))

\* Tab: the line is completed when exactly one name begins with it.
Complete ==
  /\ editing
  /\ LET matches == {name \in Names : IsPrefix(Line, name)}
     IN  \E name \in matches : matches = {name} /\ Recalled(name)

-----------------------------------------------------------------------------
(* History.                                                                *)

\* app_tui_command_history_add on the pair of history and current.
Added(h, s) ==
  LET kept == IF Len(h.history) >= Capacity THEN Tail(h.history) ELSE h.history
      new  == Append(kept, s)
  IN  IF s = <<>> \/ (h.history # <<>> /\ Last(h.history) = s) THEN h
      ELSE [history |-> new, current |-> Len(new)]

Shown(n, b) ==
  /\ current' = n /\ buffer' = b /\ cursor' = strlen(b)
  /\ UNCHANGED <<running, editing, history, log, file>>

Previous ==
  /\ editing /\ current > 0
  /\ Shown(current - 1, strncpy(buffer, history[current]))

\* Below the last command there is an empty line.
Following ==
  /\ editing /\ current < Len(history)
  /\ Shown(current + 1, IF current + 1 < Len(history) THEN strncpy(buffer, history[current + 2])
                        ELSE Empty)

Blank(s) == \A i \in DOMAIN s : s[i] = " "
FirstWord(s) ==
  LET start == CHOOSE i \in DOMAIN s : s[i] # " " /\ Blank(SubSeq(s, 1, i - 1))
      end   == CHOOSE i \in start..Len(s) :
                 /\ \A j \in start..i : s[j] # " "
                 /\ i = Len(s) \/ s[i + 1] = " "
  IN SubSeq(s, start, end)

\* app_tui_command_parse_and_execute: a blank line is no error, an unknown name is one,
\* and the handler of a known name may find one.
Results(s) ==
  CASE Blank(s) -> {"success"}
    [] ~Blank(s) /\ FirstWord(s) \notin Names -> {"error"}
    [] ~Blank(s) /\ FirstWord(s) \in Names -> {"success", "error"}

\* The line is remembered before it is run, and stays on the screen when it fails.
Enter ==
  /\ editing /\ Line \in Entered /\ Len(log) < LogBound
  /\ LET added == Added([history |-> history, current |-> current], Line)
     IN  history' = added.history /\ current' = added.current
  /\ log' = Append(log, Line)
  /\ \/ "success" \in Results(Line) /\ Emptied
     \/ "error" \in Results(Line) /\ UNCHANGED lineVars
  /\ UNCHANGED <<running, file>>

EnterNothing ==
  /\ editing /\ Line = <<>>
  /\ Emptied
  /\ UNCHANGED <<running, historyVars, file>>

-----------------------------------------------------------------------------
(* From one multiplexer to the next.                                       *)

\* fgets takes at most Size - 1 characters at a time.
Pieces(s, size) ==
  LET all == Append(s, "newline")
      least(n) == IF n < Len(all) THEN n ELSE Len(all)
  IN [k \in 1..((Len(all) + size - 1) \div size) |->
        SubSeq(all, (k - 1) * size + 1, least(k * size))]

Cut(piece) == IF Last(piece) = "newline" THEN Front(piece) ELSE piece

\* h with the first n of some pieces, with a line in pieces, with the first n lines.
WithPieces(h, pieces, n) ==
  LET with[m \in 0..n] == IF m = 0 THEN h ELSE Added(with[m - 1], Cut(pieces[m]))
  IN with[n]
WithLine(h, line, size) == WithPieces(h, Pieces(line, size), Len(Pieces(line, size)))
WithLines(h, lines, size, n) ==
  LET with[m \in 0..n] == IF m = 0 THEN h ELSE WithLine(with[m - 1], lines[m], size)
  IN with[n]

Nothing == [history |-> <<>>, current |-> 0]

\* Mutant: the buffer of fgets is one character shorter.
ReadShort(lines) == WithLines(Nothing, lines, Size - 2, Len(lines))

\* app_tui_command_history_load drops the newline at the end of a piece.
Read(lines) == WithLines(Nothing, lines, Size - 1, Len(lines))

Off == /\ running' = FALSE
       /\ Emptied
       /\ history' = <<>> /\ current' = 0 /\ log' = <<>>

\* app_tui_mux_destroy writes the history over whatever the file holds; without the
\* directory nothing is written.
Quit ==
  /\ running
  /\ Off
  /\ file' \in {history, file}

\* The program is killed, perhaps while it writes the lines.
Crash ==
  /\ running
  /\ Off
  /\ \/ file' = file
     \/ \E n \in 0..Len(history) : file' = SubSeq(history, 1, n)

Start ==
  /\ ~running
  /\ running' = TRUE
  /\ history' = Read(file).history /\ current' = Read(file).current
  /\ log' = file
  /\ UNCHANGED <<lineVars, file>>

\* Any other multiplexer of the user ends.
Histories == {h \in UNION {[1..n -> Entered] : n \in 0..Capacity} :
                \A i \in 1..(Len(h) - 1) : h[i] # h[i + 1]}
OtherQuits ==
  /\ file' \in Histories
  /\ UNCHANGED <<running, lineVars, historyVars>>

-----------------------------------------------------------------------------
Init ==
  /\ running = FALSE /\ editing = FALSE
  /\ buffer = Empty /\ cursor = 0
  /\ history = <<>> /\ current = 0 /\ log = <<>>
  /\ file = <<>>

Next ==
  \/ Open \/ Cancel
  \/ \E c \in Char : Insert(c)
  \/ Backspace \/ MoveCursor \/ Clear \/ DeleteWord \/ Complete
  \/ Previous \/ Following \/ Enter \/ EnterNothing
  \/ Quit \/ Crash \/ Start \/ OtherQuits

Spec == Init /\ [][Next]_commandVars

-----------------------------------------------------------------------------
(* Properties.                                                             *)

(***************************************************************************)
(* The buffer always ends in a NUL, whatever lies behind the end of the    *)
(* line; the cursor is inside the line, and the history within its bounds. *)
(***************************************************************************)
CommandTypeOK ==
  /\ running \in BOOLEAN /\ editing \in BOOLEAN
  /\ buffer \in [Index -> Char \cup {NUL}] /\ buffer[Size - 1] = NUL
  /\ cursor \in 0..strlen(buffer)
  /\ Len(history) <= Capacity /\ current \in 0..Len(history)
  /\ editing => running

Editor == INSTANCE LineEditor WITH
  Limit  <- Size - 1,
  before <- Upto(buffer, cursor),
  after  <- [i \in 1..(strlen(buffer) - cursor) |-> buffer[cursor + i - 1]]

(***************************************************************************)
(* Seen from outside the buffer is a line editor: what is typed goes in at *)
(* the cursor, what is deleted comes from before it, the rest of the line  *)
(* is never touched, no line is longer than the buffer, and nothing left   *)
(* behind a NUL comes to light again.                                      *)
(***************************************************************************)
EditsLine == Editor!Spec

\* The first n of s, repetitions counting once.
Unrepeated(d, c) == IF d # <<>> /\ Last(d) = c THEN d ELSE Append(d, c)
DistinctOf(s, n) ==
  LET of[m \in 0..n] == IF m = 0 THEN <<>> ELSE Unrepeated(of[m - 1], s[m])
  IN of[n]
Distinct(s) == DistinctOf(s, Len(s))
Latest(s) == SubSeq(s, (IF Len(s) > Capacity THEN Len(s) - Capacity ELSE 0) + 1, Len(s))

(***************************************************************************)
(* The history holds the latest commands up to its capacity, those of the  *)
(* file and those entered since, failed ones too, each run of equal ones   *)
(* once; a line as long as the buffer allows survives the file.            *)
(***************************************************************************)
HistoryIsRecent == history = Latest(Distinct(log))
=============================================================================
