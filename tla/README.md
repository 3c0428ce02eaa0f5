# A verification model of fry

fry is a command-line program, written in C, that runs several Claude Code
processes side by side: `fry mux up` is a terminal multiplexer with one pane per
process, and the other commands manage the accounts, tokens and saved sessions
that the processes use. This directory holds TLA+ modules of its core, the
configurations that TLC checks them with, and theorems about them that TLAPS
proves.

Everything is translated from the C source. The documents of the repository
(`specs/session-multiplexer/`), its comments and its tests are quoted only where
a property says what they promise. Line numbers of every definition are in
`PROJECT.json` under `map`.

Contents: [inventory](#1-the-system) · [modules](#2-the-modules-and-the-code) ·
[runs](#3-the-runs) · [fairness](#4-fairness) · [proofs](#5-what-is-proved) ·
[findings](#6-where-the-program-and-its-documents-disagree) ·
[limits](#7-what-is-left-out) · [plan](#8-plan)

## 1. The system

| Component | State it keeps | Operations | What makes it hard |
| --- | --- | --- | --- |
| Pane manager `tui/panes/tui_pane.c` | array of panes with a count, the focused pane, per pane its number, focus flag, state, PTY master, process id | create, destroy, focus (by pointer, number, direction, next, previous, last), destroy all | the focus is kept twice, numbers are renewed on every close, three functions close a master |
| Pane launch and PTY `tui_pane_launch.c`, `tui/pty/` | open descriptors, children | open a PTY, fork, terminate, close | partial failures; children that nobody waits for; descriptors and process ids that are reused |
| Event loop `tui/mux/tui_mux_event.c` | set of ready descriptors, loop index, frame clock, resize flag, running and exiting flags | one pass: select, resize, one key, every PTY, frame | a command in the middle of a pass changes the panes the pass is about; signals between any two steps |
| Navigation `tui/mux/tui_mux_nav.c` | mode of the multiplexer | key bindings | as the pane manager |
| Input system `tui/components/tui_input.c` | a buffer of 32 bytes, an escape timeout | one event per call | sequences in pieces, bytes read ahead of select |
| Command mode `tui/components/tui_command.c` | a buffer that ends at its first NUL, a cursor, the history and its file | editing, completion, history, running a command: `:quit`, `:close`, `:new`, `:focus`, `:layout`, `:set`, `:save`, `:load` | a buffer moved in place, limits, a command fails after it has had its effect, the file is shared by all multiplexers |
| Terminal emulator `tui/pty/tui_term_emulator.c` | cursor, scroll region, scrollback ring, parser | one byte | sequences cut anywhere, limits of the region, the ring and the buffer |
| Session manager `core/session.c` and its commands `cmd_stubs.c` | a list of sessions in memory, a file per saved session | load all, start, attach, save, restore, stop, destroy | commands overlap and share files and processes; interruption at any point; process ids that are reused |
| Accounts `core/auth/oauth.c`, `cmd_accounts.c`, `cmd_auth.c`, tokens commands of `cmd_stubs.c` | key file, one encrypted file per account | login, logout, add, export, rm, use, rename, refresh, expire | as sessions, with a server that replaces tokens and files that are written in place |
| Keychain `core/auth/keychain*.c` | a second copy of tokens | store, delete | failures that are only logged |
| Configuration `core/config.c` | `config.json`, here its default account | load, set, save | read at the start, written at the end |
| Layout `tui/tui_layout.c` | mode, size of the terminal, the rectangle of each pane | arrange, change the mode, resize, and every operation that opens or closes a pane | remainders, rows that are not full, screens with few lines |
| Workspace file `tui/tui_workspace.c` | a JSON file with the layout and the accounts of the panes | save, load | a load closes what is there, a crash leaves a part of the file |
| JSON `utils/json.c` | a tree of values, a text and a position in it | build, write, read | escapes, nesting, texts that were cut short |
| Rendering, older TUI, HTTP, support code | | | sequential, or calls of libraries |

The components meet in three places. `cmd_mux_up` creates the session manager,
the multiplexer with its pane manager, input system and command mode, opens the
first panes and enters the loop; from then on everything in the process happens
inside a pass. A pane owns a PTY master and a child; the loop polls the masters,
hands the output to the emulator of the pane and marks a pane whose child has
gone. Every other command is a short process of its own: commands meet through
the files of `~/.fry`, the keychain, the processes they start and signal, and the
server that issues tokens.

What makes each part correct:

* **Panes.** Numbers 1, 2, ... in the order of the array; one focus, on an open
  pane, whichever record of it is read; every open master belongs to one pane and
  every running child to a pane or to a signal; `kill` never meets a process id
  that was given away.
* **Loop.** It uses panes through the manager alone; a pane is called disconnected
  only if its child has gone; output is read, a resize handled, a change drawn and
  a quit obeyed, whatever else goes on; keys do not wait for other keys.
* **Command mode.** Text typed for one command never reaches the next. The buffer is
  a line editor to whoever types, up to its last byte; the history has the latest
  commands, in this multiplexer and the next.
* **Layout.** The panes tile the terminal, whatever their number and its size, and
  every pane can be reached with the direction keys.
* **Workspace.** A load brings back what was saved, or leaves the panes alone.
* **JSON.** The reader takes JSON and nothing else, and reads what the writer wrote;
  a file cut short is refused.
* **Emulator.** The cursor stays on the screen, and nothing outside of it is written,
  as far as this is true (section 6): a number in a sequence that overflows an `int` takes the
  cursor away. The region stays on the screen, the ring and the counters of the parser in
  range; lines move to the scrollback before they are written over.
* **Sessions.** A running claude is on record; a session on record as ended has
  ended; looking at sessions does not change them.
* **Accounts.** What was saved can be read again; a login whose refresh token is fry's
  alone is not lost by commands that overlap without touching the same account; a
  removed account is not the default.

## 2. The modules and the code

```
 PaneList   <--implements--  PaneManager  <--INSTANCE, implements--  EventLoop --EXTENDS--> TerminalInput
                             PaneManagerProofs <--INSTANCE-- EventLoopProofs
 LineEditor <--implements--  CommandLine
                             CommandLineProofs

 PaneLayout  <--EXTENDS--  Workspace  --EXTENDS-->  JsonStrings  <--EXTENDS--  Json  <--EXTENDS--  JsonDocuments  <--EXTENDS--  JsonGrammar
                           WorkspaceProofs --EXTENDS--> JsonProofs --EXTENDS--> JsonGrammar

 TermEmulator  TermEmulatorProofs    Sessions  SessionsProofs    Accounts  AccountsProofs
```

The `MC*` modules extend one module each and add the symmetry of its model values.
Definitions whose comment begins with "Mutant" are plausible mistakes in the code
that a definition translates; they are not part of any specification, and
`PROJECT.json` says which property each of them breaks.

**PaneList** is what the pane manager promises: a sequence of panes without
repetition and a focus in it, with `Open`, `Close` and `Select`.

**PaneManager** has `app_tui_pane_manager_t` and the fields of the panes as
variables (`panes`, `pane_count`, `focused_pane`; `number`, `has_focus`, `state`,
`last_focus_time`, `pty_master`, `process_pid` as functions of the pane), and what
the kernel keeps: `open_fds`, `child`, `signalled` and the second `now`. `AddPane`
is `app_tui_mux_add_pane` with a launch that succeeds (`OpenPty`, `Spawn`), one that
fails before a PTY is open (`LaunchFails`), or one that fails at the spawn, when
`app_pty_close` has to give the descriptor back (`SpawnFails`, `ClosePty`); a failed
launch leaves a pane marked `ERROR`. `RemovePane` is the whole of
`app_tui_pane_destroy`: closing the master, the SIGTERM, the shift of the array with
its new numbers, and the focus. `FocusStep` is the six ways the code has to
move it, each with the search it really uses (the pointer or the flags), and
`PtyClosed` and `TerminateProcess` are the two other calls that let go of a child.
`ChildExits` turns a child into a zombie, which it stays: nothing in the
multiplexer waits for it. Slots past `pane_count` keep their stale pointers.

**TerminalInput** has the bytes in the kernel (`stdin`) and in the program
(`buffer`). `Take`, `NeedsMore`, `Fill` and `Expire` are the parts of
`app_tui_input_read_event`; bytes are one representative of each class that the
parser tells apart.

**EventLoop** is `app_tui_mux_run_enhanced`. A pass goes through the values of `pc`:
`select`, `resize`, `keys`, `ptys` (one step per pane, `slot`), `render`. What else
can happen between two of these steps is an action of its own: `Terminal`, `Writes`,
`Exits`, `Sigwinch`, `FrameEnds`, `Seconds`. `ready` is the `fd_set` after `select`;
it is a set of numbers, and stays what it was when a command closes a pane and
another one gets its descriptor. A key goes to `HandleEvent` (bindings of the input
system) or `HandleInput`, from there to the mode, the command line and the commands.
`:load` takes the panes away and opens those of the file one by one (`Unload`,
`Load`, `Loaded`). `line` is the length of the command line.

**Sessions** has one process per command (`Fry`), with `pc`, `cmd`, the files it has
still to load, the manager's array of sessions and the index of its loops; and the
kernel's processes with their parent and the session they were started for.
Truncating a session file and writing it are two steps, and between any two steps
another command may run or this one be interrupted. Opening the file may fail, and so may
writing it (`WriteFails`): a record is shorter than the buffer of stdio, so nothing of it is
written then, and the command goes on. `cut` has the sessions whose saving was
interrupted or failed. Sessions that
`app_session_destroy` has freed stay in the array with `freed` set, as their pointers
do. A process id is reused by a new claude or by another program.

**Accounts** has the account commands in the same way: `run[f]` is the memory of
command `f`, with the step it is at, and the shared state is `key_file`, `file`,
`keychain`, `config_file` and the server (`issued`, `valid`). Opening a file empties
it (`OpenKey`, `OpenAccount`, `OpenConfig`) and writing it is another step. A file
that is being written follows a rename and survives a removal without a name, as an
inode does (`open`, `Moved`). `Rotate` is the server taking a refresh token and
answering with a new one, an answer that may be lost. `outside` has the refresh tokens that
are, or once were, outside `~/.fry` too: another program's (`Elsewhere`) and those that
`accounts export` printed (`Export`). `accounts add` takes any of them (`Add`) and asks no
server, so that an imported token may have been used up, or be held under another name
already. Two history variables name the
cases in which the code gives no guarantee: `raced` (two first commands made a key at
once) and `broken` (the accounts whose file was cut short, whose answer was lost, or
that two commands changed at once).

**TermEmulator** is `process_byte`, `write_char` and `parse_csi`. `cur` holds the
cursor and the scrollback position, which all writes change together, and whether
memory outside the screen was touched (`bad`, from `Touch` and `Erased`), after which the
model ends; the parser has its state, the length of `escape_buf` and whether its last byte is
ESC, and the continuation bytes that a character still needs. The digits of a sequence
are not kept: its parameters (`Params`) are any `int`, because `param * 10 + digit` goes
around in one, and sums with the cursor go around too (`Wrap`). `MaxInt` stands for
`INT_MAX`. `astray` remembers that such an overflow moved the cursor.

**CommandLine** is the command line with its bytes: `buffer` has a position for each
byte of `command_buffer`, ends at the first `NUL`, and is changed by `memmove` and
`strncpy` as in the code, so that what lies behind the `NUL` is there too. `Enter`
remembers the line, runs it (which succeeds or fails) and empties the buffer only on
success. `Quit` writes the history, `Start` reads it again in the pieces that `fgets`
makes of a line; `OtherQuits` is another multiplexer writing its history over the same
file, and `Crash` leaves any part of it.

**LineEditor** is what that promises: a text before and a text after the cursor.

**PaneLayout** has the rectangles. `Cell` is the loop of
`app_tui_layout_arrange_grid`, `Arranged` is `app_tui_layout_calculate`, and the
operations of the multiplexer end in it, as in the code, or do not: a change of the
focus arranges nothing, also in focus mode. `Neighbour` is
`app_tui_mux_focus_direction` with its distances between centres. Panes are their
positions in the array: PaneManager has what stands behind a position.

**Workspace** adds to PaneLayout the account of each pane and the file. `Save` writes
the mode and the accounts, `Load` closes all panes and opens those of the file, up to
`max_panes`, or refuses the file and leaves everything alone. `Restart` is the program
ending, in the middle of a save too, and starting again on a terminal of any size.

**JsonStrings** is `stringify_string` and `parse_string`; **Json** the rest of the
writer and of the reader. A value is a record with the fields of all types. What is
written is a function of the value and its level (`Written`), one level of documents
above the other; what is read is a function of the kind of part (a value, the loop of
`parse_array`, the loop of `parse_object`) and the position it begins at (`Parsed`), each
part given what the others read from later positions. **JsonDocuments** has the documents
the program builds with `json_array_append` and `json_object_set`, writes, and a crash
cuts short, and texts that anybody may have typed. **JsonGrammar** is what the reader is
compared with: which stretches of a text are values, items or members, written from what JSON is.
A stretch is a value when there are places in it with only blanks outside of them and a word, a
number, a string or something in brackets between; nothing in it looks ahead, skips, counts or
takes the longest, as the reader does.

## 3. The runs

All runs end with no error or with the violation they are there for. Deadlock is not
checked where a system may stop: panes may all be closed, commands may all have ended, and a loop that has
ended stops.

| Run | Bounds | States | What it shows |
| --- | --- | --- | --- |
| `panes` | 3 panes, 3 descriptors, 3 process ids, 2 seconds | 102 thousand | all the invariants of the pane manager, and that it implements PaneList |
| `panes_shutdown` | 2 panes | | violated: `DestroysAllPanes` |
| `loop_commands` | 2 panes, fallback input, bytes `:` and Enter | 753 thousand | commands that change the panes in the middle of a pass: `DrivesPanes`, `NoFalseDisconnect`, `LineCleared` (in normal mode; Ctrl-W may leave text behind, in a mode that no key leaves) |
| `loop_keys` | 1 pane, both inputs, sequences in pieces, resizes | 241 thousand | liveness: `OutputIsRead`, `ResizeIsHandled`, `ChangesAreDrawn`, `QuitEnds`; `OutputIsRead` against a busy keyboard, not against another pane |
| `loop_latency` | 1 pane, input system, 2 bytes in the kernel | | violated: `KeysAreHandled` |
| `sessions` | 3 commands, 2 process ids, 1 saved name, 2 arguments | 966 thousand | `Recorded`, `EndedHaveEnded` under overlap, interruption, failing writes and reuse |
| `sessions_list` | 2 commands | | violated: `ListStopsNothing` |
| `accounts` | 3 commands, 2 accounts, 2 keys, 2 tokens | 634 thousand | `AccountsReadable`, `LoginKept` under overlap, interruption, exports and imports |
| `emulator` | screen 3 by 3, tab stops 2 apart, scrollback 2, buffer 2, `int` from -5 to 4 | 213 thousand | every sequence of bytes keeps the invariants, with numbers that overflow; `WritesOnScreen`, `LineFeedsScroll` |
| `command_line` | buffer of 4, history of 2, two characters, 4 commands | 227 thousand | `EditsLine`: the buffer implements LineEditor; `HistoryIsRecent` over failures, restarts, crashes and other multiplexers |
| `workspace` | 3 panes, 23 by 10, one account | 324 thousand | `Tiled`, `DirectionsReachAll` after every operation; `LoadRestores` over restarts and crashes |
| `json` | texts of 4 symbols after each of 4 openings, documents of 3 levels | 283 thousand | `ReadsJson` against the grammar, `RoundTrip`, `CutIsRefused`, `SetThenGet` |

Why the bounds are enough:

* Three panes are a first, a middle and a last one: each case of the shift, of the
  renumbering and of the choice of the next focus occurs, and a fourth adds only
  more middle ones. Three descriptors and process ids let one be reused while the
  others are open. Two seconds make `last_focus_time` tie and differ. Two panes are
  enough for `loop_commands`, where one closed and one opened pane have the same
  descriptor.
* In the loop, `Typed` is chosen for each question; one byte in the kernel at a time
  still leaves sequences in pieces, since the buffer holds what came before. A buffer
  of two makes it full. The liveness run has one pane because a pass treats panes
  alike, one after the other; fairness to one among several is what `PtysYield`, its
  mutant, and the order of the pass are about.
* Three commands are the least in which one overlaps another while a third looks at
  what they left; the longest dependency between commands in the code is a load, a
  change by somebody else and a write. Two process ids let one be reused. Two accounts
  are needed for a rename, and for one file imported under two names; two keys for a race;
  two refresh tokens are one from a login or an import and the one that replaces it.
* Three columns with tab stops two apart have a stop in the line, one past it and a column
  after the last; three lines a region smaller than the screen. A buffer of two has all
  three cases: empty, room, full. An `int` of ten values has room for every position and
  the one past it, parameters of either sign, and sums that overflow at either end.
* A buffer of four holds lines of three characters: a place before, at and after the
  cursor, a word with a space on either side, and the last byte. A line that fills the
  buffer is the one that `fgets` reads in two pieces. A history of two is full after
  two commands, and four commands move everything out of it once.
* Three panes have a row that is not full. The operations are checked with three; the
  arrangement itself, `GridTilesAssumption`, for one to nine panes on twelve screens
  that have every remainder of a division by two and three, and proved for all
  (section 5). 23 by 10 has remainders in both directions.
* Four symbols after an opening (nothing, an array after a comma, an object after a
  key, a string after a backslash) reach every state of the reader, each with a symbol that it must refuse.
  Three levels are an element that is a container inside another, so that commas and
  closing brackets belong to one of two; deeper ones repeat this.

Every property that passes was also checked against at least one mutant of the code
that breaks it.

## 4. Fairness

Only the loop has liveness properties. `LoopFairness` is weak fairness of `Pass` (the
process is scheduled; every call in a pass returns, since the descriptors are
non-blocking and `select` has a timeout) and of `FrameEnds` (`gettimeofday` goes on).
Nothing is assumed of the user, of the children, of SIGWINCH or of the choice between
the input system and ncurses: nobody has to type, write or end. A step of a pass that
another action can disable for ever would not be fair to assume; in this code none
can, because the pass is sequential and only `select` waits.

The session and account commands have no fairness: each may stop at any point, and
everything stated of them is safety.

## 5. What is proved

| Theorem | For every | Statement |
| --- | --- | --- |
| `PaneManagerProofs!TypeCorrect` | number of panes up to nine, set of descriptors and process ids | `TypeOK` |
| `ListCorrect` | the same | `NumbersDense` |
| `FocusAgrees` | | `FocusConsistent` |
| `MastersOwned` | | `MasterOwnership` |
| `AttachedTogether` | | `Attached` |
| `ChildrenOwned` | | `NoForgottenChild` |
| `SignalsReachOwnChild` | | `SignalsOwnChild` |
| `Implements` | | `ImplementsList`: the pane manager implements `PaneList` |
| `TermEmulatorProofs!StaysOnScreen` | size of screen, buffer and `int`, distance of tab stops | `CursorOnScreen` |
| `WritesStayOnScreen` | the same | `WritesOnScreen` |
| `RegionOnScreen` | | `RegionOrdered` |
| `RingKept` | size of the scrollback | `ScrollbackRing` |
| `EmulatorTypes` | | `EmulatorTypeOK` |
| `CharacterPending` | | `Utf8Pending` |
| `ScrollsOnLineFeed` | | `LineFeedsScroll` |
| `EventLoopProofs!LoopDrivesPanes` | number of panes up to nine, set of descriptors, process ids and bytes, size of the command line | `DrivesPanes`: the loop implements the pane manager |
| `LoopKeepsPanes` | the same | the six invariants of the pane manager, in the loop |
| `NeverDisconnectedAlive` | | `NoFalseDisconnect` |
| `LoopTypes` | | `LoopTypeOK` |
| `LineIsCleared` | | `LineCleared` |
| `CommandLineProofs!CommandInvariant` | size of the buffer and of the history, set of characters, of names and of lines entered | `CInv`, the inductive invariant |
| `CommandTypes` | the same | `CommandTypeOK` |
| `CommandsRemembered` | | `HistoryIsRecent` |
| `LineEdited` | | `EditsLine`: the command line implements `LineEditor` |
| `SessionsProofs!SessionsTypes` | set of commands, names, arguments and process ids | `SessionsTypeOK` |
| `RunningIsRecorded` | the same | `Recorded` |
| `EndedIsTrue` | | `EndedHaveEnded` |
| `AccountsProofs!AccountsTypes` | set of commands, accounts, keys; number of tokens | `AccountsTypeOK` |
| `AccountsCanBeRead` | the same | `AccountsReadable` |
| `LoginIsKept` | the same | `LoginKept` |
| `WorkspaceProofs!GridTiles` | terminal of 20 by 5 or more, number of panes up to nine | the grid tiles the terminal |
| `AlwaysTiled` | limit of panes, set of sizes, set of accounts | `Tiled` |
| `WorkspaceTypes` | the same | `WorkspaceTypeOK` |
| `GridReachesAll` | terminal of 20 by 5 or more, number of panes up to nine | the direction keys lead from every pane of the grid to every other |
| `KeysReachAll` | limit of panes, set of sizes, set of accounts | `DirectionsReachAll` |
| `LoadsWhatWasSaved` | the same | `LoadRestores` |
| `JsonProofs!ReadsJsonAlways` (`ReadsJson`), `ReaderIsRight` | openings over the alphabet | of any text, every part of the reader finds what the grammar says begins at its position, and the longest of it, or fails because nothing does |
| `JsonProofs!ReaderAdvances` | text of any symbols | the reader is defined: each part of it gives what the code computes from the parts it calls, and fails or ends behind the place where it began |
| `WritingIsRead` | set of characters, number of levels, level it is written on, text around it | what is written of a document is read back; a proper beginning of an array or object is not |
| `RoundTripAlways` | set of characters, keys and leaves; number of levels and entries | `RoundTrip` |
| `CutIsRefusedAlways` | the same | `CutIsRefused` |
| `SetThenGetAlways` | the same | `SetThenGet` |

The assumptions are those on the constants, named in each module: `NoPane` is no
pane, descriptors are natural numbers, -1 is no process id, at most nine panes
(`max_panes` of `cmd_mux_up`), sizes are positive, an `int` holds the size of the emulator's
screen, and one column more, a terminal has 20 columns and 5
lines (`app_tui_layout_create` refuses a smaller one), `NoName` and `NoKey` are none,
standard input is not the descriptor of a pane, and the two markers of Sessions are no
commands. In the command line the buffer has two bytes or more (the program's has 256), a
space is a character, the NUL and the newline are none, names of commands consist of
characters, and Enter is pressed on lines that fit the buffer; account names are sequences of
characters. Documents have two levels or more, their leaves are values of one level, and their keys
are sequences of characters; typed texts begin with symbols of the alphabet. WorkspaceProofs extends JsonProofs for its lemmas about strings; the constants
and variables that come with it are in none of its theorems.

*Panes.* The list part, `ListInv == TypeOK /\ NumbersDense /\ FocusConsistent`, is
inductive by itself: dense numbers say that no pane is at two indices (`Distinct`),
which is what makes the shift of `app_tui_pane_destroy` remove exactly one pane
(`ShiftLemma`) and leaves the pointer and the flags nothing to disagree about. The
process part, `ProcInv`, needs the list part: a descriptor or child belongs to one
pane only as long as the array holds every pane once. `Attached` strengthens
`MasterOwnership` and `SignalsOwnChild` against the calls that let go of one of the
two. The refinement maps `order` to the first `pane_count` slots and `focused` to
`focused_pane`; each action is `Open`, `Close`, `Select` or a stutter.

*Emulator.* `IInv == Good(cur) /\ astray \in BOOLEAN /\ CursorOnScreen /\ RegionOK /\
ParserOK`. Each writing operator is a function from a cursor to a cursor, with a lemma that
it keeps `Good` and that a cursor on the screen leads to one on the screen (`Follows`); the
region is needed because a line feed sets the row to `scroll_bottom`, and the state of the
parser because `Utf8Pending` bounds a counter that is tested for zero only. `WrapInt` and
`SumInt` say what remains of a sum that overflows: a number of the type, and the sum itself
when it fits, which is all the movements that are not astray need (`MoveStays`). The region
needs no such case: it is clamped on both sides, and an empty one is replaced, whatever
number comes. That writes stay on the screen follows from where the cursor is, but for an
erasing up to a wrap that is pending (`ErasedOnScreen`).

`ScrollsOnLineFeed` needs no more of it than that a row is a row of the screen.

*Loop.* The panes part is a step-by-step refinement. `PaneStep` says what a step of the
loop may do to the panes: a step of the pane manager or nothing. Each key binding,
command and part of a pass has a lemma that it is one (`StepDrives`), which is
`DrivesPanes`. `Manager == INSTANCE PaneManagerProofs` then gives the loop the theorems
of the pane manager without a second proof (`LoopKeepsPanes`), which is why EventLoop
assumes of its constants what PaneManager does. `LoopInv == PanesOK /\ NoFalseDisconnect
/\ ModesOK /\ PassOK /\ InputOK` is inductive: `ready` is a set of descriptors that
outlives the panes it was made for, and what makes it harmless is that a pane is
marked by what its read returns, not by `ready`, and that a hang-up needs a child
that has gone and does not come back (`DisconnectKept`, for every step that keeps or
replaces a pane). `ModesOK` has the command line: every way into normal mode empties
it, so that `LineCleared` is inductive only together with the mode.

*Sessions.* `SessionsInv == StateInv /\ Truth`. A record is *true* (`Truthful`) when it says
running, and where, of every session whose claude runs; `FilesTrue` and `HeldTrue` say
that this is so of all files and of every list in the memory of a command that may
still write. A record only becomes untrue when a process appears, and the process that
`start` creates has an id that no file, no list and no process has (`Fresh`, `Unused`),
so every step that ends processes (`Shrinks`) keeps the truth of what was loaded long
ago. `EndedHaveEnded` follows at once. `Recorded` is proved in the stronger form
`OnRecord`: the record is in the file of the session's own id, or on its way there; a
file of that id is written only with that id (`Destined`), since the files that users
name have other names.

*Accounts.* `KeyInv == AccountsTypeOK /\ RunsOK /\ OneKey`. `RunsOK` says what a
command must know at each step (a key once it has read one, a name while it works on
an account, an open file only while it writes): without it the types are not
inductive. `OneKey` is the argument for `AccountsReadable`: unless two commands make
a key at once, at most one makes a key, there is none on disk meanwhile, and all
other commands and files are under the one on disk; so the command that makes one
finds no file that could be under another. `KeyKeptStep` and `FileFrom` say that no
other step touches a key.

*Logins.* `LoginInv` says who holds which refresh token, of those that are fry's alone
(`Own`); of one that was outside nothing can be said, since anybody may use it up. A token
that is exported is one less to speak of, and one that is imported was none to begin with
(`ExportShares`, `AddShares`, `ElsewhereShares`, `ShareKeeps`). A token that is new is known to
one command (`NewOK`) and the server takes it. The token of a saved account that is not
broken is in no other file and with no command that works on another account (`FileOK`),
and is either taken by the server or its successor is with a command that has not opened
the file yet (`Rescued`). While a command writes, its tokens are in no file at all, and
another command that has one of them has not opened the file, which it will find changed
(`WriteOK`): this is why two commands that loaded the same account cannot both save it
without breaking it. A file with another name than its account's was moved, and is broken
(`OpensOK`). Every action is one of five kinds, each with one lemma: a command leaves
(`Leaves`), takes tokens (`Takes`), opens a file (`Opens`), writes it (`Puts`) or moves it
(`Moves`). TLC finds `LoginInv` to hold under the bounds of the run, too.

*Layout.* A length is divided into at most three parts, the last of which has the
remainder: parts are in order (`PartsInOrder`), cover the length (`PartsCover`) and
stay inside it (`PartBounds`). The index of a pane gives its place in a table that is
filled row by row (`Places`, `PlacesInOrder`), and every place of the table is that of
a pane or lies after the last one (`PlaceOf`). `GridTiles` follows, one part for the
columns and one for the rows. That the panes are always tiled needs the invariant
`InGrid`: outside focus mode the rectangles *are* the grid for the number of panes; a
change of mode has to restore it and a change of the focus may not lose it. `WInv` adds
that accounts and file are lists, which the lengths in `WorkspaceTypeOK` need. That a
direction key leads to a pane at all (`NeighbourIsPane`) rests on the least of finitely
many distances, which is shown for one pane more at a time up to nine (`FirstOfMore`).

From every pane to every other: the centres of the cells are in order along rows and columns
(`MidsInOrder`, `Centres`), the key that leads straight to the neighbour finds it, because
any other candidate is a detour (`Detour`, `LeadsToClosest`), and so a key brings a pane nearer
to the first one, along its row or its column, and another key brings it back (`Nearer`).
The first pane is at most half as many keys away as there are panes (`FarIsShort`), so the
way to it and from it to any other (`KeysToFirst`, one key more at a time) takes no more
keys than `ReachedWithin` allows. `ReachedSteps` gives what its recursive function
computes after any number of keys.

*Command line.* `CInv == LineOK /\ HistoryOK`. `LineOK` is the buffer with its last byte
`NUL`, which nothing may write over, and the cursor not behind the first `NUL`. `strlen`
is a search, and what it returns after each edit is settled by `StrlenIs`: the end is unique, so
to know it one shows a `NUL` with none before. `Moved`, `Inserted`, `TakenOut` and `Copied`
are what `memmove` and `strncpy` do to a buffer with a given end, and `WordStart` is the search
for the word before the cursor. `HistoryOK` is `HistoryIsRecent` with the types it needs: every
remembered command was once a line, so none is empty and none too long for `fgets`.
`ReadIsRecent` follows the recursion over the lines of the file: a line of the full length comes in
two pieces, the second of them a newline by itself, which is skipped (`TwoPieces`), and what
is left after the last line is the latest distinct commands, since dropping the oldest before or
after an addition makes no difference (`AddedToLatest`). `LineEdited` maps the buffer
to the text before and after the cursor: one lemma per key says that the bytes that were
moved are those texts (`InsertIsInsert`, `TakeOutIsCut`, ...).

*Workspace file.* `SInv == WInv /\ TextsOK /\ SavedOK`: the accounts of the panes and in the
file are texts, and as long as something is saved, the file is whole and has each name of
`saved` as `parse_string` will read it. `LoadRestores` then needs that a plain name is read
as it was written (`RereadPlain`), for names of any length. The escapes, the scan for the quote
and `FlattenSeq` are recursive functions, of which nothing is known before they are shown
to exist (`FollowsExists`, a function defined from the end of a text to its beginning);
what they return is then shown for one place more at a time, by a place that would be the first or
the last without it (`Upwards`, `Downwards`).

*JSON.* Reading comes first. The parts of the reader call each other, so that the function `Parsed` exists only
because none of them reads from a place before its own: `PartNeeds` says that a part depends on what is
read behind its position alone, `PartsBefore` adds one position to what is known of those behind it, and
`ReaderAdvances` goes from the end of the text to its beginning.

The grammar exists as the least set of stretches that its rules lead to (`GrammarIs`, from
`PartGrows`: more known stretches never make fewer). `ReadRightFrom(t, i)` compares the two at all places from i on:
what the reader finds is in the grammar (`ValueFound`, `LoopFound`), and what is in the grammar the reader takes,
up to its end, to blanks before it, or beyond it in the middle of a number (`ValueTaken`, `Reaches`); a loop, which is followed by its
bracket, exactly to that bracket (`LoopTaken`). Each place follows from those behind it. The quote that
ends a string is where the scan finds it (`StringIs`), because the scan goes through the same places at
which the characters of the string begin. `LoopBegins` is why the reader may decide on one symbol: what has entries does not begin with
its closing bracket.

A writing is shown to be read wherever it stands. `Agrees(t, p, w)` says that the text t goes on
from p as w does, as far as t goes, so that one notion covers a text that holds the writing and one that ends
inside of it. `ValueFine` is what should be read there: the value and the position behind it, or a failure if
the text ends before (a number is then read as far as it goes). `ReadBack` says so of every text,
`ReadInWhole` that nothing less will do. A string is followed through its escapes (`StringRead`) and a number to its last digit. Of an array or
object, `ListedLaid` gives the places of the entries, the commas and the bracket among spaces and lines, and `LoopRead` takes the loop of
`parse_array` or `parse_object` through them from the last entry back to the first: `LoopFine` says
that it reads the entries from i on and the bracket, or fails if the bracket is not there.
`ValueHere` puts the types together, and `WritingIsRead` is the induction over levels; `WrittenIs`
and `DocumentIs` say what the functions `Written` and `Documents` are on each level.

`DocInv` is the invariant of the documents: the document has at most `DepthBound` levels, no key of it comes twice,
a text that is written is one of its two writings, and one that is cut is a proper beginning of one. Setting a
key (`SetKey`) either replaces the value of the first place with that key, the only one, or adds a place behind all
others. The three properties follow from it with `WritingParsed`, which is `WritingIsRead` for a
text with nothing around it. TLC finds `DocInv` to hold under the bounds of the run, too.

Two habits of the proofs have reasons outside the argument. `Quote` and `Cat` are names for a
character and for a concatenation that the solver should not look into, as are `Comma`, `Minus` and the
names of other symbols; and steps about
lengths are kept apart from steps about functions from 0, which are never sequences.

Only model-checked: the liveness of the loop (and `ENABLED`, which is outside what the prover
does). All other properties of the passing runs are theorems.

## 6. Where the program and its documents disagree

Three are runs that end with a counterexample; `PROJECT.json` quotes the sentence.

1. `panes_shutdown`: `app_tui_pane_manager_destroy` skips every second pane, because
   `app_tui_pane_destroy` shifts the array under its index.
2. `loop_latency`: keys that the input system has read ahead are handled only when
   another key is typed; `select` does not know of them.
3. `sessions_list`: `fry sessions list` sends SIGTERM to sessions that run in the
   background.

The others show in the definitions themselves, in one step, and have no run:

* With the input system, Enter arrives in the command line as the letter M
  (`tui_input.c:449`, against the comment "Enter" at `tui_command.c:179`), so no command
  can be submitted there: `KeyFromInputSystem` of EventLoop.
* A removed account, or one that was logged out, stays the default account
  (`config.c:381`, against "If this was the default account, clear it" at
  `cmd_accounts.c:173`): `SetDefault` of Accounts.
* A device control string longer than the buffer never ends (`tui_term_emulator.c:560`,
  against "skip until ST" at `:558`), and the pane shows nothing more.
* `parse_string` counts an escape as one character and then takes that many bytes of
  the text, so a string loses one character of its end for every escape in it
  (`json.c:39-104`): `Content` of JsonStrings. `RoundTrip` and `LoadRestores` are stated
  for names without such characters.
* "If terminal is resized, then the system shall reflow the layout proportionally"
  (`requirements.md:70`): a resize arranges the panes for the size of the start, since
  `app_tui_layout_resize_terminal` has no caller: `Resize` of PaneLayout.
* A resize in focus mode, or any other arrangement there, touches the focused pane
  only, and a change of the focus arranges nothing: the pane that gets the focus keeps
  the rectangle it had.
* A number in a sequence is an `int` that nothing bounds (`tui_term_emulator.c:263`), and
  each of the relative movements looks at one edge of the screen only (`:286-300`):
  `ESC [ 3 0 0 0 0 0 0 0 0 0 A` leaves the cursor far below the screen, and the next
  character is written there. `CursorOnScreen` and `WritesOnScreen` speak of a cursor no
  overflow has moved (`astray`): `Move` of TermEmulator.
* Erasing to the start of the line includes the cursor's column (`tui_term_emulator.c:339`,
  `:355`), which is one past the line while a wrap is pending: in the last line this is
  one cell past the screen. `WritesOnScreen` names the case: `Erased` of TermEmulator.
* `accounts add` takes the refresh token of a file without asking the server
  (`oauth.c:677`). The same credentials file, or what `accounts export` printed, imported
  under two names and refreshed under one of them leaves the other with a token the
  server refuses, although no command was interrupted, failed or overlapped: `Add` of
  Accounts. `LoginKept` speaks of tokens that never left `~/.fry`.
* Pane ids (`pane_<count>_<getpid()>`, `tui_pane.c:86`) repeat after a close; nothing
  reads them yet.
* The frame clock restarts only when something is drawn (`tui_mux_event.c:233`), so a
  loop with nothing to draw calls `select` with no timeout for as long as it is idle,
  against "minimal CPU when sessions are idle" (`requirements.md`); only processor time
  depends on it.
* Ctrl-W enters a mode that no key leaves (`tui_mux_nav.c:383`), and with 32 bytes of an
  unfinished sequence buffered the read of `tui_input.c:491` has no room and counts as
  the end of the input.

Behaviour that is as coded and worth knowing: a running claude that is sent SIGTERM by
another fry is taken for ended at once, since `waitpid` fails for a process that is
not a child; the keychain takes no token on Linux; `accounts rm` and `accounts rename`
leave the keychain entry of the old name; two commands that save the configuration
lose one of the changes; logging in under the name of an account replaces it. `:load`
of any JSON object that has no layout closes all panes; a workspace without panes
cannot be saved; a pane without an account comes back with the account `""`; each
multiplexer that ends writes its history over that of the others. On a terminal of
fewer than ten lines seven panes have no room inside their borders, and the size given
to their PTYs is not positive.

## 7. What is left out

* **Data.** The text of panes, the cells of the screen, PKCE, the cipher and HTTP: no
  property is about them. Fractions and exponents of numbers in JSON. Decryption is modelled by its outcome (the right
  key and a whole file, or an error).
* **Undefined behaviour of the emulator.** An `int` that overflows wraps around in the
  model, as it does in an ordinary build (a build that traps overflow stops there). What
  happens after a write outside the arrays of the emulator could be anything: the model ends.
* **Reading freed sessions** is undefined in C and is a choice in the model: the
  freed session is skipped, is signalled a second time from the fields that are still
  there, or the process ends in `Abort`. Garbage that happens to look like another
  session is left out.
* **Allocation failures**, except where they leave something open.
* **A JSON root that is not an object**, given to `:load`: the code reads the wrong
  member of a union, which is undefined. Workspace has files that are objects.
* **Function keys in the command line** reach `isprint` with a code beyond a byte, which
  is undefined: the model lets them do nothing or insert a character.
* **Rendering, the older TUI, argument parsing, logging**: they keep no state that
  another component reads.
* **Functions without a caller** in the multiplexer (`app_pty_wait`,
  `app_pty_kill`, `app_tui_pane_check_process`, `app_session_kill`) and the commands
  `accounts disable` and `enable`, which store nothing in this version.

## 8. Plan

Done so far, in this order: pane manager with its abstract list and proofs; event loop
with input and command mode over it; terminal emulator with proofs; sessions;
accounts with the first proofs; layout with proofs and the workspace file; JSON; the
command line with its abstract editor and history; proofs about the sessions, about
logins, and about the loop, which carry the theorems of the pane manager over to it;
proofs about the command line, the direction keys and what a load brings back; the reader and
writer of JSON as functions, the proof that the one reads what the other wrote, and that it reads
of any text what the grammar says.

Next:

1. **An abstract registry of sessions** (`id -> running where, or ended`) that Sessions
   implements when nothing is interrupted.
2. **Input**: SS3 and mouse sequences.
