----------------------------- MODULE EventLoop -----------------------------
(***************************************************************************)
(* app_tui_mux_run_enhanced (src/tui/mux/tui_mux_event.c): one pass waits  *)
(* in select, then handles a resize, one key, the output of every PTY and  *)
(* the frame, in this order.  A key goes to the input system or, when      *)
(* there is none, to ncurses; it moves the focus, edits the command line   *)
(* or runs a command, which may open and close panes (module PaneManager). *)
(* The terminal, the children, the clock and SIGWINCH run beside the loop. *)
(***************************************************************************)
EXTENDS TerminalInput

CONSTANTS
  Pane, MaxPanes, Fd, Pid, MaxTime, NoPane,  \* as in module PaneManager
  InputSystem,  \* the results app_tui_input_create may have
  Resizes,      \* bound: whether the terminal is resized at all
  LineSize      \* command_buffer_size - 1, 255

STDIN_FILENO == 0

\* What module PaneManager assumes of its constants.
ASSUME PanesAssumption ==
  /\ MaxPanes \in 1..9 /\ NoPane \notin Pane
  /\ Fd \subseteq Nat /\ -1 \notin Pid
  /\ MaxTime \in Nat \ {0}
ASSUME StdinAssumption       == STDIN_FILENO \notin Fd
ASSUME InputSystemAssumption == InputSystem \subseteq BOOLEAN
ASSUME ResizesAssumption     == Resizes \in BOOLEAN
ASSUME LineSizeAssumption    == LineSize \in Nat \ {0}

VARIABLES
  panes, pane_count, focused_pane, number, has_focus, state,
  last_focus_time, pty_master, process_pid, open_fds, child, signalled, now

VARIABLES
  pc,              \* where the pass is
  ready,           \* read_fds after select
  slot,            \* the loop index over the panes
  to_add,          \* panes of the workspace file still to be opened
  running,
  exiting,         \* mux->state = MUX_STATE_EXITING
  input_system,    \* mux->input_system # NULL
  input_mode,
  line,            \* strlen(command_buffer); the cursor stays at its end
  needs_refresh,
  frame,           \* "early": the frame interval runs; "due": it is over
  resize_pending,  \* g_resize_pending
  output,          \* the children whose output nobody has read
  undrawn          \* something was read or reported that no render has shown

Panes == INSTANCE PaneManager

paneVars == <<panes, pane_count, focused_pane, number, has_focus, state,
              last_focus_time, pty_master, process_pid, open_fds, child,
              signalled, now>>
modeVars == <<running, exiting, input_mode, line>>
drawVars == <<needs_refresh, frame, undrawn>>
loopVars == <<pc, ready, slot, to_add, input_system, resize_pending, output>>
allVars  == <<inputVars, paneVars, modeVars, drawVars, loopVars>>

PassSteps == {"select", "resize", "keys", "unload", "load", "ptys", "render", "done"}
Modes     == {"NORMAL", "COMMAND", "WINDOW"}

LoopTypeOK ==
  /\ Panes!TypeOK
  /\ Len(stdin) <= StdinSize /\ Len(buffer) <= BufferSize
  /\ \A i \in 1..Len(stdin) : stdin[i] \in Byte
  /\ \A i \in 1..Len(buffer) : buffer[i] \in Byte
  /\ pc \in PassSteps
  /\ ready \subseteq Fd \cup {STDIN_FILENO}
  /\ slot \in 0..(MaxPanes + 1) /\ to_add \in 0..MaxPanes
  /\ running \in BOOLEAN /\ exiting \in BOOLEAN /\ input_system \in BOOLEAN
  /\ input_mode \in Modes /\ line \in 0..LineSize
  /\ needs_refresh \in BOOLEAN /\ undrawn \in BOOLEAN
  /\ frame \in {"early", "due"}
  /\ resize_pending \in BOOLEAN /\ output \subseteq Pid

\* app_tui_mux_create; it goes on without the input system when that fails.  The
\* pane manager is created with needs_refresh set.
MuxInit ==
  /\ Panes!Init
  /\ stdin = <<>> /\ buffer = <<>>
  /\ input_system \in InputSystem
  /\ input_mode = "NORMAL" /\ line = 0 /\ exiting = FALSE
  /\ needs_refresh = TRUE /\ undrawn = FALSE

\* cmd_mux_up opens the first panes before the loop: "unload" with nothing to close.
LoopInit ==
  /\ MuxInit
  /\ pc = "unload" /\ ready = {} /\ slot = 1
  /\ to_add \in 1..MaxPanes
  /\ running = TRUE /\ frame = "early"
  /\ resize_pending = FALSE /\ output = {}

-----------------------------------------------------------------------------
(* Waiting.                                                                *)

\* What the child of a pane has to say: output, and then the end of the file (or
\* an error) once it has closed the slave side.
HasOutput(p) == process_pid[p] \in output
HungUp(p)    == process_pid[p] \in Pid /\ child[process_pid[p]] = "zombie"

\* What select reports.
Readable ==
  (IF stdin # <<>> THEN {STDIN_FILENO} ELSE {}) \cup
  {pty_master[p] : p \in {q \in Panes!Live :
                            pty_master[q] \in Fd /\ (HasOutput(q) \/ HungUp(q))}}

\* Mutant: select waits for descriptors only.
SelectForever ==
  /\ pc = "select" /\ Readable # {}
  /\ pc' = "resize" /\ ready' = Readable
  /\ UNCHANGED <<inputVars, paneVars, modeVars, drawVars, slot, to_add,
                 input_system, resize_pending, output>>

\* select returns what is ready, or nothing at the end of the frame interval; an
\* interval that is already over makes it a poll.
Select ==
  /\ pc = "select"
  /\ Readable # {} \/ frame = "due"
  /\ pc' = "resize" /\ ready' = Readable
  /\ UNCHANGED <<inputVars, paneVars, modeVars, drawVars, slot, to_add,
                 input_system, resize_pending, output>>

\* SIGWINCH.  It interrupts a select that has nothing to report yet (EINTR); one that
\* comes just before the call does not.
Sigwinch ==
  /\ Resizes /\ pc # "done"
  /\ resize_pending' = TRUE
  /\ \/ pc' = pc /\ ready' = ready
     \/ /\ pc = "select" /\ Readable = {} /\ frame = "early"
        /\ pc' = "resize" /\ ready' = {}
  /\ UNCHANGED <<inputVars, paneVars, modeVars, drawVars, slot, to_add,
                 input_system, output>>

\* "Check for resize": the flag is cleared before the layout is applied again.
Resize ==
  /\ pc = "resize"
  /\ pc' = "keys"
  /\ resize_pending' = FALSE
  /\ needs_refresh' = (needs_refresh \/ resize_pending)
  /\ undrawn' = (undrawn \/ resize_pending)
  /\ UNCHANGED <<inputVars, paneVars, modeVars, frame, ready, slot, to_add,
                 input_system, output>>
-----------------------------------------------------------------------------
(* Keys.  Every handler says what becomes of the panes, the mode and the   *)
(* frame; the pass goes on with the output of the PTYs.                    *)

ToPtys == /\ pc' = "ptys" /\ slot' = 1
          /\ UNCHANGED <<ready, to_add, input_system, resize_pending, output>>

Ignore == UNCHANGED <<paneVars, modeVars, drawVars>>

Refocus == needs_refresh' = TRUE /\ undrawn' = TRUE /\ UNCHANGED <<frame, modeVars>>

\* app_tui_mux_focus_direction finds a pane there or not.
Direction == (Panes!FocusDirection /\ Refocus) \/ Ignore

Numbered(n) == \E p \in Panes!Live : number[p] = n

EnterCommandMode ==
  /\ input_mode' = "COMMAND" /\ line' = 0
  /\ UNCHANGED <<running, exiting, paneVars, drawVars>>

\* Mutant: the text of the command line survives.
LeaveKeepsLine ==
  /\ input_mode' = "NORMAL" /\ undrawn' = FALSE
  /\ UNCHANGED <<line, needs_refresh, frame>>

\* app_tui_command_exit renders at once, and does not count it as a frame.
Leave ==
  /\ input_mode' = "NORMAL" /\ line' = 0 /\ undrawn' = FALSE
  /\ UNCHANGED <<needs_refresh, frame>>

LeaveCommandMode == Leave /\ UNCHANGED <<running, exiting, paneVars>>

\* app_tui_mux_handle_input in normal mode.
NormalKey(code) ==
  CASE code = ":"    -> EnterCommandMode
    [] code = "q"    -> /\ exiting' = TRUE
                        /\ UNCHANGED <<running, input_mode, line, paneVars, drawVars>>
    [] code \in {"h", "up"} -> Direction
    [] code = "tab" /\ pane_count > 0 -> Panes!FocusNext /\ Refocus
    [] code = "1" /\ Numbered(1) -> Panes!FocusByNumber(1) /\ Refocus
    [] OTHER -> Ignore

Printable == {"[", "A", "1", ":", "q", "h", "x", "M", "I", "W"}

\* Mutant: the test forgets the terminating zero.
InsertOneMore == line' = IF line <= LineSize THEN line + 1 ELSE line

\* app_tui_command_insert_char: a full buffer refuses.
Insert == line' = IF line < LineSize THEN line + 1 ELSE line

\* app_tui_command_handle_key, but for Enter.
CommandKey(code) ==
  CASE code = "esc" -> LeaveCommandMode
    [] code \in Printable ->
         /\ Insert
         /\ UNCHANGED <<running, exiting, input_mode, paneVars, drawVars>>
    [] code = "del" /\ line > 0 ->
         /\ line' = line - 1
         /\ UNCHANGED <<running, exiting, input_mode, paneVars, drawVars>>
    [] code = "ctrl-w" /\ line > 0 ->  \* a word
         /\ line' \in 0..(line - 1)
         /\ UNCHANGED <<running, exiting, input_mode, paneVars, drawVars>>
    [] code = "tab" /\ line > 0 ->     \* completion
         /\ line' \in 1..LineSize
         /\ UNCHANGED <<running, exiting, input_mode, paneVars, drawVars>>
    [] OTHER -> Ignore

-----------------------------------------------------------------------------
(* Commands: what Enter does with the text on the line.                    *)

\* :quit
Quit == running' = FALSE /\ Leave /\ UNCHANGED <<exiting, paneVars>>

\* :close.  With the last pane gone the layout refuses to be calculated, and the
\* command counts as failed.
Close ==
  /\ focused_pane # NoPane
  /\ Panes!RemovePane(focused_pane)
  /\ needs_refresh' = TRUE
  /\ UNCHANGED <<running, exiting, frame>>
  /\ IF pane_count = 1 THEN undrawn' = TRUE /\ UNCHANGED <<input_mode, line>>
     ELSE input_mode' = "NORMAL" /\ line' = 0 /\ undrawn' = FALSE

\* :new
New ==
  /\ \E p \in Pane : Panes!AddPane(p)
  /\ Leave
  /\ UNCHANGED <<running, exiting>>

\* :focus
FocusCommand ==
  /\ Panes!FocusDirection \/ \E n \in 1..9 : Panes!FocusByNumber(n)
  /\ input_mode' = "NORMAL" /\ line' = 0 /\ undrawn' = FALSE /\ needs_refresh' = TRUE
  /\ UNCHANGED <<running, exiting, frame>>

\* A command that changes no pane and succeeds, and one that fails.
Plain  == LeaveCommandMode
Failed == Ignore

\* :load, once the file is read.
BeginLoad ==
  /\ to_add' \in 0..MaxPanes
  /\ pc' = "unload"
  /\ UNCHANGED <<paneVars, modeVars, drawVars, ready, slot, input_system,
                 resize_pending, output>>

Enter ==
  \/ line = 0 /\ LeaveCommandMode /\ ToPtys
  \/ line > 0 /\ (Quit \/ Close \/ New \/ FocusCommand \/ Plain \/ Failed) /\ ToPtys
  \/ line > 0 /\ BeginLoad

\* app_tui_workspace_load closes every pane, from the last, and opens those of the
\* file; cmd_mux_up opens its panes the same way.
Unload ==
  /\ pc = "unload"
  /\ \/ /\ pane_count > 0
        /\ Panes!RemovePane(panes[pane_count])
        /\ needs_refresh' = TRUE /\ undrawn' = TRUE
        /\ pc' = pc
     \/ /\ pane_count = 0
        /\ pc' = "load"
        /\ UNCHANGED <<paneVars, needs_refresh, undrawn>>
  /\ UNCHANGED <<inputVars, modeVars, frame, ready, slot, to_add, input_system,
                 resize_pending, output>>

Load ==
  /\ pc = "load" /\ to_add > 0
  /\ to_add' = to_add - 1
  /\ \E p \in Pane : Panes!AddPane(p)
  /\ undrawn' = TRUE
  /\ UNCHANGED <<inputVars, modeVars, needs_refresh, frame, pc, ready, slot,
                 input_system, resize_pending, output>>

\* The render that follows: of command_exit, or the first one of the loop.
Loaded ==
  /\ pc = "load" /\ to_add = 0
  /\ Leave
  /\ pc' = IF input_mode = "COMMAND" THEN "ptys" ELSE "select"
  /\ slot' = 1
  /\ UNCHANGED <<inputVars, paneVars, running, exiting, ready, to_add,
                 input_system, resize_pending, output>>

-----------------------------------------------------------------------------

HandleInput(code) ==
  CASE input_mode = "NORMAL"  -> NormalKey(code) /\ ToPtys
    [] input_mode = "COMMAND" -> IF code = "cr" THEN Enter
                                 ELSE CommandKey(code) /\ ToPtys
    [] OTHER                  -> Ignore /\ ToPtys

\* app_tui_input_process_keybinding: the bindings of the navigation come before any
\* mode.  Those of Tab and of Alt with a digit wait for codes the input system never
\* makes.
HandleEvent(event) ==
  CASE event = None -> Ignore /\ ToPtys
    [] event.ctrl /\ event.code = "W" ->
         /\ input_mode' = "WINDOW"
         /\ UNCHANGED <<running, exiting, line, paneVars, drawVars>>
         /\ ToPtys
    [] ~event.ctrl /\ event.code \in {"h", "up"} -> Direction /\ ToPtys
    [] OTHER -> HandleInput(event.code)

NoKey ==
  /\ pc = "keys" /\ STDIN_FILENO \notin ready
  /\ Ignore /\ ToPtys /\ UNCHANGED inputVars

\* One event per pass, whatever the buffer still holds.
KeyFromInputSystem ==
  /\ pc = "keys" /\ STDIN_FILENO \in ready /\ input_system
  /\ \E event \in {None} \cup {Key(c) : c \in Byte \cup {"up", "unknown"}}
                  \cup {[code |-> c, ctrl |-> TRUE] : c \in {"M", "I", "W", "["}} :
       \/ Take(event) /\ HandleEvent(event)
       \/ Expire(event) /\ HandleEvent(event)
       \/ Full /\ event = None /\ HandleEvent(event) /\ UNCHANGED inputVars

ReadMore ==
  /\ pc = "keys" /\ STDIN_FILENO \in ready /\ input_system
  /\ Fill
  /\ UNCHANGED <<paneVars, modeVars, drawVars, loopVars>>

\* The fallback: getch decodes one key.
KeyFromNcurses ==
  /\ pc = "keys" /\ STDIN_FILENO \in ready /\ ~input_system
  /\ stdin # <<>>
  /\ HandleInput(stdin[1])
  /\ stdin' = Tail(stdin) /\ UNCHANGED buffer
-----------------------------------------------------------------------------
(* Output and frames.                                                      *)

\* Mutant: end of file makes the loop forget the master it does not close.
HangUpForgets(p) ==
  /\ state' = [state EXCEPT ![p] = "DISCONNECTED"]
  /\ pty_master' = [pty_master EXCEPT ![p] = -1]
  /\ UNCHANGED <<panes, pane_count, focused_pane, number, has_focus,
                 last_focus_time, process_pid, open_fds, child, signalled, now>>

HangUp(p) == Panes!PtyClosed(p)

\* Mutant: "nothing to read" counts as an error.
NothingIsError(p) == HangUp(p) /\ needs_refresh' = TRUE /\ undrawn' = TRUE

\* EAGAIN: the descriptor was in the set for the PTY it stood for before.
Nothing(p) == UNCHANGED <<paneVars, needs_refresh, undrawn>>

\* One read of 4096 bytes, into the terminal emulator; the child's writes between
\* two passes fit it.
ReadPty(p) ==
  \/ /\ HasOutput(p)
     /\ output' = output \ {process_pid[p]}
     /\ needs_refresh' = TRUE /\ undrawn' = TRUE
     /\ UNCHANGED paneVars
  \/ /\ ~HasOutput(p) /\ HungUp(p)
     /\ HangUp(p)
     /\ needs_refresh' = TRUE /\ undrawn' = TRUE
     /\ UNCHANGED output
  \/ /\ ~HasOutput(p) /\ ~HungUp(p)
     /\ Nothing(p)
     /\ UNCHANGED output

\* Mutant: the output waits as long as there are keys.
PtysYield ==
  /\ pc = "ptys"
  /\ \/ /\ slot <= pane_count /\ STDIN_FILENO \notin ready
        /\ IF pty_master[panes[slot]] \in ready THEN ReadPty(panes[slot])
           ELSE UNCHANGED <<paneVars, needs_refresh, undrawn, output>>
        /\ slot' = slot + 1 /\ pc' = pc
     \/ /\ slot > pane_count \/ STDIN_FILENO \in ready
        /\ slot' = 0 /\ pc' = "render"
        /\ UNCHANGED <<paneVars, needs_refresh, undrawn, output>>
  /\ UNCHANGED <<inputVars, modeVars, frame, ready, to_add, input_system,
                 resize_pending>>

\* The loop over the panes there are now, with the descriptors of then.
Ptys ==
  /\ pc = "ptys"
  /\ \/ /\ slot <= pane_count
        /\ IF pty_master[panes[slot]] \in ready THEN ReadPty(panes[slot])
           ELSE UNCHANGED <<paneVars, needs_refresh, undrawn, output>>
        /\ slot' = slot + 1 /\ pc' = pc
     \/ /\ slot > pane_count
        /\ slot' = 0 /\ pc' = "render"
        /\ UNCHANGED <<paneVars, needs_refresh, undrawn, output>>
  /\ UNCHANGED <<inputVars, modeVars, frame, ready, to_add, input_system,
                 resize_pending>>

\* Mutant: the request is dropped whether the frame is due or not.
FrameDropsRequest ==
  /\ IF needs_refresh /\ frame = "due"
       THEN undrawn' = FALSE /\ frame' = "early"
       ELSE UNCHANGED <<undrawn, frame>>
  /\ needs_refresh' = FALSE

\* "Check if it's time to render".
Frame ==
  IF needs_refresh /\ frame = "due"
    THEN undrawn' = FALSE /\ frame' = "early" /\ needs_refresh' = FALSE
    ELSE UNCHANGED <<undrawn, frame, needs_refresh>>

\* Mutant: the loop looks at one of the two flags only.
NextPassWhileRunning == running

\* The condition of the loop.
NextPass == running /\ ~exiting

Render ==
  /\ pc = "render"
  /\ Frame
  /\ ready' = {}
  /\ pc' = IF NextPass THEN "select" ELSE "done"
  /\ UNCHANGED <<inputVars, paneVars, modeVars, slot, to_add, input_system,
                 resize_pending, output>>

-----------------------------------------------------------------------------
(* What runs beside the loop.                                              *)

Terminal ==
  /\ pc # "done"
  /\ \E b \in Typed : Type(b)
  /\ UNCHANGED <<paneVars, modeVars, drawVars, loopVars>>

Writes ==
  /\ pc # "done"
  /\ \E p \in Panes!Live :
       /\ process_pid[p] \in Pid /\ child[process_pid[p]] = "running"
       /\ output' = output \cup {process_pid[p]}
  /\ UNCHANGED <<inputVars, paneVars, modeVars, drawVars, pc, ready, slot, to_add,
                 input_system, resize_pending>>

Exits ==
  /\ pc # "done"
  /\ \E c \in Pid : Panes!ChildExits(c)
  /\ UNCHANGED <<inputVars, modeVars, drawVars, loopVars>>

\* The frame interval ends.
FrameEnds ==
  /\ pc # "done" /\ frame = "early"
  /\ frame' = "due"
  /\ UNCHANGED <<inputVars, paneVars, modeVars, needs_refresh, undrawn, loopVars>>

Seconds ==
  /\ pc # "done"
  /\ Panes!Tick
  /\ UNCHANGED <<inputVars, modeVars, drawVars, loopVars>>

Keys == NoKey \/ KeyFromInputSystem \/ ReadMore \/ KeyFromNcurses
Pass == Unload \/ Load \/ Loaded \/ Select \/ Resize \/ Keys \/ Ptys \/ Render

LoopNext == Pass \/ Sigwinch \/ Terminal \/ Writes \/ Exits \/ FrameEnds \/ Seconds

\* The process is scheduled and the clock goes on; nobody has to type, write or end.
LoopFairness == WF_allVars(Pass) /\ WF_allVars(FrameEnds)

LoopSpec == LoopInit /\ [][LoopNext]_allVars /\ LoopFairness

-----------------------------------------------------------------------------
(* Properties.                                                             *)

\* The loop drives the panes through the calls of the pane manager alone, whatever
\* a command does in the middle of a pass: it implements module PaneManager, and
\* what is proved of it holds here.
DrivesPanes == Panes!Spec

\* A pane is reported as disconnected only when its child has gone: an end of file
\* is never read from the wrong PTY, though a pass that closes panes and opens
\* others goes on with descriptors that select reported of the old ones.
NoFalseDisconnect ==
  \A p \in Panes!Live : state[p] = "DISCONNECTED" => HungUp(p)

\* However the command mode was left, by a key, a command or a workspace that was
\* loaded, normal mode has no text that the next command could start with.
LineCleared == input_mode = "NORMAL" => line = 0

\* What a child writes is read, however busy the keyboard is, unless its pane is
\* closed or the loop ends first.
OutputIsRead ==
  \A c \in Pid :
    (c \in output) ~> \/ c \notin output
                      \/ pc = "done"
                      \/ \A p \in Panes!Live : process_pid[p] # c

\* A change of the terminal's size is handled, also when the signal comes between
\* the test of the flag and the call of select.
ResizeIsHandled == resize_pending ~> (~resize_pending \/ pc = "done")

\* Whatever was read, reported, opened or focused is followed by a render.
ChangesAreDrawn == undrawn ~> (~undrawn \/ pc = "done")

\* :quit and q end the loop.
QuitEnds == (exiting \/ ~running) ~> (pc = "done")

\* "handle input with less than 50ms latency" (requirements.md 13.2): at the least,
\* what was typed does not wait for ever once the terminal is silent.
KeysAreHandled ==
  (buffer # <<>> \/ stdin # <<>>) ~> \/ buffer = <<>> /\ stdin = <<>>
                                     \/ pc = "done"
=============================================================================
