---------------------------- MODULE PaneManager ----------------------------
(***************************************************************************)
(* The pane manager of the multiplexer (src/tui/panes/tui_pane.c): the     *)
(* array of panes, their numbers, the focus, and what each pane owns in    *)
(* the operating system, a PTY master and a child process                  *)
(* (src/tui/panes/tui_pane_launch.c over src/tui/pty/).  Each action is    *)
(* one call a handler of the multiplexer makes on it, run to completion:   *)
(* fry has one thread.  Children exit and the clock advances in between.   *)
(***************************************************************************)
EXTENDS Integers, FiniteSets

CONSTANTS
  Pane,     \* the addresses an app_tui_pane_t can be allocated at
  MaxPanes, \* max_panes of the manager
  Fd,       \* the descriptors a PTY master can get
  Pid,      \* the process ids a child can get
  MaxTime,  \* bound of the clock, in seconds: the model's horizon
  NoPane    \* the NULL pane

ASSUME MaxPanesAssumption == MaxPanes \in 1..9
ASSUME NoPaneAssumption   == NoPane \notin Pane
ASSUME FdAssumption       == Fd \subseteq Nat
ASSUME PidAssumption      == -1 \notin Pid
ASSUME MaxTimeAssumption  == MaxTime \in Nat \ {0}

VARIABLES
  panes,           \* manager->panes: the slots past pane_count keep stale pointers
  pane_count,
  focused_pane,
  number,
  has_focus,
  state,
  last_focus_time,
  pty_master,
  process_pid,
  open_fds,        \* the masters fry holds open
  child,           \* the kernel's view of each process id
  signalled,       \* the children that were sent SIGTERM or SIGKILL
  now              \* time(NULL)

listVars  == <<panes, pane_count, number>>
focusVars == <<focused_pane, has_focus, last_focus_time>>
procVars  == <<state, pty_master, process_pid, open_fds, child, signalled>>
vars      == <<listVars, focusVars, procVars, now>>

Slots  == 1..MaxPanes
States == {"INACTIVE", "ACTIVE", "DISCONNECTED", "ERROR"}
Live   == {panes[i] : i \in 1..pane_count}

TypeOK ==
  /\ panes           \in [Slots -> Pane \cup {NoPane}]
  /\ pane_count      \in 0..MaxPanes
  /\ focused_pane    \in Pane \cup {NoPane}
  /\ number          \in [Pane -> 0..MaxPanes]
  /\ has_focus       \in [Pane -> BOOLEAN]
  /\ state           \in [Pane -> States]
  /\ last_focus_time \in [Pane -> 0..MaxTime]
  /\ pty_master      \in [Pane -> Fd \cup {-1}]
  /\ process_pid     \in [Pane -> Pid \cup {-1}]
  /\ open_fds        \in SUBSET Fd
  /\ child           \in [Pid -> {"free", "running", "zombie"}]
  /\ signalled       \in SUBSET Pid
  /\ now             \in 1..MaxTime

Init ==
  /\ panes           = [i \in Slots |-> NoPane]
  /\ pane_count      = 0
  /\ focused_pane    = NoPane
  /\ number          = [p \in Pane |-> 0]
  /\ has_focus       = [p \in Pane |-> FALSE]
  /\ state           = [p \in Pane |-> "INACTIVE"]
  /\ last_focus_time = [p \in Pane |-> 0]
  /\ pty_master      = [p \in Pane |-> -1]
  /\ process_pid     = [p \in Pane |-> -1]
  /\ open_fds        = {}
  /\ child           = [c \in Pid |-> "free"]
  /\ signalled       = {}
  /\ now             = 1

-----------------------------------------------------------------------------
(* The array.                                                              *)

\* Mutant: the number is taken after the count was advanced.
CreateNumbersLate(p) ==
  /\ pane_count < MaxPanes
  /\ p \in Pane \ Live
  /\ panes'      = [panes EXCEPT ![pane_count + 1] = p]
  /\ pane_count' = pane_count + 1
  /\ number'     = [number EXCEPT ![p] = pane_count + 2]
  /\ has_focus'  = [has_focus EXCEPT ![p] = (pane_count = 0)]
  /\ focused_pane' = IF pane_count = 0 THEN p ELSE focused_pane
  /\ last_focus_time' = [last_focus_time EXCEPT ![p] = 0]

\* app_tui_pane_create: the fields of a calloc'ed pane, the number after the
\* last one, the focus when it is the first.
Create(p) ==
  /\ pane_count < MaxPanes
  /\ p \in Pane \ Live
  /\ panes'      = [panes EXCEPT ![pane_count + 1] = p]
  /\ pane_count' = pane_count + 1
  /\ number'     = [number EXCEPT ![p] = pane_count + 1]
  /\ has_focus'  = [has_focus EXCEPT ![p] = (pane_count = 0)]
  /\ focused_pane' = IF pane_count = 0 THEN p ELSE focused_pane
  /\ last_focus_time' = [last_focus_time EXCEPT ![p] = 0]

\* app_pty_open: the kernel gives the lowest free descriptor.
OpenPty(f) ==
  /\ \A g \in Fd \ open_fds : f <= g
  /\ open_fds' = open_fds \cup {f}

\* app_pty_spawn: the parent closes the slave and keeps the master.
Spawn(c) ==
  /\ child[c] = "free"
  /\ child' = [child EXCEPT ![c] = "running"]

\* app_tui_pane_launch_claude, when the PTY opens and fork succeeds.
LaunchSucceeds(p) ==
  \E f \in Fd \ open_fds, c \in Pid :
    /\ OpenPty(f)
    /\ Spawn(c)
    /\ pty_master'  = [pty_master EXCEPT ![p] = f]
    /\ process_pid' = [process_pid EXCEPT ![p] = c]
    /\ state'       = [state EXCEPT ![p] = "ACTIVE"]

\* app_tui_mux_add_pane keeps a pane whose launch failed and marks it.
Unlaunched(p) ==
  /\ pty_master'  = [pty_master EXCEPT ![p] = -1]
  /\ process_pid' = [process_pid EXCEPT ![p] = -1]
  /\ state'       = [state EXCEPT ![p] = "ERROR"]
  /\ UNCHANGED child

\* No claude, or no PTY: a master without a slave is closed by app_pty_open.
LaunchFails(p) == Unlaunched(p) /\ UNCHANGED open_fds

\* Mutant: the PTY was not marked open.
ClosePtyLeaks(fds, f) == fds

\* app_pty_close: the descriptors that stay open.
ClosePty(fds, f) == fds \ {f}

\* The PTY opens, and there is no environment or no process for it.
SpawnFails(p) ==
  \E f \in Fd \ open_fds :
    /\ \A g \in Fd \ open_fds : f <= g
    /\ open_fds' = ClosePty(open_fds \cup {f}, f)
    /\ Unlaunched(p)

\* app_tui_mux_add_pane: create, lay out (geometry: module Layout), launch.
AddPane(p) ==
  /\ Create(p)
  /\ LaunchSucceeds(p) \/ LaunchFails(p) \/ SpawnFails(p)
  /\ UNCHANGED <<signalled, now>>

\* Mutant: the loop moves the pointers and leaves the numbers alone.
ShiftKeepsNumbers(k) ==
  /\ panes' = [i \in Slots |->
                 IF k <= i /\ i < pane_count THEN panes[i + 1] ELSE panes[i]]
  /\ number' = [number EXCEPT ![panes[k]] = 0]
  /\ pane_count' = pane_count - 1

\* The loop that closes the gap at index k and renumbers what it moves.
Shift(k) ==
  /\ panes' = [i \in Slots |->
                 IF k <= i /\ i < pane_count THEN panes[i + 1] ELSE panes[i]]
  /\ number' = [q \in Pane |->
                  IF \E i \in k..(pane_count - 1) : panes[i + 1] = q
                    THEN CHOOSE i \in k..(pane_count - 1) : panes[i + 1] = q
                    ELSE IF q = panes[k] THEN 0 ELSE number[q]]
  /\ pane_count' = pane_count - 1

\* Mutant: the pointer is handed on, the flag of the pane it goes to is not set.
DropFocusNoFlag(p, first) ==
  /\ focused_pane' = IF focused_pane = p THEN first ELSE focused_pane
  /\ has_focus' = [q \in Pane |-> has_focus[q] /\ q # p]

\* Mutant: closing any pane moves the focus to the first one.
DropFocusAlways(p, first) ==
  /\ focused_pane' = first
  /\ has_focus' = [q \in Pane |-> q = first]

\* What is left of the focus when p goes away: the first pane gets it.
DropFocus(p, first) ==
  /\ focused_pane' = IF focused_pane = p THEN first ELSE focused_pane
  /\ has_focus' = [q \in Pane |->
                     \/ has_focus[q] /\ q # p
                     \/ focused_pane = p /\ q = first]

\* Mutant: the descriptor is forgotten without being closed.
CloseMasterLeaks(p) ==
  pty_master' = [pty_master EXCEPT ![p] = -1] /\ UNCHANGED open_fds

\* Mutant: the descriptor is closed and the pane goes on holding its number.
CloseMasterStale(p) ==
  open_fds' = open_fds \ {pty_master[p]} /\ UNCHANGED pty_master

\* "if (pane->pty_master >= 0) close(...)".
CloseMaster(p) ==
  /\ open_fds'   = open_fds \ {pty_master[p]}
  /\ pty_master' = [pty_master EXCEPT ![p] = -1]

\* Mutant: the child is let go without a signal.
LetGoSilently(p) ==
  process_pid' = [process_pid EXCEPT ![p] = -1] /\ UNCHANGED signalled

\* "if (pane->process_pid > 0) kill(...)", and the pane has no process any more.
LetGo(p) ==
  /\ signalled'   = signalled \cup ({process_pid[p]} \cap Pid)
  /\ process_pid' = [process_pid EXCEPT ![p] = -1]

\* app_tui_pane_destroy: close the master, SIGTERM to the child (nobody waits
\* for it), free the pane, close the gap, hand on the focus.  A freed pane has no
\* fields: the model clears them.
RemovePane(p) ==
  \E k \in 1..pane_count :
    /\ panes[k] = p
    /\ Shift(k)
    /\ DropFocus(p, IF pane_count = 1 THEN NoPane
                    ELSE IF k = 1 THEN panes[2] ELSE panes[1])
    /\ CloseMaster(p)
    /\ LetGo(p)
    /\ state'           = [state EXCEPT ![p] = "INACTIVE"]
    /\ last_focus_time' = [last_focus_time EXCEPT ![p] = 0]
    /\ UNCHANGED <<child, now>>

-----------------------------------------------------------------------------
(* Focus.                                                                  *)

\* app_tui_pane_focus
Focus(p) ==
  /\ focused_pane' = p
  /\ has_focus' = [q \in Pane |-> q = p \/ (has_focus[q] /\ q # focused_pane)]
  /\ last_focus_time' =
       [q \in Pane |-> IF q = focused_pane THEN now ELSE last_focus_time[q]]
  /\ UNCHANGED <<listVars, procVars, now>>

\* app_tui_pane_focus_by_number, app_tui_mux_focus_number
FocusByNumber(n) ==
  \E i \in 1..pane_count :
    /\ number[panes[i]] = n
    /\ \A j \in 1..(i - 1) : number[panes[j]] # n
    /\ Focus(panes[i])

\* The first index that satisfies a test, as the search loops find it, or d.
FirstOf(S, d) == IF S = {} THEN d ELSE CHOOSE i \in S : \A j \in S : i <= j

\* app_tui_pane_focus_next and app_tui_pane_focus_prev look the current pane
\* up by pointer ...
PointedIndex == FirstOf({i \in 1..pane_count : panes[i] = focused_pane}, 1)

\* ... app_tui_mux_cycle_focus by its flag.
FlaggedIndex == FirstOf({i \in 1..pane_count : has_focus[panes[i]]}, 0)

Successor(i)   == IF i >= pane_count THEN 1 ELSE i + 1
Predecessor(i) == IF i <= 1 THEN pane_count ELSE i - 1

FocusNext ==
  /\ pane_count > 0
  /\ Focus(panes[IF focused_pane = NoPane THEN 1 ELSE Successor(PointedIndex)])

FocusPrev ==
  /\ pane_count > 0
  /\ Focus(panes[IF focused_pane = NoPane THEN 1 ELSE Predecessor(PointedIndex)])

CycleFocus(reverse) ==
  /\ pane_count > 0
  /\ Focus(panes[IF FlaggedIndex = 0 THEN 1
                 ELSE IF reverse THEN Predecessor(FlaggedIndex)
                 ELSE Successor(FlaggedIndex)])

\* app_tui_mux_focus_last: the latest second in which another pane lost the
\* focus, the first pane of the array among equals.
LastFocused ==
  LET Left == {i \in 1..pane_count :
                 ~has_focus[panes[i]] /\ last_focus_time[panes[i]] > 0}
  IN  {i \in Left :
         \A j \in Left :
           \/ last_focus_time[panes[j]] < last_focus_time[panes[i]]
           \/ last_focus_time[panes[j]] = last_focus_time[panes[i]] /\ i <= j}

FocusLast == \E i \in LastFocused : Focus(panes[i])

\* app_tui_mux_focus_direction: another pane, which one is a matter of geometry
\* (module Layout).
FocusDirection ==
  \E i \in 1..pane_count :
    /\ IF FlaggedIndex = 0 THEN i = 1 ELSE i # FlaggedIndex
    /\ Focus(panes[i])

-----------------------------------------------------------------------------
(* Processes.                                                              *)

\* The event loop's read of a master whose slave side the child closed, by ending
\* or before (EIO on Linux, end of file elsewhere).
PtyClosed(p) ==
  /\ p \in Live
  /\ pty_master[p] \in Fd
  /\ state' = [state EXCEPT ![p] = "DISCONNECTED"]
  /\ UNCHANGED <<listVars, focusVars, pty_master, process_pid, open_fds, child,
                 signalled, now>>

\* app_tui_pane_terminate_process: SIGTERM, 100 ms, then SIGKILL to whatever
\* kill(pid, 0) still finds; a zombie is found too.  (No key or command of the
\* multiplexer calls it yet; it is part of what the pane offers.)
TerminateProcess(p) ==
  /\ p \in Live
  /\ process_pid[p] \in Pid
  /\ child' = [child EXCEPT ![process_pid[p]] = "zombie"]
  /\ state' = [state EXCEPT ![p] = "DISCONNECTED"]
  /\ LetGo(p)
  /\ CloseMaster(p)
  /\ UNCHANGED <<listVars, focusVars, now>>

\* Mutant: the kernel reaps children at once (SIGCHLD ignored); the panes are not
\* told and the pid is free for another process.
ChildExitsReaped(c) ==
  /\ child[c] = "running"
  /\ child' = [child EXCEPT ![c] = "free"]
  /\ UNCHANGED <<listVars, focusVars, state, pty_master, process_pid, open_fds,
                 signalled, now>>

\* A child ends, signalled or not.  Nothing in the multiplexer waits for it:
\* it stays a zombie, and its pid taken.
ChildExits(c) ==
  /\ child[c] = "running"
  /\ child' = [child EXCEPT ![c] = "zombie"]
  /\ UNCHANGED <<listVars, focusVars, state, pty_master, process_pid, open_fds,
                 signalled, now>>

Tick ==
  /\ now < MaxTime
  /\ now' = now + 1
  /\ UNCHANGED <<listVars, focusVars, procVars>>

-----------------------------------------------------------------------------

FocusStep ==
  \/ \E n \in 1..9 : FocusByNumber(n)
  \/ FocusNext
  \/ FocusPrev
  \/ \E reverse \in BOOLEAN : CycleFocus(reverse)
  \/ FocusLast
  \/ FocusDirection

Next ==
  \/ \E c \in Pid : ChildExits(c)
  \/ \E p \in Pane : PtyClosed(p)
  \/ \E p \in Pane : AddPane(p)
  \/ \E p \in Pane : RemovePane(p)
  \/ FocusStep
  \/ \E p \in Pane : TerminateProcess(p)
  \/ Tick

Spec == Init /\ [][Next]_vars

-----------------------------------------------------------------------------
(* Shutdown.                                                               *)

\* app_tui_pane_manager_destroy: the index advances while app_tui_pane_destroy
\* closes the gap it leaves, so the loop meets the panes at odd positions only;
\* then the array and the manager are freed.
ManagerDestroy ==
  LET met == {panes[i] : i \in {j \in 1..pane_count : j % 2 = 1}}
  IN  /\ pane_count > 0
      /\ signalled' = signalled \cup ({process_pid[p] : p \in met} \cap Pid)
      /\ open_fds'  = open_fds \ {pty_master[p] : p \in met}
      /\ panes' = [i \in Slots |-> NoPane]
      /\ pane_count' = 0
      /\ focused_pane' = NoPane
      /\ UNCHANGED <<number, has_focus, last_focus_time, state, pty_master,
                     process_pid, child, now>>

DestroySpec == Init /\ [][Next \/ ManagerDestroy]_vars

-----------------------------------------------------------------------------
(* Properties.                                                             *)

\* Status bars, Alt+digit and :focus go by number: whatever was opened and
\* closed, the panes are numbered 1, 2, ... in the order of the array, without
\* gaps or repetitions.
NumbersDense ==
  \A i \in 1..pane_count : panes[i] \in Pane /\ number[panes[i]] = i

\* The manager's pointer and the panes' flags are two records of the focus, and
\* the searches use one or the other: they always agree, on a pane that is still
\* in the array, and there is a focus whenever there is a pane.
FocusConsistent ==
  /\ (focused_pane = NoPane) <=> (pane_count = 0)
  /\ pane_count > 0 => focused_pane \in Live
  /\ \A p \in Live : has_focus[p] <=> (p = focused_pane)

\* The masters fry holds open are those of the panes, one each: none is leaked,
\* closed twice or still used after it was closed, whoever closes it.
MasterOwnership ==
  /\ open_fds = {pty_master[p] : p \in Live} \ {-1}
  /\ \A p, q \in Live :
       pty_master[p] = pty_master[q] /\ pty_master[p] # -1 => p = q

\* A pane holds a master exactly while it holds a process, and shows as active
\* only then: the pane whose child fry gave up on has no descriptor to poll.
Attached ==
  \A p \in Live :
    /\ (pty_master[p] = -1) <=> (process_pid[p] = -1)
    /\ state[p] = "ACTIVE" => process_pid[p] # -1

\* A running child is in the hands of one pane, or it was told to end.
NoForgottenChild ==
  \A c \in Pid : child[c] = "running" =>
    \/ c \in signalled
    \/ \E p \in Live : process_pid[p] = c

\* Every kill() of a pane goes to a child of that pane alone that the kernel has
\* not given the pid of to another process.
SignalsOwnChild ==
  \A p \in Live : process_pid[p] # -1 =>
    /\ child[process_pid[p]] # "free"
    /\ \A q \in Live : process_pid[q] = process_pid[p] => q = p

\* "Destroy all panes" (tui_pane.c:50): when the manager is gone, no descriptor of
\* a pane is open and no child of one runs on unsignalled.
DestroysAllPanes ==
  pane_count = 0 =>
    open_fds = {} /\ \A c \in Pid : child[c] = "running" => c \in signalled

\* The manager implements the list of panes with a focus: module PaneList.
List == INSTANCE PaneList WITH
          order   <- [i \in 1..pane_count |-> panes[i]],
          focused <- focused_pane
ImplementsList == List!Spec
=============================================================================
