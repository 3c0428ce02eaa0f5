-------------------------- MODULE EventLoopProofs --------------------------
(***************************************************************************)
(* Proofs about the event loop, for every number of panes, descriptors and *)
(* processes, every input and every size of its buffers: what the loop     *)
(* does to the panes is what module PaneManager allows, so that all that   *)
(* is proved of the pane manager holds in the loop.                        *)
(***************************************************************************)
EXTENDS EventLoop, TLAPS

Manager == INSTANCE PaneManagerProofs

-----------------------------------------------------------------------------
(* The pane manager of the loop is the one of PaneManagerProofs: what is   *)
(* proved there is cited under the name Manager, and the loop calls Panes. *)

PanesOK == Panes!TypeOK /\ Panes!NumbersDense /\ Panes!FocusConsistent

LEMMA SameVars == UNCHANGED Manager!vars <=> UNCHANGED Panes!vars
BY DEF Manager!vars, Manager!listVars, Manager!focusVars, Manager!procVars,
       Panes!vars, Panes!listVars, Panes!focusVars, Panes!procVars

LEMMA SameState ==
  /\ Manager!Live = Panes!Live
  /\ Manager!ListInv <=> PanesOK
BY DEF Manager!Live, Panes!Live,
       Manager!ListInv, PanesOK, Manager!TypeOK, Panes!TypeOK,
       Manager!Slots, Panes!Slots, Manager!States, Panes!States,
       Manager!NumbersDense, Panes!NumbersDense,
       Manager!FocusConsistent, Panes!FocusConsistent

LEMMA SameInit == Manager!Init <=> Panes!Init
BY DEF Manager!Init, Panes!Init, Manager!Slots, Panes!Slots

LEMMA SameAdd == ASSUME NEW p PROVE Manager!Create(p) <=> Panes!Create(p)
BY DEF Manager!Create, Panes!Create, Manager!Live, Panes!Live

LEMMA SameRemove == ASSUME NEW p PROVE Manager!RemovePane(p) <=> Panes!RemovePane(p)
BY DEF Manager!RemovePane, Panes!RemovePane, Manager!Shift, Panes!Shift,
       Manager!Slots, Panes!Slots,
       Manager!DropFocus, Panes!DropFocus, Manager!CloseMaster, Panes!CloseMaster,
       Manager!LetGo, Panes!LetGo

LEMMA SameFocus == Manager!FocusStep <=> Panes!FocusStep
BY DEF Manager!FocusStep, Panes!FocusStep, Manager!Focus, Panes!Focus,
       Manager!FocusByNumber, Panes!FocusByNumber,
       Manager!FocusNext, Panes!FocusNext, Manager!FocusPrev, Panes!FocusPrev,
       Manager!CycleFocus, Panes!CycleFocus, Manager!FocusLast, Panes!FocusLast,
       Manager!FocusDirection, Panes!FocusDirection,
       Manager!FirstOf, Panes!FirstOf, Manager!PointedIndex, Panes!PointedIndex,
       Manager!FlaggedIndex, Panes!FlaggedIndex,
       Manager!Successor, Panes!Successor, Manager!Predecessor, Panes!Predecessor,
       Manager!LastFocused, Panes!LastFocused,
       Manager!listVars, Panes!listVars, Manager!procVars, Panes!procVars

LEMMA SameNext == Manager!Next <=> Panes!Next
BY SameState, SameAdd, SameRemove, SameFocus
   DEF Manager!Next, Panes!Next, Manager!AddPane, Panes!AddPane,
       Manager!LaunchSucceeds, Panes!LaunchSucceeds, Manager!OpenPty, Panes!OpenPty,
       Manager!Spawn, Panes!Spawn, Manager!LaunchFails, Panes!LaunchFails,
       Manager!SpawnFails, Panes!SpawnFails, Manager!Unlaunched, Panes!Unlaunched,
       Manager!ClosePty, Panes!ClosePty,
       Manager!ChildExits, Panes!ChildExits, Manager!PtyClosed, Panes!PtyClosed,
       Manager!TerminateProcess, Panes!TerminateProcess, Manager!LetGo, Panes!LetGo,
       Manager!CloseMaster, Panes!CloseMaster, Manager!Tick, Panes!Tick,
       Manager!listVars, Panes!listVars, Manager!focusVars, Panes!focusVars,
       Manager!procVars, Panes!procVars

LEMMA PanesKept == PanesOK /\ [Panes!Next]_(Panes!vars) => PanesOK'
<1>1. Manager!ListInv /\ [Manager!Next]_(Manager!vars) => Manager!ListInv'
  BY Manager!ListInvStep, PanesAssumption
<1>2. Manager!ListInv' <=> PanesOK'
  <2>1. Manager!ListInv <=> PanesOK
    BY SameState
  <2>2. QED
    BY <2>1, PTL
<1>3. QED
  BY <1>1, <1>2, SameState, SameVars, SameNext

-----------------------------------------------------------------------------
(* What the loop does to the panes.                                        *)

\* The calls of the pane manager that the loop makes: as in its Next, but for
\* TerminateProcess, which nothing calls; a pane is disconnected only by the end of
\* its own child's output.
PaneStep ==
  \/ \E p \in Pane : Panes!AddPane(p)
  \/ \E p \in Pane : Panes!RemovePane(p)
  \/ Panes!FocusStep
  \/ \E c \in Pid : Panes!ChildExits(c)
  \/ \E p \in Panes!Live : HungUp(p) /\ Panes!PtyClosed(p)
  \/ Panes!Tick
  \/ UNCHANGED paneVars

\* An open pane is a pane.
LEMMA LivePanes == ASSUME PanesOK PROVE Panes!Live \subseteq Pane
BY DEF PanesOK, Panes!NumbersDense, Panes!Live

LEMMA PaneStepIsNext == PanesOK /\ PaneStep => [Panes!Next]_(Panes!vars)
<1> SUFFICES ASSUME PanesOK, PaneStep PROVE [Panes!Next]_(Panes!vars)
  OBVIOUS
<1>1. CASE UNCHANGED paneVars
  BY <1>1 DEF paneVars, Panes!vars, Panes!listVars, Panes!focusVars, Panes!procVars
<1>2. CASE ~UNCHANGED paneVars
  BY <1>2, LivePanes DEF PaneStep, Panes!Next
<1>3. QED
  BY <1>1, <1>2

\* A pane that is disconnected goes on holding a child that has gone: children stay
\* zombies, a new pane is not disconnected, and one that is closed is no longer open.
LEMMA DisconnectKept ==
  ASSUME PanesOK, NoFalseDisconnect, PaneStep
  PROVE  NoFalseDisconnect'
<1> USE PanesAssumption
<1>1. ASSUME NEW p \in Panes!Live', state'[p] = "DISCONNECTED",
             p \in Panes!Live, p \in Pane,
             process_pid'[p] = process_pid[p],
             state'[p] = state[p] \/ HungUp(p),
             HungUp(p) => child'[process_pid[p]] = "zombie"
      PROVE  HungUp(p)'
  BY <1>1 DEF NoFalseDisconnect, HungUp
<1>2. Panes!Live \subseteq Pane
  BY LivePanes
<1>3. Panes!TypeOK
  BY DEF PanesOK
<1> USE <1>3 DEF Panes!TypeOK
<1>4. CASE UNCHANGED paneVars
  BY <1>4 DEF paneVars, NoFalseDisconnect, HungUp, Panes!Live
<1>5. ASSUME NEW a \in Pane, Panes!AddPane(a) PROVE NoFalseDisconnect'
  <2>1. Panes!Live' = Panes!Live \cup {a}
    <3>1. Manager!ListInv /\ Manager!Create(a)
      BY <1>5, SameState, SameAdd DEF Panes!AddPane
    <3>2. Manager!Live' = Manager!Live \cup {a}
      BY <3>1, Manager!CreateLemma
    <3>3. QED
      BY <3>2 DEF Manager!Live, Panes!Live
  <2>2. state'[a] # "DISCONNECTED"
    BY <1>5 DEF Panes!AddPane, Panes!LaunchSucceeds, Panes!LaunchFails, Panes!SpawnFails,
                Panes!Unlaunched
  <2>3. \A p \in Pane : p # a => state'[p] = state[p] /\ process_pid'[p] = process_pid[p]
    BY <1>5 DEF Panes!AddPane, Panes!LaunchSucceeds, Panes!LaunchFails, Panes!SpawnFails,
                Panes!Unlaunched
  <2>4. \A c \in Pid : child[c] = "zombie" => child'[c] = "zombie"
    BY <1>5 DEF Panes!AddPane, Panes!LaunchSucceeds, Panes!LaunchFails, Panes!SpawnFails,
                Panes!Unlaunched, Panes!Spawn
  <2>5. QED
    BY <1>1, <1>2, <2>1, <2>2, <2>3, <2>4 DEF NoFalseDisconnect, HungUp
<1>6. ASSUME NEW r \in Pane, Panes!RemovePane(r) PROVE NoFalseDisconnect'
  <2>1. Panes!Live' = Panes!Live \ {r}
    <3>1. Manager!ListInv /\ Manager!RemovePane(r)
      BY <1>6, SameState, SameRemove
    <3>2. Manager!Live' = Manager!Live \ {r}
      BY <3>1, Manager!RemoveLemma
    <3>3. QED
      BY <3>2 DEF Manager!Live, Panes!Live
  <2>2. \A p \in Pane : p # r => state'[p] = state[p] /\ process_pid'[p] = process_pid[p]
    BY <1>6 DEF Panes!RemovePane, Panes!LetGo
  <2>3. UNCHANGED child
    BY <1>6 DEF Panes!RemovePane
  <2>4. QED
    BY <1>1, <1>2, <2>1, <2>2, <2>3 DEF NoFalseDisconnect, HungUp
<1>7. CASE Panes!FocusStep
  <2>1. UNCHANGED <<Panes!listVars, Panes!procVars>>
    BY <1>7 DEF Panes!FocusStep, Panes!Focus, Panes!FocusByNumber, Panes!FocusNext,
                Panes!FocusPrev, Panes!CycleFocus, Panes!FocusLast,
                Panes!FocusDirection
  <2>2. QED
    BY <2>1 DEF Panes!listVars, Panes!procVars, NoFalseDisconnect, HungUp, Panes!Live
<1>8. ASSUME NEW c \in Pid, Panes!ChildExits(c) PROVE NoFalseDisconnect'
  BY <1>8 DEF Panes!ChildExits, Panes!listVars, Panes!focusVars, NoFalseDisconnect,
              HungUp, Panes!Live
<1>9. ASSUME NEW p \in Panes!Live, HungUp(p), Panes!PtyClosed(p)
      PROVE  NoFalseDisconnect'
  BY <1>2, <1>9 DEF Panes!PtyClosed, Panes!listVars, Panes!focusVars,
                    NoFalseDisconnect, HungUp, Panes!Live
<1>10. CASE Panes!Tick
  BY <1>10 DEF Panes!Tick, Panes!listVars, Panes!focusVars, Panes!procVars,
               NoFalseDisconnect, HungUp, Panes!Live
<1>11. QED
  BY <1>4, <1>5, <1>6, <1>7, <1>8, <1>9, <1>10 DEF PaneStep

-----------------------------------------------------------------------------
(* The keys.                                                               *)

InputOK ==
  /\ stdin \in Seq(Byte) /\ Len(stdin) <= StdinSize
  /\ buffer \in Seq(Byte) /\ Len(buffer) <= BufferSize

\* A look at the buffer leaves an end of it.
LEMMA LookOK ==
  ASSUME NEW s \in Seq(Byte)
  PROVE  Look(s).rest \in Seq(Byte) /\ Len(Look(s).rest) <= Len(s)
<1>1. CASE Look(s).rest = s
  BY <1>1
<1>2. CASE s # <<>> /\ Look(s).rest = Tail(s)
  BY <1>2
<1>3. CASE Look(s).rest = <<>>
  BY <1>3
<1>4. ASSUME NEW i \in 3..Len(s), Look(s).rest = SubSeq(s, i + 1, Len(s))
      PROVE  Look(s).rest \in Seq(Byte) /\ Len(Look(s).rest) <= Len(s)
  BY <1>4
<1>5. \/ Look(s).rest = s
      \/ s # <<>> /\ Look(s).rest = Tail(s)
      \/ Look(s).rest = <<>>
      \/ \E i \in 3..Len(s) : Look(s).rest = SubSeq(s, i + 1, Len(s))
  <2>1. Ends(s) \subseteq 3..Len(s)
    BY DEF Ends
  <2>2. Ends(s) # {} => (CHOOSE i \in Ends(s) : TRUE) \in 3..Len(s)
    BY <2>1
  <2>3. QED
    BY <2>2 DEF Look
<1>6. QED
  BY <1>1, <1>2, <1>3, <1>4, <1>5

LEMMA TakeOK == ASSUME InputOK, NEW event, Take(event) PROVE InputOK'
BY LookOK, BufferSizeAssumption DEF InputOK, Take

LEMMA ExpireOK == ASSUME InputOK, NEW event, Expire(event) PROVE InputOK'
<1>1. CASE UNCHANGED inputVars
  BY <1>1 DEF InputOK, inputVars
<1>2. CASE buffer # <<>> /\ buffer' = Tail(buffer) /\ UNCHANGED stdin
  BY <1>2, BufferSizeAssumption DEF InputOK
<1>3. QED
  BY <1>1, <1>2 DEF Expire

\* A read never takes more than there is room for.
LEMMA FillOK == ASSUME InputOK, Fill PROVE InputOK'
<1> DEFINE room == BufferSize - Len(buffer)
           n    == IF room < Len(stdin) THEN room ELSE Len(stdin)
<1> USE StdinSizeAssumption, BufferSizeAssumption
<1>1. /\ n \in 0..Len(stdin) /\ n <= room /\ room \in Nat
      /\ Len(stdin) \in Nat /\ Len(buffer) \in Nat
  BY DEF InputOK, Fill
<1>2. buffer' = buffer \o SubSeq(stdin, 1, n) /\ stdin' = SubSeq(stdin, n + 1, Len(stdin))
  BY DEF Fill
<1> HIDE DEF n
<1>3. SubSeq(stdin, 1, n) \in Seq(Byte) /\ Len(SubSeq(stdin, 1, n)) = n
  BY <1>1 DEF InputOK
<1>4. stdin' \in Seq(Byte) /\ Len(stdin') <= Len(stdin)
  BY <1>1, <1>2 DEF InputOK
<1>5. buffer' \in Seq(Byte) /\ Len(buffer') <= BufferSize
  BY <1>1, <1>2, <1>3 DEF InputOK
<1>6. QED
  BY <1>4, <1>5, <1>1 DEF InputOK

LEMMA TypeIsOK == ASSUME InputOK, NEW b \in Typed, Type(b) PROVE InputOK'
BY TypedAssumption, StdinSizeAssumption DEF InputOK, Type

-----------------------------------------------------------------------------
(* What the keys do.                                                       *)

ModesOK ==
  /\ running \in BOOLEAN /\ exiting \in BOOLEAN
  /\ input_mode \in Modes /\ line \in 0..LineSize
  /\ needs_refresh \in BOOLEAN /\ undrawn \in BOOLEAN /\ frame \in {"early", "due"}
  /\ LineCleared

PassOK ==
  /\ pc \in PassSteps /\ ready \subseteq Fd \cup {STDIN_FILENO}
  /\ slot \in 0..(MaxPanes + 1) /\ to_add \in 0..MaxPanes
  /\ input_system \in BOOLEAN /\ resize_pending \in BOOLEAN /\ output \subseteq Pid

\* What every handler of a key does.
Handled == PaneStep /\ ModesOK'

LEMMA IgnoreOK == ASSUME ModesOK, Ignore PROVE Handled
BY DEF Ignore, paneVars, modeVars, drawVars, ModesOK, LineCleared, Handled, PaneStep

LEMMA ToPtysOK == ASSUME PassOK, ToPtys PROVE PassOK'
BY PanesAssumption DEF ToPtys, PassOK, PassSteps

LEMMA RefocusOK == ASSUME ModesOK, Panes!FocusStep, Refocus PROVE Handled
BY DEF Refocus, modeVars, ModesOK, LineCleared, Handled, PaneStep

LEMMA DirectionOK == ASSUME ModesOK, Direction PROVE Handled
BY IgnoreOK, RefocusOK DEF Direction, Panes!FocusStep

\* Leaving the command mode takes its text with it.
LEMMA LeaveOK ==
  ASSUME ModesOK, Leave, UNCHANGED exiting, running' \in BOOLEAN, PaneStep
  PROVE  Handled
<1>1. 0 \in 0..LineSize
  BY LineSizeAssumption
<1>2. QED
  BY <1>1 DEF Leave, ModesOK, Modes, LineCleared, Handled

LEMMA NormalKeyOK == ASSUME ModesOK, NEW code, NormalKey(code) PROVE Handled
<1>1. CASE EnterCommandMode
  BY <1>1, LineSizeAssumption
     DEF EnterCommandMode, paneVars, drawVars, ModesOK, Modes, LineCleared, Handled,
         PaneStep
<1>2. CASE exiting' = TRUE /\ UNCHANGED <<running, input_mode, line, paneVars, drawVars>>
  BY <1>2 DEF paneVars, drawVars, ModesOK, LineCleared, Handled, PaneStep
<1>3. CASE Direction
  BY <1>3, DirectionOK
<1>4. CASE (Panes!FocusNext \/ Panes!FocusByNumber(1)) /\ Refocus
  BY <1>4, RefocusOK DEF Panes!FocusStep
<1>5. CASE Ignore
  BY <1>5, IgnoreOK
<1>6. QED
  BY <1>1, <1>2, <1>3, <1>4, <1>5 DEF NormalKey

\* The text is edited in command mode only.
LEMMA CommandKeyOK ==
  ASSUME ModesOK, input_mode = "COMMAND", NEW code, CommandKey(code)
  PROVE  Handled
<1>1. CASE LeaveCommandMode
  BY <1>1, LeaveOK DEF LeaveCommandMode, PaneStep, ModesOK
<1>2. CASE /\ line' \in 0..LineSize
           /\ UNCHANGED <<running, exiting, input_mode, paneVars, drawVars>>
  BY <1>2 DEF paneVars, drawVars, ModesOK, LineCleared, Handled, PaneStep
<1>3. CASE Ignore
  BY <1>3, IgnoreOK
<1>4. Insert => line' \in 0..LineSize
  BY LineSizeAssumption DEF Insert, ModesOK
<1>5. QED
  BY <1>1, <1>2, <1>3, <1>4, LineSizeAssumption DEF CommandKey, ModesOK

LEMMA EnterOK ==
  ASSUME PanesOK, ModesOK, PassOK, input_mode = "COMMAND", Enter
  PROVE  Handled /\ PassOK'
<1>0. 0 \in 0..LineSize
  BY LineSizeAssumption
<1>1. CASE LeaveCommandMode /\ ToPtys
  BY <1>1, LeaveOK, ToPtysOK DEF LeaveCommandMode, PaneStep, ModesOK
<1>2. CASE Quit /\ ToPtys
  BY <1>2, LeaveOK, ToPtysOK DEF Quit, PaneStep
<1>3. CASE Close /\ ToPtys
  <2>1. focused_pane \in Pane
    BY <1>3 DEF Close, PanesOK, Panes!TypeOK
  <2>2. PaneStep
    BY <1>3, <2>1 DEF Close, PaneStep
  <2>3. ModesOK'
    BY <1>0, <1>3 DEF Close, ModesOK, Modes, LineCleared
  <2>4. QED
    BY <1>3, <2>2, <2>3, ToPtysOK DEF Handled
<1>4. CASE New /\ ToPtys
  BY <1>4, LeaveOK, ToPtysOK DEF New, PaneStep, ModesOK
<1>5. CASE FocusCommand /\ ToPtys
  <2>1. PaneStep
    BY <1>5 DEF FocusCommand, Panes!FocusStep, PaneStep
  <2>2. ModesOK'
    BY <1>0, <1>5 DEF FocusCommand, ModesOK, Modes, LineCleared
  <2>3. QED
    BY <1>5, <2>1, <2>2, ToPtysOK DEF Handled
<1>6. CASE Ignore /\ ToPtys
  BY <1>6, IgnoreOK, ToPtysOK
<1>7. CASE BeginLoad
  <2>1. Handled
    BY <1>7 DEF BeginLoad, paneVars, modeVars, drawVars, ModesOK, LineCleared,
                Handled, PaneStep
  <2>2. PassOK'
    BY <1>7 DEF BeginLoad, PassOK, PassSteps
  <2>3. QED
    BY <2>1, <2>2
<1>8. QED
  BY <1>1, <1>2, <1>3, <1>4, <1>5, <1>6, <1>7 DEF Enter, Plain, Failed

LEMMA HandleInputOK ==
  ASSUME PanesOK, ModesOK, PassOK, NEW code, HandleInput(code)
  PROVE  Handled /\ PassOK'
<1>1. CASE NormalKey(code) /\ ToPtys
  BY <1>1, NormalKeyOK, ToPtysOK
<1>2. CASE input_mode = "COMMAND" /\ Enter
  BY <1>2, EnterOK
<1>3. CASE input_mode = "COMMAND" /\ CommandKey(code) /\ ToPtys
  BY <1>3, CommandKeyOK, ToPtysOK
<1>4. CASE Ignore /\ ToPtys
  BY <1>4, IgnoreOK, ToPtysOK
<1>5. QED
  BY <1>1, <1>2, <1>3, <1>4 DEF HandleInput

\* Ctrl-W leaves the text where it is, in a mode that is not normal mode.
LEMMA HandleEventOK ==
  ASSUME PanesOK, ModesOK, PassOK, NEW event, HandleEvent(event)
  PROVE  Handled /\ PassOK'
<1>1. CASE Ignore /\ ToPtys
  BY <1>1, IgnoreOK, ToPtysOK
<1>2. CASE /\ input_mode' = "WINDOW"
           /\ UNCHANGED <<running, exiting, line, paneVars, drawVars>>
           /\ ToPtys
  <2>1. Handled
    BY <1>2 DEF paneVars, drawVars, ModesOK, Modes, LineCleared, Handled, PaneStep
  <2>2. QED
    BY <1>2, <2>1, ToPtysOK
<1>3. CASE Direction /\ ToPtys
  BY <1>3, DirectionOK, ToPtysOK
<1>4. CASE HandleInput(event.code)
  BY <1>4, HandleInputOK
<1>5. QED
  BY <1>1, <1>2, <1>3, <1>4 DEF HandleEvent

-----------------------------------------------------------------------------
(* The steps of a pass, and what runs beside it.                           *)

LoopInv == PanesOK /\ NoFalseDisconnect /\ ModesOK /\ PassOK /\ InputOK

\* What every step does.
Kept == Handled /\ PassOK' /\ InputOK'

LEMMA SameInput == ASSUME InputOK, UNCHANGED inputVars PROVE InputOK'
BY DEF InputOK, inputVars

LEMMA KeysKept == ASSUME LoopInv, Keys PROVE Kept
<1> USE DEF LoopInv
<1>1. CASE NoKey
  BY <1>1, IgnoreOK, ToPtysOK, SameInput DEF NoKey, Kept
<1>2. CASE KeyFromInputSystem
  <2>1. PICK event : \/ Take(event) /\ HandleEvent(event)
                     \/ Expire(event) /\ HandleEvent(event)
                     \/ HandleEvent(event) /\ UNCHANGED inputVars
    BY <1>2 DEF KeyFromInputSystem
  <2>2. QED
    BY <2>1, HandleEventOK, TakeOK, ExpireOK, SameInput DEF Kept
<1>3. CASE ReadMore
  <2>1. Handled /\ PassOK'
    BY <1>3 DEF ReadMore, paneVars, modeVars, drawVars, loopVars, ModesOK, LineCleared,
                PassOK, Handled, PaneStep
  <2>2. QED
    BY <1>3, <2>1, FillOK DEF ReadMore, Kept
<1>4. CASE KeyFromNcurses
  <2>1. Handled /\ PassOK'
    BY <1>4, HandleInputOK DEF KeyFromNcurses
  <2>2. InputOK'
    BY <1>4, StdinSizeAssumption DEF KeyFromNcurses, InputOK
  <2>3. QED
    BY <2>1, <2>2 DEF Kept
<1>5. QED
  BY <1>1, <1>2, <1>3, <1>4 DEF Keys

\* :load and the start: the panes go one by one from the last, and come one by one.
LEMMA LoadKept == ASSUME LoopInv, Unload \/ Load \/ Loaded PROVE Kept
<1> USE DEF LoopInv
<1>1. InputOK'
  BY SameInput DEF Unload, Load, Loaded
<1>2. CASE Unload
  <2>1. CASE pane_count > 0
    <3>1. panes[pane_count] \in Pane
      BY <2>1 DEF PanesOK, Panes!TypeOK, Panes!NumbersDense
    <3>2. PaneStep
      BY <1>2, <2>1, <3>1 DEF Unload, PaneStep
    <3>3. needs_refresh' = TRUE /\ undrawn' = TRUE /\ pc' = pc
      BY <1>2, <2>1 DEF Unload
    <3>4. ModesOK'
      BY <1>2, <3>3 DEF Unload, modeVars, ModesOK, LineCleared
    <3>5. PassOK'
      BY <1>2, <3>3 DEF Unload, PassOK
    <3>6. QED
      BY <1>1, <3>2, <3>4, <3>5 DEF Kept, Handled
  <2>2. CASE pc' = "load" /\ UNCHANGED <<paneVars, needs_refresh, undrawn>>
    <3>1. Handled
      BY <1>2, <2>2 DEF Unload, paneVars, modeVars, ModesOK, LineCleared, Handled,
                        PaneStep
    <3>2. PassOK'
      BY <1>2, <2>2 DEF Unload, PassOK, PassSteps
    <3>3. QED
      BY <1>1, <3>1, <3>2 DEF Kept
  <2>3. QED
    BY <1>2, <2>1, <2>2 DEF Unload
<1>3. CASE Load
  <2>1. to_add' \in 0..MaxPanes
    BY <1>3, PanesAssumption DEF Load, PassOK
  <2>2. PassOK'
    BY <1>3, <2>1 DEF Load, PassOK
  <2>3. Handled
    BY <1>3 DEF Load, modeVars, ModesOK, LineCleared, Handled, PaneStep
  <2>4. QED
    BY <1>1, <2>2, <2>3 DEF Kept
<1>4. CASE Loaded
  <2>1. Handled
    BY <1>4, LeaveOK DEF Loaded, PaneStep, ModesOK
  <2>2. pc' \in PassSteps /\ slot' \in 0..(MaxPanes + 1)
    BY <1>4, PanesAssumption DEF Loaded, PassSteps
  <2>3. PassOK'
    BY <1>4, <2>2 DEF Loaded, PassOK
  <2>4. QED
    BY <1>1, <2>1, <2>3 DEF Kept
<1>5. QED
  BY <1>2, <1>3, <1>4

\* Only an end of file that is its own disconnects a pane.
LEMMA PtysKept == ASSUME LoopInv, Ptys PROVE Kept
<1> USE DEF LoopInv
<1>1. InputOK'
  BY SameInput DEF Ptys
<1>2. pc' \in PassSteps /\ slot' \in 0..(MaxPanes + 1)
  <2>1. pane_count \in 0..MaxPanes /\ slot \in Nat
    BY PanesAssumption DEF PanesOK, Panes!TypeOK, PassOK
  <2>2. QED
    BY <2>1, PanesAssumption DEF Ptys, PassOK, PassSteps
<1>3. \/ \E p : ReadPty(p)
      \/ UNCHANGED <<paneVars, needs_refresh, undrawn, output>>
  BY DEF Ptys
<1>4. PaneStep
  <2>1. ASSUME NEW p, ReadPty(p) PROVE PaneStep
    <3>1. HangUp(p) => p \in Panes!Live
      BY DEF HangUp, Panes!PtyClosed
    <3>2. QED
      BY <2>1, <3>1 DEF ReadPty, HangUp, Nothing, paneVars, PaneStep
  <2>2. QED
    BY <1>3, <2>1 DEF paneVars, PaneStep
<1>5. /\ output' \subseteq Pid
      /\ needs_refresh' \in BOOLEAN /\ undrawn' \in BOOLEAN
  BY <1>3 DEF ReadPty, Nothing, PassOK, ModesOK
<1>6. ModesOK'
  BY <1>5 DEF Ptys, modeVars, ModesOK, LineCleared
<1>7. PassOK'
  BY <1>2, <1>5 DEF Ptys, PassOK
<1>8. QED
  BY <1>1, <1>4, <1>6, <1>7 DEF Kept, Handled

LEMMA PassKept == ASSUME LoopInv, Select \/ Resize \/ Render PROVE Kept
<1> USE DEF LoopInv
<1>1. InputOK'
  BY SameInput DEF Select, Resize, Render
<1>2. PaneStep
  BY DEF Select, Resize, Render, PaneStep
<1>3. ModesOK'
  <2>1. CASE Select
    BY <2>1 DEF Select, modeVars, drawVars, ModesOK, LineCleared
  <2>2. CASE Resize
    BY <2>2 DEF Resize, modeVars, ModesOK, LineCleared
  <2>3. CASE Render
    BY <2>3 DEF Render, Frame, modeVars, ModesOK, LineCleared
  <2>4. QED
    BY <2>1, <2>2, <2>3
<1>4. PassOK'
  <2>1. Readable \subseteq Fd \cup {STDIN_FILENO}
    BY DEF Readable
  <2>2. CASE Select
    BY <2>1, <2>2 DEF Select, PassOK, PassSteps
  <2>3. CASE Resize
    BY <2>3 DEF Resize, PassOK, PassSteps
  <2>4. CASE Render
    BY <2>4 DEF Render, PassOK, PassSteps
  <2>5. QED
    BY <2>2, <2>3, <2>4
<1>5. QED
  BY <1>1, <1>2, <1>3, <1>4 DEF Kept, Handled

LEMMA BesideKept ==
  ASSUME LoopInv, Sigwinch \/ Terminal \/ Writes \/ Exits \/ FrameEnds \/ Seconds
  PROVE  Kept
<1> USE DEF LoopInv
<1>1. InputOK'
  BY SameInput, TypeIsOK DEF Sigwinch, Terminal, Writes, Exits, FrameEnds, Seconds
<1>2. PaneStep
  BY DEF Sigwinch, Terminal, Writes, Exits, FrameEnds, Seconds, PaneStep
<1>3. ModesOK'
  BY DEF Sigwinch, Terminal, Writes, Exits, FrameEnds, Seconds, modeVars, drawVars,
         ModesOK, LineCleared
<1>4. PassOK'
  <2>1. CASE Sigwinch
    BY <2>1 DEF Sigwinch, PassOK, PassSteps
  <2>2. CASE Writes
    <3>1. output' \subseteq Pid
      BY <2>2 DEF Writes, PassOK
    <3>2. QED
      BY <2>2, <3>1 DEF Writes, PassOK
  <2>3. CASE UNCHANGED loopVars
    BY <2>3 DEF loopVars, PassOK
  <2>4. QED
    BY <2>1, <2>2, <2>3 DEF Terminal, Exits, FrameEnds, Seconds
<1>5. QED
  BY <1>1, <1>2, <1>3, <1>4 DEF Kept, Handled

LEMMA EveryStep == ASSUME LoopInv, LoopNext PROVE Kept
BY KeysKept, LoadKept, PtysKept, PassKept, BesideKept DEF LoopNext, Pass

-----------------------------------------------------------------------------
(* The theorems.                                                           *)

LEMMA StepDrives == LoopInv /\ [LoopNext]_allVars => [Panes!Next]_(Panes!vars)
<1> SUFFICES ASSUME LoopInv, [LoopNext]_allVars PROVE [Panes!Next]_(Panes!vars)
  OBVIOUS
<1>1. PaneStep
  BY EveryStep DEF Kept, Handled, allVars, PaneStep
<1>2. QED
  BY <1>1, PaneStepIsNext DEF LoopInv

LEMMA StutterKept == ASSUME LoopInv, UNCHANGED allVars PROVE Kept
<1> USE DEF LoopInv
<1>1. InputOK'
  BY SameInput DEF allVars
<1>2. Handled
  BY DEF allVars, modeVars, drawVars, ModesOK, LineCleared, Handled, PaneStep
<1>3. PassOK'
  BY DEF allVars, loopVars, PassOK
<1>4. QED
  BY <1>1, <1>2, <1>3 DEF Kept

LEMMA LoopInvariance == LoopSpec => []LoopInv
<1>1. LoopInit => LoopInv
  <2> SUFFICES ASSUME LoopInit PROVE LoopInv
    OBVIOUS
  <2>1. PanesOK
    <3>1. Manager!Init
      BY SameInit DEF LoopInit, MuxInit
    <3>2. QED
      BY <3>1, SameState, Manager!ListInvInit, PanesAssumption
  <2>2. NoFalseDisconnect
    BY DEF LoopInit, MuxInit, Panes!Init, Panes!Live, NoFalseDisconnect
  <2>3. ModesOK
    <3>1. 0 \in 0..LineSize
      BY LineSizeAssumption
    <3>2. QED
      BY <3>1 DEF LoopInit, MuxInit, ModesOK, Modes, LineCleared
  <2>4. PassOK
    <3>1. slot \in 0..(MaxPanes + 1) /\ to_add \in 0..MaxPanes
      BY PanesAssumption DEF LoopInit
    <3>2. QED
      BY <3>1, InputSystemAssumption DEF LoopInit, MuxInit, PassOK, PassSteps
  <2>5. InputOK
    BY StdinSizeAssumption, BufferSizeAssumption DEF LoopInit, MuxInit, InputOK
  <2>6. QED
    BY <2>1, <2>2, <2>3, <2>4, <2>5 DEF LoopInv
<1>2. LoopInv /\ [LoopNext]_allVars => LoopInv'
  <2> SUFFICES ASSUME LoopInv, [LoopNext]_allVars PROVE LoopInv'
    OBVIOUS
  <2>1. Kept
    BY EveryStep, StutterKept
  <2>2. PanesOK'
    BY StepDrives, PanesKept DEF LoopInv
  <2>3. NoFalseDisconnect'
    BY <2>1, DisconnectKept DEF LoopInv, Kept, Handled
  <2>4. QED
    BY <2>1, <2>2, <2>3 DEF LoopInv, Kept, Handled
<1>3. QED
  BY <1>1, <1>2, PTL DEF LoopSpec

\* Whatever a key, a command, a workspace or a child does in the middle of a pass, the
\* loop changes the panes by calls of the pane manager alone.
THEOREM LoopDrivesPanes == LoopSpec => DrivesPanes
<1>1. LoopInit => Panes!Init
  BY DEF LoopInit, MuxInit
<1>2. QED
  BY <1>1, LoopInvariance, StepDrives, PTL DEF LoopSpec, DrivesPanes, Panes!Spec

\* What is proved of the pane manager by itself holds in the loop: no descriptor leaks
\* and no child is forgotten or signalled in another's place, whatever is typed.
THEOREM LoopKeepsPanes ==
  LoopSpec => [](/\ Panes!NumbersDense /\ Panes!FocusConsistent
                 /\ Panes!MasterOwnership /\ Panes!Attached
                 /\ Panes!NoForgottenChild /\ Panes!SignalsOwnChild)
<1>1. Manager!Spec => []Manager!IInv
  BY Manager!Invariance, PanesAssumption
<1>2. DrivesPanes => Manager!Spec
  <2>1. Panes!Init => Manager!Init
    BY SameInit
  <2>2. [Panes!Next]_(Panes!vars) => [Manager!Next]_(Manager!vars)
    BY SameNext, SameVars
  <2>3. QED
    BY <2>1, <2>2, PTL DEF DrivesPanes, Panes!Spec, Manager!Spec
<1>3. Manager!IInv => /\ Panes!NumbersDense /\ Panes!FocusConsistent
                      /\ Panes!MasterOwnership /\ Panes!Attached
                      /\ Panes!NoForgottenChild /\ Panes!SignalsOwnChild
  <2> SUFFICES ASSUME Manager!IInv
               PROVE  /\ Panes!NumbersDense /\ Panes!FocusConsistent
                      /\ Panes!MasterOwnership /\ Panes!Attached
                      /\ Panes!NoForgottenChild /\ Panes!SignalsOwnChild
    OBVIOUS
  <2>1. PanesOK
    BY SameState DEF Manager!IInv
  <2>2. /\ Panes!MasterOwnership /\ Panes!Attached
        /\ Panes!NoForgottenChild /\ Panes!SignalsOwnChild
    BY SameState
       DEF Manager!IInv, Manager!ProcInv, Manager!MasterOwnership, Panes!MasterOwnership,
           Manager!Attached, Panes!Attached, Manager!NoForgottenChild,
           Panes!NoForgottenChild, Manager!SignalsOwnChild, Panes!SignalsOwnChild
  <2>3. QED
    BY <2>1, <2>2 DEF PanesOK
<1>4. QED
  BY <1>1, <1>2, <1>3, LoopDrivesPanes, PTL

\* A pane is shown as disconnected only when its own child has gone, though a pass goes
\* on with descriptors that select reported for panes it has closed since.
THEOREM NeverDisconnectedAlive == LoopSpec => []NoFalseDisconnect
<1>1. LoopInv => NoFalseDisconnect
  BY DEF LoopInv
<1>2. QED
  BY <1>1, LoopInvariance, PTL

\* The variables of the loop keep their types: the input buffer never holds more than
\* its size, and the command line never more than its own.
THEOREM LoopTypes == LoopSpec => []LoopTypeOK
<1>1. LoopInv => LoopTypeOK
  <2> SUFFICES ASSUME LoopInv PROVE LoopTypeOK
    OBVIOUS
  <2>1. /\ \A i \in 1..Len(stdin) : stdin[i] \in Byte
        /\ \A i \in 1..Len(buffer) : buffer[i] \in Byte
    BY DEF LoopInv, InputOK
  <2>2. QED
    BY <2>1 DEF LoopInv, PanesOK, ModesOK, PassOK, InputOK, LoopTypeOK
<1>2. QED
  BY <1>1, LoopInvariance, PTL

\* No text of a command line is left over in normal mode, whichever key, command or
\* workspace ended command mode.
THEOREM LineIsCleared == LoopSpec => []LineCleared
<1>1. LoopInv => LineCleared
  BY DEF LoopInv, ModesOK
<1>2. QED
  BY <1>1, LoopInvariance, PTL
=============================================================================
