------------------------- MODULE PaneManagerProofs -------------------------
(***************************************************************************)
(* Proofs about the pane manager, for every number of panes, descriptors,  *)
(* processes and seconds.                                                  *)
(***************************************************************************)
EXTENDS PaneManager, TLAPS

ListInv == TypeOK /\ NumbersDense /\ FocusConsistent

-----------------------------------------------------------------------------
(* The array.                                                              *)

\* Dense numbers leave no room for the same pane at two indices.
LEMMA Distinct ==
  ASSUME TypeOK, NumbersDense, NEW i \in 1..pane_count, NEW j \in 1..pane_count,
         panes[i] = panes[j]
  PROVE  i = j
BY DEF NumbersDense

\* app_tui_pane_create appends, and numbers the new pane by its place.
LEMMA CreateLemma ==
  ASSUME ListInv, NEW p \in Pane, Create(p)
  PROVE  /\ Live' = Live \cup {p}
         /\ NumbersDense'
         /\ FocusConsistent'
<1> USE MaxPanesAssumption, NoPaneAssumption
<1>1. pane_count \in 0..MaxPanes /\ pane_count' = pane_count + 1
      /\ pane_count + 1 \in Slots /\ Slots = 1..MaxPanes
  BY DEF ListInv, TypeOK, Create, Slots
<1>2. /\ panes'[pane_count + 1] = p
      /\ \A i \in 1..pane_count : panes'[i] = panes[i]
  BY <1>1 DEF ListInv, TypeOK, Create
<1>3. Live' = Live \cup {p}
  <2>1. Live' = {panes'[i] : i \in 1..(pane_count + 1)}
    BY <1>1 DEF Live
  <2>2. \A i \in 1..(pane_count + 1) : i = pane_count + 1 \/ i \in 1..pane_count
    BY <1>1
  <2> QED BY <1>1, <1>2, <2>1, <2>2 DEF Live
<1>4. \A q \in Live : q # p
  BY DEF Create
<1>5. NumbersDense'
  <2> SUFFICES ASSUME NEW i \in 1..(pane_count + 1)
               PROVE  panes'[i] \in Pane /\ number'[panes'[i]] = i
    BY <1>1 DEF NumbersDense
  <2>1. CASE i = pane_count + 1
    BY <2>1, <1>2 DEF Create, ListInv, TypeOK
  <2>2. CASE i \in 1..pane_count
    <3>1. panes[i] \in Pane /\ number[panes[i]] = i /\ panes[i] \in Live
      BY <2>2 DEF ListInv, NumbersDense, Live
    <3> QED BY <3>1, <2>2, <1>2, <1>4 DEF Create, ListInv, TypeOK
  <2> QED BY <1>1, <2>1, <2>2
<1>6. FocusConsistent'
  <2>1. CASE pane_count = 0
    <3>1. Live = {} BY <2>1 DEF Live
    <3>2. focused_pane' = p /\ has_focus' = [has_focus EXCEPT ![p] = TRUE]
      BY <2>1 DEF Create
    <3>3. Live' = {p} BY <3>1, <1>3
    <3>4. has_focus'[p] = TRUE BY <3>2 DEF ListInv, TypeOK
    <3> QED BY <2>1, <3>2, <3>3, <3>4, <1>1 DEF FocusConsistent
  <2>2. CASE pane_count # 0
    <3>1. pane_count > 0 /\ focused_pane \in Live /\ focused_pane # NoPane
      BY <2>2, <1>1 DEF ListInv, FocusConsistent
    <3>2. focused_pane' = focused_pane /\ has_focus' = [has_focus EXCEPT ![p] = FALSE]
      BY <2>2 DEF Create
    <3>3. focused_pane # p BY <3>1, <1>4
    <3>4. \A q \in Live' : has_focus'[q] <=> (q = focused_pane')
      <4> SUFFICES ASSUME NEW q \in Live'
                   PROVE  has_focus'[q] <=> (q = focused_pane)
        BY <3>2
      <4>1. CASE q = p BY <4>1, <3>2, <3>3 DEF ListInv, TypeOK
      <4>2. CASE q # p
        <5>1. q \in Live BY <4>2, <1>3
        <5>2. q \in Pane BY <5>1 DEF Live, ListInv, NumbersDense
        <5> QED BY <4>2, <5>1, <5>2, <3>2 DEF ListInv, TypeOK, FocusConsistent
      <4> QED BY <4>1, <4>2
    <3> QED BY <3>1, <3>2, <3>4, <1>1, <1>3 DEF FocusConsistent
  <2> QED BY <2>1, <2>2
<1> QED BY <1>3, <1>5, <1>6

\* The loop of app_tui_pane_destroy closes the gap: what followed the pane moves
\* down by one and is numbered by its new place, and only the pane is gone.
LEMMA ShiftLemma ==
  ASSUME TypeOK, NumbersDense, NEW k \in 1..pane_count, Shift(k)
  PROVE  /\ Live' = Live \ {panes[k]}
         /\ NumbersDense'
         /\ panes' \in [Slots -> Pane \cup {NoPane}]
         /\ number' \in [Pane -> 0..MaxPanes]
         /\ pane_count' = pane_count - 1
         /\ \A i \in 1..(pane_count - 1) :
              panes'[i] = IF k <= i THEN panes[i + 1] ELSE panes[i]
<1> USE MaxPanesAssumption
<1>1. pane_count \in 1..MaxPanes /\ Slots = 1..MaxPanes /\ pane_count' = pane_count - 1
  BY DEF TypeOK, Shift, Slots
<1>2. \A i \in 1..(pane_count - 1) :
        panes'[i] = IF k <= i THEN panes[i + 1] ELSE panes[i]
  BY <1>1 DEF Shift
<1>3. panes' \in [Slots -> Pane \cup {NoPane}]
  BY <1>1 DEF Shift, TypeOK
<1>4. \A i, j \in 1..pane_count : panes[i] = panes[j] => i = j
  BY Distinct
<1>5. \A i \in 1..pane_count : panes[i] \in Pane
  BY DEF NumbersDense
<1>6. \A i \in k..(pane_count - 1) : number'[panes[i + 1]] = i
  <2> TAKE i \in k..(pane_count - 1)
  <2>1. i + 1 \in 1..pane_count /\ panes[i + 1] \in Pane
    BY <1>1, <1>5
  <2>2. \A j \in k..(pane_count - 1) : panes[j + 1] = panes[i + 1] => j = i
    <3> TAKE j \in k..(pane_count - 1)
    <3> HAVE panes[j + 1] = panes[i + 1]
    <3>1. j + 1 \in 1..pane_count BY <1>1
    <3>2. j + 1 = i + 1 BY <3>1, <2>1, <1>4
    <3> QED BY <3>2
  <2>3. (CHOOSE j \in k..(pane_count - 1) : panes[j + 1] = panes[i + 1]) = i
    BY <2>2
  <2> QED BY <2>1, <2>3 DEF Shift
<1>7. \A i \in 1..(k - 1) : number'[panes[i]] = i
  <2> TAKE i \in 1..(k - 1)
  <2>1. i \in 1..pane_count /\ i # k /\ panes[i] \in Pane /\ number[panes[i]] = i
    BY <1>1, <1>5 DEF NumbersDense
  <2>2. panes[i] # panes[k] BY <2>1, <1>4
  <2>3. ~ \E j \in k..(pane_count - 1) : panes[j + 1] = panes[i]
    <3> SUFFICES ASSUME NEW j \in k..(pane_count - 1), panes[j + 1] = panes[i]
                 PROVE  FALSE
      OBVIOUS
    <3>1. j + 1 \in 1..pane_count /\ j + 1 # i BY <1>1
    <3> QED BY <3>1, <2>1, <1>4
  <2> QED BY <2>1, <2>2, <2>3 DEF Shift
<1>8. NumbersDense'
  <2> SUFFICES ASSUME NEW i \in 1..(pane_count - 1)
               PROVE  panes'[i] \in Pane /\ number'[panes'[i]] = i
    BY <1>1 DEF NumbersDense
  <2>1. CASE k <= i
    <3>1. i \in k..(pane_count - 1) /\ i + 1 \in 1..pane_count BY <2>1, <1>1
    <3> QED BY <2>1, <3>1, <1>2, <1>5, <1>6
  <2>2. CASE ~(k <= i)
    <3>1. i \in 1..(k - 1) /\ i \in 1..pane_count BY <2>2, <1>1
    <3> QED BY <2>2, <3>1, <1>2, <1>5, <1>7
  <2> QED BY <2>1, <2>2
<1>9. Live' = Live \ {panes[k]}
  <2>1. Live' = {panes'[i] : i \in 1..(pane_count - 1)} BY <1>1 DEF Live
  <2>2. ASSUME NEW i \in 1..(pane_count - 1)
        PROVE  panes'[i] \in Live \ {panes[k]}
    <3> DEFINE o == IF k <= i THEN i + 1 ELSE i
    <3>1. o \in 1..pane_count /\ o # k /\ panes'[i] = panes[o] BY <1>1, <1>2
    <3>2. panes[o] # panes[k] BY <3>1, <1>4
    <3> QED BY <3>1, <3>2 DEF Live
  <2>3. ASSUME NEW i \in 1..pane_count, panes[i] # panes[k]
        PROVE  \E j \in 1..(pane_count - 1) : panes'[j] = panes[i]
    <3> DEFINE j == IF i < k THEN i ELSE i - 1
    <3>1. i # k BY <2>3
    <3>2. j \in 1..(pane_count - 1) BY <3>1, <1>1
    <3>3. panes'[j] = panes[i] BY <3>1, <3>2, <1>2
    <3> QED BY <3>2, <3>3
  <2>4. Live' \subseteq Live \ {panes[k]} BY <2>1, <2>2
  <2>5. ASSUME NEW q \in Live, q # panes[k] PROVE q \in Live'
    <3> PICK i \in 1..pane_count : panes[i] = q BY DEF Live
    <3> PICK j \in 1..(pane_count - 1) : panes'[j] = panes[i] BY <2>3, <2>5
    <3> QED BY <2>1
  <2> QED BY <2>4, <2>5
<1>10. number' \in [Pane -> 0..MaxPanes]
  <2>1. \A q \in Pane : number'[q] \in 0..MaxPanes
    <3> TAKE q \in Pane
    <3>1. CASE \E i \in k..(pane_count - 1) : panes[i + 1] = q
      <4> PICK i \in k..(pane_count - 1) : panes[i + 1] = q BY <3>1
      <4>1. number'[q] = i BY <1>6
      <4> QED BY <4>1, <1>1
    <3>2. CASE ~ \E i \in k..(pane_count - 1) : panes[i + 1] = q
      BY <3>2, <1>1 DEF Shift, TypeOK
    <3> QED BY <3>1, <3>2
  <2>2. number' = [q \in Pane |-> number'[q]] BY Zenon DEF Shift
  <2> QED BY <2>1, <2>2
<1> QED BY <1>1, <1>2, <1>3, <1>8, <1>9, <1>10
-----------------------------------------------------------------------------
(* Focus.                                                                  *)

\* Moving the focus to a pane of the array keeps the pointer and the flags in
\* agreement, and touches nothing but the focus.
LEMMA FocusLemma ==
  ASSUME ListInv, NEW p \in Live, Focus(p)
  PROVE  ListInv' /\ UNCHANGED <<listVars, procVars, now>> /\ focused_pane' = p
<1> USE NoPaneAssumption, MaxTimeAssumption
<1>1. UNCHANGED <<listVars, procVars, now>> /\ focused_pane' = p BY DEF Focus
<1>2. Live' = Live /\ NumbersDense'
  BY <1>1 DEF Live, NumbersDense, listVars, ListInv
<1>3. Live \subseteq Pane BY DEF Live, NumbersDense, ListInv
<1>4. pane_count > 0 BY DEF Live, ListInv, TypeOK
<1>5. TypeOK'
  <2>1. has_focus' \in [Pane -> BOOLEAN]
    <3>1. \A q \in Pane : (q = p \/ (has_focus[q] /\ q # focused_pane)) \in BOOLEAN
      OBVIOUS
    <3> QED BY <3>1 DEF Focus
  <2>2. last_focus_time' \in [Pane -> 0..MaxTime]
    BY DEF Focus, ListInv, TypeOK
  <2> QED BY <1>1, <1>3, <2>1, <2>2 DEF ListInv, TypeOK, listVars, procVars
<1>6. \A q \in Live : has_focus'[q] <=> q = p
  <2> TAKE q \in Live
  <2>1. has_focus'[q] <=> (q = p \/ (has_focus[q] /\ q # focused_pane))
    BY <1>3 DEF Focus
  <2>2. has_focus[q] <=> q = focused_pane BY DEF ListInv, FocusConsistent
  <2> QED BY <2>1, <2>2
<1>7. FocusConsistent'
  BY <1>1, <1>2, <1>3, <1>4, <1>6 DEF FocusConsistent, listVars
<1> QED BY <1>1, <1>2, <1>5, <1>7 DEF ListInv

\* Every search of the multiplexer, by number, by pointer, by flag, by time or by
\* direction, ends on a pane of the array.
LEMMA FocusStepFocuses ==
  ASSUME ListInv, FocusStep
  PROVE  \E p \in Live : Focus(p)
<1>1. pane_count \in Nat /\ (pane_count > 0 => \A i \in 1..pane_count : panes[i] \in Live)
  BY DEF ListInv, TypeOK, Live
<1>2. PointedIndex = 1 \/ PointedIndex \in 1..pane_count
  <2> DEFINE S == {i \in 1..pane_count : panes[i] = focused_pane}
  <2>1. CASE S = {} BY <2>1 DEF PointedIndex, FirstOf
  <2>2. CASE S # {}
    <3> PICK i \in S : TRUE BY <2>2
    <3>1. \A j \in S : i <= j
      BY Distinct DEF ListInv
    <3>2. (CHOOSE k \in S : \A j \in S : k <= j) \in S BY <3>1
    <3> QED BY <2>2, <3>2 DEF PointedIndex, FirstOf
  <2> QED BY <2>1, <2>2
<1>3. FlaggedIndex = 0 \/ FlaggedIndex \in 1..pane_count
  <2> DEFINE S == {i \in 1..pane_count : has_focus[panes[i]]}
  <2>1. CASE S = {} BY <2>1 DEF FlaggedIndex, FirstOf
  <2>2. CASE S # {}
    <3> PICK i \in S : TRUE BY <2>2
    <3>1. \A j \in S : panes[j] = focused_pane
      BY <1>1 DEF ListInv, FocusConsistent
    <3>2. \A j \in S : i <= j
      BY <3>1, Distinct DEF ListInv
    <3>3. (CHOOSE k \in S : \A j \in S : k <= j) \in S BY <3>2
    <3> QED BY <2>2, <3>3 DEF FlaggedIndex, FirstOf
  <2> QED BY <2>1, <2>2
<1>4. ASSUME NEW n \in 1..9, FocusByNumber(n) PROVE \E p \in Live : Focus(p)
  BY <1>1, <1>4 DEF FocusByNumber
<1>5. CASE FocusNext
  BY <1>1, <1>2, <1>5 DEF FocusNext, Successor
<1>6. CASE FocusPrev
  BY <1>1, <1>2, <1>6 DEF FocusPrev, Predecessor
<1>7. ASSUME NEW reverse \in BOOLEAN, CycleFocus(reverse) PROVE \E p \in Live : Focus(p)
  BY <1>1, <1>3, <1>7 DEF CycleFocus, Successor, Predecessor
<1>8. CASE FocusLast
  BY <1>1, <1>8 DEF FocusLast, LastFocused
<1>9. CASE FocusDirection
  BY <1>1, <1>9 DEF FocusDirection
<1> QED BY <1>4, <1>5, <1>6, <1>7, <1>8, <1>9 DEF FocusStep
-----------------------------------------------------------------------------
(* Opening and closing.                                                    *)

\* Where the focus goes when the pane at index k is closed.
Heir(k) == IF pane_count = 1 THEN NoPane
           ELSE IF k = 1 THEN panes[2] ELSE panes[1]

\* Closing a pane leaves the others numbered and, when it had the focus, one of
\* them focused.
LEMMA RemoveLemma ==
  ASSUME ListInv, NEW p \in Pane, RemovePane(p)
  PROVE  /\ p \in Live
         /\ Live' = Live \ {p}
         /\ NumbersDense'
         /\ FocusConsistent'
         /\ panes' \in [Slots -> Pane \cup {NoPane}]
         /\ number' \in [Pane -> 0..MaxPanes]
         /\ pane_count' \in 0..MaxPanes
         /\ focused_pane' \in Pane \cup {NoPane}
         /\ has_focus' \in [Pane -> BOOLEAN]
<1> USE NoPaneAssumption, MaxPanesAssumption
<1>1. PICK k \in 1..pane_count :
        panes[k] = p /\ Shift(k) /\ DropFocus(p, Heir(k))
  BY DEF RemovePane, Heir
<1>2. /\ Live' = Live \ {p} /\ NumbersDense'
      /\ panes' \in [Slots -> Pane \cup {NoPane}]
      /\ number' \in [Pane -> 0..MaxPanes]
      /\ pane_count' = pane_count - 1
  BY <1>1, ShiftLemma DEF ListInv
<1>3. pane_count \in 1..MaxPanes /\ p \in Live
  BY <1>1 DEF ListInv, TypeOK, Live
<1>4. \A i \in 1..pane_count : panes[i] \in Pane /\ panes[i] \in Live
  BY DEF ListInv, NumbersDense, Live
<1>5. pane_count > 1 => Heir(k) \in Live \ {p}
  <2> HAVE pane_count > 1
  <2>1. CASE k = 1
    <3>1. Heir(k) = panes[2] /\ 2 \in 1..pane_count BY <1>3, <2>1 DEF Heir
    <3>2. panes[2] # panes[k] BY <2>1, <3>1, Distinct DEF ListInv
    <3> QED BY <3>1, <3>2, <1>1, <1>4
  <2>2. CASE k # 1
    <3>1. Heir(k) = panes[1] /\ 1 \in 1..pane_count BY <1>3, <2>2 DEF Heir
    <3>2. panes[1] # panes[k] BY <2>2, <3>1, Distinct DEF ListInv
    <3> QED BY <3>1, <3>2, <1>1, <1>4
  <2> QED BY <2>1, <2>2
<1>6. pane_count = 1 => Heir(k) = NoPane /\ Live = {p}
  <2> HAVE pane_count = 1
  <2>1. k = 1 /\ Live = {panes[1]} BY DEF Live
  <2> QED BY <2>1, <1>1 DEF Heir
<1>7. Live \subseteq Pane BY <1>4 DEF Live
<1>8. focused_pane' = IF focused_pane = p THEN Heir(k) ELSE focused_pane
  BY <1>1 DEF DropFocus
<1>9. focused_pane \in Live /\ focused_pane # NoPane
  BY <1>3 DEF ListInv, FocusConsistent
<1>10. \A q \in Pane : has_focus'[q] <=> \/ has_focus[q] /\ q # p
                                         \/ focused_pane = p /\ q = Heir(k)
  BY <1>1 DEF DropFocus
<1>11. has_focus' \in [Pane -> BOOLEAN]
  <2>1. \A q \in Pane : (\/ has_focus[q] /\ q # p
                         \/ focused_pane = p /\ q = Heir(k)) \in BOOLEAN
    OBVIOUS
  <2> QED BY <2>1, <1>1 DEF DropFocus
<1>12. FocusConsistent'
  <2>1. (focused_pane' = NoPane) <=> (pane_count' = 0)
    <3>1. CASE pane_count = 1
      BY <3>1, <1>2, <1>6, <1>8, <1>9
    <3>2. CASE pane_count > 1
      BY <3>2, <1>2, <1>5, <1>7, <1>8, <1>9
    <3> QED BY <3>1, <3>2, <1>3
  <2>2. pane_count' > 0 => focused_pane' \in Live'
    <3> HAVE pane_count' > 0
    <3>1. pane_count > 1 BY <1>2, <1>3
    <3> QED BY <3>1, <1>2, <1>5, <1>8, <1>9
  <2>3. \A q \in Live' : has_focus'[q] <=> q = focused_pane'
    <3> TAKE q \in Live'
    <3>1. q \in Live /\ q # p /\ q \in Pane BY <1>2, <1>7
    <3>2. has_focus[q] <=> q = focused_pane BY <3>1 DEF ListInv, FocusConsistent
    <3> QED BY <3>1, <3>2, <1>8, <1>10
  <2> QED BY <2>1, <2>2, <2>3 DEF FocusConsistent
<1>13. focused_pane' \in Pane \cup {NoPane}
  <2>1. Heir(k) \in Pane \cup {NoPane} BY <1>3, <1>5, <1>6, <1>7
  <2> QED BY <2>1, <1>8 DEF ListInv, TypeOK
<1> QED BY <1>2, <1>3, <1>11, <1>12, <1>13

LEMMA ListInvInit == Init => ListInv
<1> SUFFICES ASSUME Init PROVE ListInv
  OBVIOUS
<1> USE MaxPanesAssumption, MaxTimeAssumption
<1>1. TypeOK BY DEF Init, TypeOK, Slots, States
<1>2. NumbersDense BY DEF Init, NumbersDense
<1>3. FocusConsistent BY DEF Init, FocusConsistent, Live
<1> QED BY <1>1, <1>2, <1>3 DEF ListInv

\* Every call the multiplexer makes keeps the array dense and the focus consistent.
LEMMA ListInvStep == ListInv /\ [Next]_vars => ListInv'
<1> SUFFICES ASSUME ListInv, [Next]_vars PROVE ListInv'
  OBVIOUS
<1> USE MaxPanesAssumption, MaxTimeAssumption
<1>1. ASSUME NEW p \in Pane, AddPane(p) PROVE ListInv'
  <2>1. Create(p) /\ NumbersDense' /\ FocusConsistent'
    BY <1>1, CreateLemma DEF AddPane
  <2>2. /\ pane_count + 1 \in Slots /\ pane_count \in 0..(MaxPanes - 1)
    BY <2>1 DEF Create, Slots, ListInv, TypeOK
  <2>3. /\ panes' \in [Slots -> Pane \cup {NoPane}]
        /\ pane_count' \in 0..MaxPanes
        /\ focused_pane' \in Pane \cup {NoPane}
        /\ number' \in [Pane -> 0..MaxPanes]
        /\ last_focus_time' \in [Pane -> 0..MaxTime]
    BY <2>1, <2>2 DEF Create, ListInv, TypeOK
  <2>4. has_focus' \in [Pane -> BOOLEAN]
    <3>1. (pane_count = 0) \in BOOLEAN OBVIOUS
    <3> QED BY <3>1, <2>1, Zenon DEF Create, ListInv, TypeOK
  <2>5. /\ state' \in [Pane -> States]
        /\ pty_master' \in [Pane -> Fd \cup {-1}]
        /\ process_pid' \in [Pane -> Pid \cup {-1}]
        /\ open_fds' \in SUBSET Fd
        /\ child' \in [Pid -> {"free", "running", "zombie"}]
        /\ signalled' \in SUBSET Pid
        /\ now' \in 1..MaxTime
    BY <1>1 DEF AddPane, LaunchSucceeds, OpenPty, Spawn, LaunchFails, SpawnFails, Unlaunched,
                ClosePty, ListInv, TypeOK, States
  <2> QED BY <2>1, <2>3, <2>4, <2>5 DEF ListInv, TypeOK
<1>2. ASSUME NEW p \in Pane, RemovePane(p) PROVE ListInv'
  <2>1. /\ state' \in [Pane -> States]
        /\ last_focus_time' \in [Pane -> 0..MaxTime]
        /\ pty_master' \in [Pane -> Fd \cup {-1}]
        /\ process_pid' \in [Pane -> Pid \cup {-1}]
        /\ open_fds' \in SUBSET Fd
        /\ child' \in [Pid -> {"free", "running", "zombie"}]
        /\ signalled' \in SUBSET Pid
        /\ now' \in 1..MaxTime
    BY <1>2 DEF RemovePane, CloseMaster, LetGo, ListInv, TypeOK, States
  <2> QED BY <1>2, <2>1, RemoveLemma DEF ListInv, TypeOK
<1>3. CASE FocusStep
  BY <1>3, FocusStepFocuses, FocusLemma
<1>4. ASSUME NEW p \in Pane, PtyClosed(p) PROVE ListInv'
  <2>1. TypeOK'
    BY <1>4 DEF PtyClosed, ListInv, TypeOK, listVars, focusVars, States
  <2> QED BY <1>4, <2>1 DEF PtyClosed, ListInv, NumbersDense, FocusConsistent,
                            Live, listVars, focusVars
<1>5. ASSUME NEW p \in Pane, TerminateProcess(p) PROVE ListInv'
  <2>1. TypeOK'
    BY <1>5 DEF TerminateProcess, CloseMaster, LetGo, ListInv, TypeOK, listVars,
                focusVars, States
  <2> QED BY <1>5, <2>1 DEF TerminateProcess, ListInv, NumbersDense,
                            FocusConsistent, Live, listVars, focusVars
<1>6. ASSUME NEW c \in Pid, ChildExits(c) PROVE ListInv'
  <2>1. TypeOK'
    BY <1>6 DEF ChildExits, ListInv, TypeOK, listVars, focusVars
  <2> QED BY <1>6, <2>1 DEF ChildExits, ListInv, NumbersDense, FocusConsistent,
                            Live, listVars, focusVars
<1>7. CASE Tick
  <2>1. TypeOK'
    BY <1>7 DEF Tick, ListInv, TypeOK, listVars, focusVars, procVars
  <2> QED BY <1>7, <2>1 DEF Tick, ListInv, NumbersDense, FocusConsistent,
                            Live, listVars, focusVars
<1>8. CASE UNCHANGED vars
  BY <1>8 DEF ListInv, TypeOK, NumbersDense, FocusConsistent, Live, vars,
              listVars, focusVars, procVars
<1> QED BY <1>1, <1>2, <1>3, <1>4, <1>5, <1>6, <1>7, <1>8 DEF Next
-----------------------------------------------------------------------------
(* Descriptors and processes.                                              *)

ProcInv == MasterOwnership /\ Attached /\ NoForgottenChild /\ SignalsOwnChild

LEMMA LivePanes ==
  ASSUME NumbersDense
  PROVE  Live \subseteq Pane
BY DEF Live, NumbersDense

\* A child and a master no pane has: a launch cannot collide with one.
LEMMA LaunchSucceedsLemma ==
  ASSUME ListInv, ProcInv, NEW p \in Pane, Create(p), LaunchSucceeds(p),
         UNCHANGED signalled, Live' = Live \cup {p}
  PROVE  ProcInv'
<1> USE FdAssumption, PidAssumption
<1>1. PICK f \in Fd \ open_fds, c \in Pid :
        /\ child[c] = "free"
        /\ open_fds'    = open_fds \cup {f}
        /\ child'       = [child EXCEPT ![c] = "running"]
        /\ pty_master'  = [pty_master EXCEPT ![p] = f]
        /\ process_pid' = [process_pid EXCEPT ![p] = c]
        /\ state'       = [state EXCEPT ![p] = "ACTIVE"]
  BY DEF LaunchSucceeds, OpenPty, Spawn
<1>2. Live \subseteq Pane /\ p \notin Live /\ f # -1 /\ c # -1
  BY LivePanes DEF ListInv, Create
<1>3. /\ pty_master'[p] = f /\ process_pid'[p] = c /\ child'[c] = "running"
      /\ \A q \in Live : /\ pty_master'[q] = pty_master[q]
                         /\ process_pid'[q] = process_pid[q]
                         /\ state'[q] = state[q]
  BY <1>1, <1>2 DEF ListInv, TypeOK
<1>4. \A q \in Live : pty_master[q] # f /\ process_pid[q] # c
  BY <1>1, <1>2 DEF ProcInv, MasterOwnership, SignalsOwnChild
<1>5. MasterOwnership'
  <2>1. open_fds' = {pty_master'[q] : q \in Live'} \ {-1}
    BY <1>1, <1>2, <1>3 DEF ProcInv, MasterOwnership
  <2>2. \A q, r \in Live' :
          pty_master'[q] = pty_master'[r] /\ pty_master'[q] # -1 => q = r
    BY <1>2, <1>3, <1>4 DEF ProcInv, MasterOwnership
  <2> QED BY <2>1, <2>2 DEF MasterOwnership
<1>6. Attached'
  BY <1>2, <1>3 DEF ProcInv, Attached
<1>7. NoForgottenChild'
  BY <1>1, <1>3 DEF ProcInv, NoForgottenChild, ListInv, TypeOK
<1>8. SignalsOwnChild'
  <2>1. \A q \in Live : process_pid[q] # -1 =>
          process_pid[q] \in Pid /\ child'[process_pid[q]] # "free"
    BY <1>1, <1>2 DEF ProcInv, SignalsOwnChild, ListInv, TypeOK
  <2>2. \A q \in Live : process_pid'[q] # -1 => child'[process_pid'[q]] # "free"
    BY <2>1, <1>3
  <2>3. \A q, r \in Live' :
          process_pid'[q] # -1 /\ process_pid'[r] = process_pid'[q] => r = q
    BY <1>2, <1>3, <1>4 DEF ProcInv, SignalsOwnChild
  <2> QED BY <1>3, <2>2, <2>3 DEF SignalsOwnChild
<1> QED BY <1>5, <1>6, <1>7, <1>8 DEF ProcInv

LEMMA LaunchFailsLemma ==
  ASSUME ListInv, ProcInv, NEW p \in Pane, Create(p), LaunchFails(p) \/ SpawnFails(p),
         UNCHANGED signalled, Live' = Live \cup {p}
  PROVE  ProcInv'
<1>1. Live \subseteq Pane /\ p \notin Live
  BY LivePanes DEF ListInv, Create
<1>2. /\ pty_master'[p] = -1 /\ process_pid'[p] = -1 /\ state'[p] = "ERROR"
      /\ UNCHANGED <<open_fds, child, signalled>>
      /\ \A q \in Live : /\ pty_master'[q] = pty_master[q]
                         /\ process_pid'[q] = process_pid[q]
                         /\ state'[q] = state[q]
  <2>1. Unlaunched(p)
    BY DEF LaunchFails, SpawnFails
  <2>2. UNCHANGED open_fds
    <3>1. ASSUME NEW f \in Fd \ open_fds, open_fds' = ClosePty(open_fds \cup {f}, f)
          PROVE  UNCHANGED open_fds
      BY <3>1 DEF ClosePty
    <3>2. QED
      BY <3>1 DEF LaunchFails, SpawnFails
  <2>3. QED
    BY <1>1, <2>1, <2>2 DEF Unlaunched, ListInv, TypeOK
<1>3. MasterOwnership'
  BY <1>1, <1>2 DEF ProcInv, MasterOwnership
<1>4. Attached'
  BY <1>1, <1>2 DEF ProcInv, Attached
<1>5. NoForgottenChild'
  BY <1>2 DEF ProcInv, NoForgottenChild
<1>6. SignalsOwnChild'
  BY <1>1, <1>2 DEF ProcInv, SignalsOwnChild
<1> QED BY <1>3, <1>4, <1>5, <1>6 DEF ProcInv

\* Closing a pane closes its master alone and signals its child alone.
LEMMA RemoveProcLemma ==
  ASSUME ListInv, ProcInv, NEW p \in Pane, RemovePane(p)
  PROVE  ProcInv'
<1>1. Live \subseteq Pane /\ Live' = Live \ {p} /\ p \in Live
  BY LivePanes, RemoveLemma DEF ListInv
<1>2. /\ open_fds' = open_fds \ {pty_master[p]}
      /\ signalled' = signalled \cup ({process_pid[p]} \cap Pid)
      /\ child' = child
      /\ \A q \in Live' : /\ pty_master'[q] = pty_master[q]
                          /\ process_pid'[q] = process_pid[q]
                          /\ state'[q] = state[q]
  BY <1>1 DEF RemovePane, CloseMaster, LetGo, ListInv, TypeOK
<1>3. MasterOwnership'
  <2>1. open_fds' = {pty_master'[q] : q \in Live'} \ {-1}
    <3>1. \A q \in Live' : pty_master[q] # -1 => pty_master[q] # pty_master[p]
      BY <1>1 DEF ProcInv, MasterOwnership
    <3> QED BY <3>1, <1>1, <1>2 DEF ProcInv, MasterOwnership
  <2> QED BY <2>1, <1>1, <1>2 DEF ProcInv, MasterOwnership
<1>4. Attached'
  BY <1>1, <1>2 DEF ProcInv, Attached
<1>5. NoForgottenChild'
  BY <1>1, <1>2 DEF ProcInv, NoForgottenChild
<1>6. SignalsOwnChild'
  BY <1>1, <1>2 DEF ProcInv, SignalsOwnChild
<1> QED BY <1>3, <1>4, <1>5, <1>6 DEF ProcInv

LEMMA TerminateLemma ==
  ASSUME ListInv, ProcInv, NEW p \in Pane, TerminateProcess(p)
  PROVE  ProcInv'
<1> USE PidAssumption
<1>1. Live \subseteq Pane /\ p \in Live /\ Live' = Live
  BY LivePanes DEF ListInv, TerminateProcess, Live, listVars
<1>2. /\ process_pid[p] \in Pid
      /\ open_fds' = open_fds \ {pty_master[p]}
      /\ signalled' = signalled \cup {process_pid[p]}
      /\ child' = [child EXCEPT ![process_pid[p]] = "zombie"]
      /\ pty_master'[p] = -1 /\ process_pid'[p] = -1 /\ state'[p] = "DISCONNECTED"
      /\ \A q \in Live \ {p} : /\ pty_master'[q] = pty_master[q]
                               /\ process_pid'[q] = process_pid[q]
                               /\ state'[q] = state[q]
  BY <1>1 DEF TerminateProcess, CloseMaster, LetGo, ListInv, TypeOK
<1>3. MasterOwnership'
  <2>1. open_fds' = {pty_master'[q] : q \in Live} \ {-1}
    <3>1. \A q \in Live \ {p} : pty_master[q] # -1 => pty_master[q] # pty_master[p]
      BY <1>1 DEF ProcInv, MasterOwnership
    <3> QED BY <3>1, <1>1, <1>2 DEF ProcInv, MasterOwnership
  <2> QED BY <2>1, <1>1, <1>2 DEF ProcInv, MasterOwnership
<1>4. Attached'
  BY <1>1, <1>2 DEF ProcInv, Attached
<1>5. NoForgottenChild'
  BY <1>1, <1>2 DEF ProcInv, NoForgottenChild, ListInv, TypeOK
<1>6. SignalsOwnChild'
  BY <1>1, <1>2 DEF ProcInv, SignalsOwnChild, ListInv, TypeOK
<1> QED BY <1>3, <1>4, <1>5, <1>6 DEF ProcInv

LEMMA ProcInvInit == Init => ProcInv
BY DEF Init, ProcInv, MasterOwnership, Attached, NoForgottenChild, SignalsOwnChild,
       Live

LEMMA ProcInvStep == ListInv /\ ProcInv /\ [Next]_vars => ProcInv'
<1> SUFFICES ASSUME ListInv, ProcInv, [Next]_vars PROVE ProcInv'
  OBVIOUS
<1>1. ASSUME NEW p \in Pane, AddPane(p) PROVE ProcInv'
  <2>1. Create(p) /\ Live' = Live \cup {p} /\ UNCHANGED signalled
    BY <1>1, CreateLemma DEF AddPane
  <2>2. CASE LaunchSucceeds(p) BY <2>1, <2>2, LaunchSucceedsLemma
  <2>3. CASE LaunchFails(p) \/ SpawnFails(p) BY <2>1, <2>3, LaunchFailsLemma
  <2> QED BY <1>1, <2>2, <2>3 DEF AddPane
<1>2. ASSUME NEW p \in Pane, RemovePane(p) PROVE ProcInv'
  BY <1>2, RemoveProcLemma
<1>3. CASE FocusStep
  <2>1. UNCHANGED <<listVars, procVars, now>>
    BY <1>3, FocusStepFocuses, FocusLemma
  <2> QED BY <2>1 DEF listVars, procVars, ProcInv, MasterOwnership, Attached,
                      NoForgottenChild, SignalsOwnChild, Live
<1>4. ASSUME NEW p \in Pane, PtyClosed(p) PROVE ProcInv'
  <2>1. UNCHANGED <<panes, pane_count, pty_master, process_pid, open_fds, child,
                    signalled>>
        /\ state' = [state EXCEPT ![p] = "DISCONNECTED"]
    BY <1>4 DEF PtyClosed, listVars
  <2>2. \A q \in Live : state'[q] = "ACTIVE" => state[q] = "ACTIVE"
    BY <2>1, LivePanes DEF ListInv, TypeOK
  <2> QED BY <2>1, <2>2 DEF ProcInv, MasterOwnership, Attached, NoForgottenChild,
                            SignalsOwnChild, Live
<1>5. ASSUME NEW p \in Pane, TerminateProcess(p) PROVE ProcInv'
  BY <1>5, TerminateLemma
<1>6. ASSUME NEW c \in Pid, ChildExits(c) PROVE ProcInv'
  <2>1. /\ UNCHANGED <<panes, pane_count, state, pty_master, process_pid, open_fds,
                       signalled>>
        /\ Live' = Live
        /\ \A d \in Pid : /\ child'[d] = "running" => child[d] = "running"
                          /\ child'[d] = "free" => child[d] = "free"
    BY <1>6 DEF ChildExits, listVars, Live, ListInv, TypeOK
  <2>2. \A q \in Live : process_pid[q] \in Pid \cup {-1}
    BY LivePanes DEF ListInv, TypeOK
  <2>3. MasterOwnership' /\ Attached' /\ NoForgottenChild'
    BY <2>1 DEF ProcInv, MasterOwnership, Attached, NoForgottenChild
  <2>4. SignalsOwnChild'
    BY <2>1, <2>2 DEF ProcInv, SignalsOwnChild
  <2> QED BY <2>3, <2>4 DEF ProcInv
<1>7. CASE Tick
  BY <1>7 DEF Tick, listVars, procVars, ProcInv, MasterOwnership, Attached,
              NoForgottenChild, SignalsOwnChild, Live
<1>8. CASE UNCHANGED vars
  BY <1>8 DEF vars, listVars, procVars, ProcInv, MasterOwnership, Attached,
              NoForgottenChild, SignalsOwnChild, Live
<1> QED BY <1>1, <1>2, <1>3, <1>4, <1>5, <1>6, <1>7, <1>8 DEF Next
-----------------------------------------------------------------------------
(* The theorems.                                                           *)

IInv == ListInv /\ ProcInv

LEMMA Invariance == Spec => []IInv
<1>1. Init => IInv
  BY ListInvInit, ProcInvInit DEF IInv
<1>2. IInv /\ [Next]_vars => IInv'
  BY ListInvStep, ProcInvStep DEF IInv
<1> QED BY <1>1, <1>2, PTL DEF Spec

\* Every field of every pane has its range, and the array never outgrows its slots.
THEOREM TypeCorrect == Spec => []TypeOK
<1>1. IInv => TypeOK BY DEF IInv, ListInv
<1> QED BY <1>1, Invariance, PTL

\* Whatever is opened and closed, the panes are numbered from 1 without gaps.
THEOREM ListCorrect == Spec => []NumbersDense
<1>1. IInv => NumbersDense BY DEF IInv, ListInv
<1> QED BY <1>1, Invariance, PTL

\* The manager's pointer and the flags of the panes agree on who has the focus, and it
\* is an open pane as soon as there is one, whichever search moved it.
THEOREM FocusAgrees == Spec => []FocusConsistent
<1>1. IInv => FocusConsistent BY DEF IInv, ListInv
<1> QED BY <1>1, Invariance, PTL

\* No descriptor is leaked, closed twice or shared, whatever the number of panes
\* and whenever children end.
THEOREM MastersOwned == Spec => []MasterOwnership
<1>1. IInv => MasterOwnership BY DEF IInv, ProcInv
<1> QED BY <1>1, Invariance, PTL

\* A pane lets go of its master and of its child together, whichever call does it.
THEOREM AttachedTogether == Spec => []Attached
<1>1. IInv => Attached BY DEF IInv, ProcInv
<1> QED BY <1>1, Invariance, PTL

\* No running child is forgotten.
THEOREM ChildrenOwned == Spec => []NoForgottenChild
<1>1. IInv => NoForgottenChild BY DEF IInv, ProcInv
<1> QED BY <1>1, Invariance, PTL

\* No signal of a pane can go astray, though the kernel uses process ids again.
THEOREM SignalsReachOwnChild == Spec => []SignalsOwnChild
<1>1. IInv => SignalsOwnChild BY DEF IInv, ProcInv
<1> QED BY <1>1, Invariance, PTL

-----------------------------------------------------------------------------
(* The pane manager implements the list of panes with a focus.             *)

order == [i \in 1..pane_count |-> panes[i]]

LEMMA OrderMembers == List!Members = Live
BY DEF List!Members, Live

LEMMA OrderInit == Init => List!Init
BY DEF Init, List!Init

LEMMA OrderCreate ==
  ASSUME ListInv, NEW p \in Pane, Create(p)
  PROVE  List!Open(p)
<1> USE MaxPanesAssumption
<1>1. p \in Pane \ List!Members BY OrderMembers DEF Create
<1>2. pane_count \in 0..(MaxPanes - 1) /\ pane_count' = pane_count + 1
      /\ panes' = [panes EXCEPT ![pane_count + 1] = p]
      /\ focused_pane' = IF pane_count = 0 THEN p ELSE focused_pane
  BY DEF Create, ListInv, TypeOK
<1>3. DOMAIN order = 1..pane_count BY DEF order
<1>4. order' = [i \in 1..(pane_count + 1) |-> IF i <= pane_count THEN order[i] ELSE p]
  BY <1>2 DEF order, ListInv, TypeOK, Slots
<1> QED BY <1>1, <1>2, <1>3, <1>4 DEF List!Open, order

LEMMA OrderRemove ==
  ASSUME ListInv, NEW p \in Pane, RemovePane(p)
  PROVE  \E k \in 1..MaxPanes : List!Close(k)
<1> USE MaxPanesAssumption
<1>1. PICK k \in 1..pane_count :
        panes[k] = p /\ Shift(k) /\ DropFocus(p, Heir(k))
  BY DEF RemovePane, Heir
<1>2. pane_count' = pane_count - 1 /\ pane_count \in 1..MaxPanes
      /\ \A i \in 1..(pane_count - 1) :
           panes'[i] = IF k <= i THEN panes[i + 1] ELSE panes[i]
  BY <1>1, ShiftLemma DEF ListInv, TypeOK
<1>3. order' = [i \in 1..(pane_count - 1) |->
                  IF i < k THEN order[i] ELSE order[i + 1]]
  BY <1>1, <1>2 DEF order
<1>4. focused_pane' = IF focused_pane # order[k] THEN focused_pane
                      ELSE IF pane_count = 1 THEN NoPane
                      ELSE IF k = 1 THEN order[2] ELSE order[1]
  BY <1>1, <1>2 DEF DropFocus, Heir, order
<1>5. DOMAIN order = 1..pane_count /\ k \in 1..MaxPanes
  BY <1>2 DEF order
<1> QED BY <1>2, <1>3, <1>4, <1>5 DEF List!Close, order

\* The array, the flags and the two ways of looking a pane up add up to a list in
\* the order of opening whose focus moves only when asked or when its holder goes.
THEOREM Implements == Spec => ImplementsList
<1>1. Init => List!Init
  BY OrderInit
<1>2. IInv /\ [Next]_vars => [List!Next]_<<order, focused_pane>>
  <2> SUFFICES ASSUME ListInv, [Next]_vars
               PROVE  [List!Next]_<<order, focused_pane>>
    BY DEF IInv
  <2>1. ASSUME NEW p \in Pane, AddPane(p) PROVE List!Next
    BY <2>1, OrderCreate DEF AddPane, List!Next
  <2>2. ASSUME NEW p \in Pane, RemovePane(p) PROVE List!Next
    BY <2>2, OrderRemove DEF List!Next
  <2>3. CASE FocusStep
    <3>1. PICK p \in Live : Focus(p) BY <2>3, FocusStepFocuses
    <3>2. focused_pane' = p /\ order' = order
      BY <3>1, FocusLemma DEF order, listVars
    <3>3. p \in List!Members /\ p \in Pane
      BY OrderMembers, LivePanes DEF ListInv
    <3> QED BY <3>2, <3>3 DEF List!Next, List!Select, order
  <2>4. CASE UNCHANGED listVars /\ UNCHANGED focusVars
    BY <2>4 DEF listVars, focusVars, order
  <2>5. ASSUME NEW p \in Pane, PtyClosed(p) \/ TerminateProcess(p)
        PROVE  UNCHANGED listVars /\ UNCHANGED focusVars
    BY <2>5 DEF PtyClosed, TerminateProcess
  <2>6. ASSUME NEW c \in Pid, ChildExits(c)
        PROVE  UNCHANGED listVars /\ UNCHANGED focusVars
    BY <2>6 DEF ChildExits
  <2>7. Tick \/ UNCHANGED vars => UNCHANGED listVars /\ UNCHANGED focusVars
    BY DEF Tick, vars
  <2> QED BY <2>1, <2>2, <2>3, <2>4, <2>5, <2>6, <2>7 DEF Next
<1> QED BY <1>1, <1>2, Invariance, PTL
          DEF Spec, ImplementsList, List!Spec, order
=============================================================================
