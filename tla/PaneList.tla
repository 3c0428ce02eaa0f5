------------------------------ MODULE PaneList ------------------------------
(***************************************************************************)
(* What the pane manager promises to the rest of the multiplexer: a list   *)
(* of panes in the order they were opened, and the focus.  The focus is on *)
(* one of the panes exactly when there is one, and it moves only when      *)
(* somebody asks for it or when the pane that holds it is closed.          *)
(***************************************************************************)
EXTENDS Integers

CONSTANTS Pane, MaxPanes, NoPane

VARIABLES
  order,   \* the panes, by position
  focused

Members == {order[i] : i \in DOMAIN order}

Init == order = <<>> /\ focused = NoPane

\* A new pane is the last; the first pane ever takes the focus.
Open(p) ==
  /\ p \in Pane \ Members
  /\ \E n \in 0..(MaxPanes - 1) :
       /\ DOMAIN order = 1..n
       /\ order' = [i \in 1..(n + 1) |-> IF i <= n THEN order[i] ELSE p]
       /\ focused' = IF n = 0 THEN p ELSE focused

\* The others keep their order.  Only the focused pane takes the focus with it,
\* and the first of the others has it then.
Close(k) ==
  \E n \in 1..MaxPanes :
    /\ DOMAIN order = 1..n
    /\ k \in 1..n
    /\ order' = [i \in 1..(n - 1) |-> IF i < k THEN order[i] ELSE order[i + 1]]
    /\ focused' = IF focused # order[k] THEN focused
                  ELSE IF n = 1 THEN NoPane
                  ELSE IF k = 1 THEN order[2] ELSE order[1]

Select(p) == p \in Members /\ focused' = p /\ UNCHANGED order

Next ==
  \/ \E p \in Pane : Open(p)
  \/ \E k \in 1..MaxPanes : Close(k)
  \/ \E p \in Pane : Select(p)

Spec == Init /\ [][Next]_<<order, focused>>
=============================================================================
