----------------------------- MODULE PaneLayout -----------------------------
(***************************************************************************)
(* Where the panes are on the screen (src/tui/tui_layout.c), and which of  *)
(* them the direction keys lead to (src/tui/mux/tui_mux_nav.c).  Panes are *)
(* known by their position in the manager's array; which addresses and     *)
(* flags stand behind it is the matter of PaneManager.  Every operation of *)
(* the multiplexer that opens, closes, focuses or arranges panes is an     *)
(* action; Workspace adds the ones that need the accounts of the panes.    *)
(***************************************************************************)
EXTENDS Integers, Sequences, SequencesExt

CONSTANTS
  MaxPanes,  \* max_panes of the manager
  Widths,    \* the sizes that the terminal may have when the
  Heights    \* multiplexer starts

ASSUME PanesAssumption == MaxPanes \in 1..9
\* app_tui_layout_create refuses a smaller terminal, and there is no multiplexer then.
ASSUME SizesAssumption ==
  /\ Widths  \subseteq Nat /\ \A w \in Widths  : w >= 20
  /\ Heights \subseteq Nat /\ \A h \in Heights : h >= 5

VARIABLES
  screen,    \* terminal_width and terminal_height of the layout manager
  mode,      \* its mode
  geometry,  \* the rectangle of each pane, by position
  focus,     \* the position of the focused pane, 0 if there is none
  wrap       \* config.wrap_navigation

layoutVars == <<screen, mode, geometry, focus, wrap>>

\* Vertical and horizontal splits fall back to the grid; no command sets "custom".
Modes == {"grid", "vsplit", "hsplit", "focus"}
Rect  == [x : Nat, y : Nat, width : Nat, height : Nat]
Positions == 1..Len(geometry)

-----------------------------------------------------------------------------
(* Arrangement.                                                            *)

Rows(n) == CASE n \in 1..2 -> 1 [] n \in 3..6 -> 2 [] n \in 7..9 -> 3
Cols(n) == CASE n = 1 -> 1 [] n \in 2..4 -> 2 [] n \in 5..9 -> 3

Usable(s) == s.height - 1     \* the status bar has the last line

\* The place of the i-th of n panes on screen s: row by row, the remainders in the last
\* row and the last column.
Cell(s, n, i) ==
  LET row    == (i - 1) \div Cols(n)
      col    == (i - 1) % Cols(n)
      width  == s.width \div Cols(n)
      height == Usable(s) \div Rows(n)
  IN [x      |-> col * width,
      y      |-> row * height,
      width  |-> width + IF col = Cols(n) - 1 THEN s.width % Cols(n) ELSE 0,
      height |-> height + IF row = Rows(n) - 1 THEN Usable(s) % Rows(n) ELSE 0]

Grid(s, n) == [i \in 1..n |-> Cell(s, n, i)]

Full      == [x |-> 0, y |-> 0, width |-> screen.width, height |-> Usable(screen)]
Temporary == [x |-> 0, y |-> 0, width |-> 80, height |-> 24]

\* app_tui_layout_calculate: without panes an error that no caller acts upon; in focus
\* mode only the focused pane is touched.
Arranged(m, g, f) ==
  IF g = <<>> THEN g
  ELSE IF m # "focus" THEN Grid(screen, Len(g))
  ELSE IF f = 0 THEN g
  ELSE [g EXCEPT ![f] = Full]

-----------------------------------------------------------------------------
(* Operations.                                                             *)

LayoutInit ==
  /\ screen \in [width : Widths, height : Heights]
  /\ mode = "grid"
  /\ geometry = <<>> /\ focus = 0
  /\ wrap = FALSE

\* Mutant: a new pane keeps its temporary rectangle.
AddPaneUnarranged ==
  /\ Len(geometry) < MaxPanes
  /\ focus' = IF geometry = <<>> THEN 1 ELSE focus
  /\ geometry' = Append(geometry, Temporary)
  /\ UNCHANGED <<screen, mode, wrap>>

AddPane ==
  /\ Len(geometry) < MaxPanes
  /\ focus' = IF geometry = <<>> THEN 1 ELSE focus
  /\ geometry' = Arranged(mode, Append(geometry, Temporary), focus')
  /\ UNCHANGED <<screen, mode, wrap>>

\* Mutant: the focus stays at the position of the closed pane.
FocusStays(k) == IF focus > k THEN focus - 1 ELSE focus

\* The pane closed at k takes the focus with it, and the first of the others has it then.
FocusAfter(k) ==
  CASE focus > k -> focus - 1
    [] focus < k -> focus
    [] focus = k -> IF Len(geometry) = 1 THEN 0 ELSE 1

\* Mutant: the other panes are not arranged again.
RemovePaneUnarranged(k) ==
  /\ k \in Positions
  /\ focus' = FocusAfter(k)
  /\ geometry' = RemoveAt(geometry, k)
  /\ UNCHANGED <<screen, mode, wrap>>

RemovePane(k) ==
  /\ k \in Positions
  /\ focus' = FocusAfter(k)
  /\ geometry' = Arranged(mode, RemoveAt(geometry, k), focus')
  /\ UNCHANGED <<screen, mode, wrap>>

\* By number, next, previous, last: any pane.  Nothing is arranged again.
FocusPane(k) ==
  /\ k \in Positions
  /\ focus' = k
  /\ UNCHANGED <<screen, mode, geometry, wrap>>

\* The mode is set even where the arrangement fails for want of panes.
SetLayout(m) ==
  /\ mode' = m
  /\ geometry' = Arranged(m, geometry, focus)
  /\ UNCHANGED <<screen, focus, wrap>>

\* SIGWINCH: the panes are arranged again with the size of the start.
Resize ==
  /\ geometry' = Arranged(mode, geometry, focus)
  /\ UNCHANGED <<screen, mode, focus, wrap>>

SetWrap(on) ==
  /\ wrap' = on
  /\ UNCHANGED <<screen, mode, geometry, focus>>

-----------------------------------------------------------------------------
(* The direction keys.  Distances are between centres, kept doubled to stay *)
(* with whole numbers.                                                      *)

CentreX(r) == 2 * r.x + r.width
CentreY(r) == 2 * r.y + r.height

Directions == {"left", "right", "up", "down"}
Opposite == [left |-> "right", right |-> "left", up |-> "down", down |-> "up"]

Lies(d, from, to) ==
  CASE d = "left"  -> CentreX(to) < CentreX(from)
    [] d = "right" -> CentreX(to) > CentreX(from)
    [] d = "up"    -> CentreY(to) < CentreY(from)
    [] d = "down"  -> CentreY(to) > CentreY(from)

Square(n) == n * n
Distance(r, s) == Square(CentreX(r) - CentreX(s)) + Square(CentreY(r) - CentreY(s))

\* The panes of geometry g in direction d of pane i.
Towards(g, d, i) == {k \in DOMAIN g \ {i} : Lies(d, g[i], g[k])}

\* Of the panes S the closest to i and the furthest; the first in the array of several.
Closest(g, i, S) ==
  CHOOSE k \in S : \A j \in S : \/ Distance(g[i], g[k]) < Distance(g[i], g[j])
                                \/ Distance(g[i], g[k]) = Distance(g[i], g[j]) /\ k <= j
Furthest(g, i, S) ==
  CHOOSE k \in S : \A j \in S : \/ Distance(g[i], g[k]) > Distance(g[i], g[j])
                                \/ Distance(g[i], g[k]) = Distance(g[i], g[j]) /\ k <= j

\* Where direction d leads from pane i, with or without wrap_navigation.
Neighbour(g, w, d, i) ==
  LET ahead  == Towards(g, d, i)
      behind == Towards(g, Opposite[d], i)
  IN  CASE ahead # {} -> Closest(g, i, ahead)
        [] ahead = {} /\ w /\ behind # {} -> Furthest(g, i, behind)
        [] OTHER -> i

FocusDirection(d) ==
  /\ focus # 0
  /\ focus' = Neighbour(geometry, wrap, d, focus)
  /\ UNCHANGED <<screen, mode, geometry, wrap>>

LayoutStep ==     \* the operations that leave the accounts of the panes alone
  \/ \E k \in Positions : FocusPane(k)
  \/ \E m \in Modes : SetLayout(m)
  \/ Resize
  \/ \E on \in BOOLEAN : SetWrap(on)
  \/ \E d \in Directions : FocusDirection(d)

-----------------------------------------------------------------------------
(* Properties.                                                             *)

Right(r)  == r.x + r.width
Bottom(r) == r.y + r.height

OnScreen(s, g) == \A i \in DOMAIN g : Right(g[i]) <= s.width /\ Bottom(g[i]) <= Usable(s)
NoOverlap(g) == \A i, j \in DOMAIN g : i < j => \/ Right(g[i])  <= g[j].x
                                                \/ Right(g[j])  <= g[i].x
                                                \/ Bottom(g[i]) <= g[j].y
                                                \/ Bottom(g[j]) <= g[i].y
Covers(r, x, y) == r.x <= x /\ x < Right(r) /\ r.y <= y /\ y < Bottom(r)
NoGap(s, g) == \A x \in 0..(s.width - 1), y \in 0..(Usable(s) - 1) :
                 LET last == g[Len(g)]
                 IN  (\E i \in DOMAIN g : Covers(g[i], x, y)) \/ (y >= last.y /\ x >= Right(last))
HasContent(s, g) == s.height >= 10 => \A i \in DOMAIN g : g[i].width > 2 /\ g[i].height > 2

Tiles(s, g) == OnScreen(s, g) /\ NoOverlap(g) /\ NoGap(s, g) /\ HasContent(s, g)

(***************************************************************************)
(* Except in focus mode, the panes tile the screen after every operation:  *)
(* no two share a cell, none reaches the status bar or the border, the     *)
(* only free place is right of the last pane, and on a screen of ten lines *)
(* each has room inside its border (with fewer lines, seven panes have     *)
(* none, and the size given to their PTYs is -1).                          *)
(***************************************************************************)
Tiled == mode # "focus" /\ geometry # <<>> => Tiles(screen, geometry)

\* The panes that one key more leads to, and those that at most n keys lead to.
OneKeyMore(g, w, B) == B \cup {Neighbour(g, w, d, k) : d \in Directions, k \in B}
ReachedWithin(g, w, i, n) ==
  LET within[m \in 0..n] == IF m = 0 THEN {i} ELSE OneKeyMore(g, w, within[m - 1])
  IN  within[n]

ReachesAll(g, w) == \A i \in DOMAIN g : ReachedWithin(g, w, i, Len(g)) = DOMAIN g

(***************************************************************************)
(* With the direction keys alone every pane of the grid can be reached     *)
(* from every other, whether or not the keys wrap around, also from a row  *)
(* that is not full and with the wider last column.                        *)
(***************************************************************************)
DirectionsReachAll == mode # "focus" => ReachesAll(geometry, wrap)
=============================================================================
