---------------------------- MODULE MCWorkspace ----------------------------
(* The grid of every number of panes, on screens with every kind of        *)
(* remainder, and an account name that JSON writes as it is.               *)
EXTENDS Workspace

MCAccount == {<<"x">>}

ASSUME GridTilesAssumption ==
  \A width \in {20, 22, 24}, height \in {5, 9, 10, 12}, n \in 1..9 :
    LET s == [width |-> width, height |-> height]
    IN  /\ Tiles(s, Grid(s, n))
        /\ \A w \in BOOLEAN : ReachesAll(Grid(s, n), w)
=============================================================================
