-------------------------- MODULE WorkspaceProofs --------------------------
(***************************************************************************)
(* The panes tile the terminal, and the direction keys lead from each to   *)
(* every other, for every size of it and every number of panes; and :load  *)
(* brings back what :save wrote, whatever the names and however many       *)
(* restarts between.                                                       *)
(***************************************************************************)
EXTENDS Workspace, JsonProofs

-----------------------------------------------------------------------------
(* The grid.                                                               *)

Screen == [width : {w \in Nat : w >= 20}, height : {h \in Nat : h >= 5}]

LEMMA ColsRows ==
  ASSUME NEW n \in 1..9
  PROVE  /\ Cols(n) \in 1..3 /\ Rows(n) \in 1..3
         /\ n <= Cols(n) * Rows(n) /\ Cols(n) * (Rows(n) - 1) < n
<1>1. CASE n = 1
  BY <1>1 DEF Cols, Rows
<1>2. CASE n = 2
  BY <1>2 DEF Cols, Rows
<1>3. CASE n \in 3..4
  <2>1. Cols(n) = 2 /\ Rows(n) = 2
    BY <1>3 DEF Cols, Rows
  <2>2. QED
    BY <1>3, <2>1
<1>4. CASE n \in 5..6
  <2>1. Cols(n) = 3 /\ Rows(n) = 2
    BY <1>4 DEF Cols, Rows
  <2>2. QED
    BY <1>4, <2>1
<1>5. CASE n \in 7..9
  <2>1. Cols(n) = 3 /\ Rows(n) = 3
    BY <1>5 DEF Cols, Rows
  <2>2. QED
    BY <1>5, <2>1
<1>6. QED
  BY <1>1, <1>2, <1>3, <1>4, <1>5

\* A length divided into at most three parts.
LEMMA Parts ==
  ASSUME NEW l \in Nat, NEW c \in 1..3
  PROVE  /\ l \div c \in Nat /\ l % c \in 0..c-1
         /\ l = c * (l \div c) + (l % c)
<1>1. CASE c = 1
  BY <1>1
<1>2. CASE c = 2
  BY <1>2
<1>3. CASE c = 3
  BY <1>3
<1>4. QED
  BY <1>1, <1>2, <1>3

\* The k-th of c parts of a length l, counted from 0; the last one has the remainder.
Begin(l, c, k) == k * (l \div c)
Size(l, c, k)  == (l \div c) + IF k = c - 1 THEN l % c ELSE 0
End(l, c, k)   == Begin(l, c, k) + Size(l, c, k)

LEMMA PartBounds ==
  ASSUME NEW l \in Nat, NEW c \in 1..3, NEW k \in 0..c-1
  PROVE  /\ Begin(l, c, k) \in Nat /\ Size(l, c, k) \in Nat
         /\ Size(l, c, k) >= l \div c
         /\ End(l, c, k) \in Nat /\ End(l, c, k) <= l
<1> DEFINE p == l \div c
           r == l % c
<1>1. p \in Nat /\ r \in 0..c-1 /\ l = c * p + r
  BY Parts
<1> HIDE DEF p, r
<1>2. CASE k = 0
  BY <1>1, <1>2 DEF Begin, Size, End, p, r
<1>3. CASE k = 1
  BY <1>1, <1>3 DEF Begin, Size, End, p, r
<1>4. CASE k = 2
  BY <1>1, <1>4 DEF Begin, Size, End, p, r
<1>5. QED
  BY <1>2, <1>3, <1>4

LEMMA PartsInOrder ==
  ASSUME NEW l \in Nat, NEW c \in 1..3, NEW j \in 0..c-1, NEW k \in 0..c-1, j < k
  PROVE  End(l, c, j) <= Begin(l, c, k)
<1>1. l \div c \in Nat
  BY Parts
<1>2. Size(l, c, j) = l \div c
  BY <1>1 DEF Size
<1>3. CASE j = 0 /\ k = 1
  BY <1>1, <1>2, <1>3 DEF Begin, End
<1>4. CASE j = 0 /\ k = 2
  BY <1>1, <1>2, <1>4 DEF Begin, End
<1>5. CASE j = 1 /\ k = 2
  BY <1>1, <1>2, <1>5 DEF Begin, End
<1>6. QED
  BY <1>3, <1>4, <1>5

\* Every point of the length is in one of the parts.
LEMMA PartsCover ==
  ASSUME NEW l \in Nat, NEW c \in 1..3, NEW x \in 0..l-1
  PROVE  \E k \in 0..c-1 : Begin(l, c, k) <= x /\ x < End(l, c, k)
<1> DEFINE p == l \div c
           r == l % c
<1>1. p \in Nat /\ r \in 0..c-1 /\ l = c * p + r
  BY Parts
<1> HIDE DEF p, r
<1>2. CASE c = 1
  <2>1. Begin(l, c, 0) = 0 /\ End(l, c, 0) = l
    BY <1>1, <1>2 DEF Begin, Size, End, p, r
  <2>2. QED
    BY <1>2, <2>1
<1>3. CASE c = 2
  <2>1. /\ Begin(l, c, 0) = 0 /\ End(l, c, 0) = p
        /\ Begin(l, c, 1) = p /\ End(l, c, 1) = l
    BY <1>1, <1>3 DEF Begin, Size, End, p, r
  <2>2. QED
    BY <1>1, <1>3, <2>1
<1>4. CASE c = 3
  <2>1. /\ Begin(l, c, 0) = 0 /\ End(l, c, 0) = p
        /\ Begin(l, c, 1) = p /\ End(l, c, 1) = p + p
        /\ Begin(l, c, 2) = p + p /\ End(l, c, 2) = l
    BY <1>1, <1>4 DEF Begin, Size, End, p, r
  <2>2. QED
    BY <1>1, <1>4, <2>1
<1>5. QED
  BY <1>2, <1>3, <1>4

Row(n, i) == (i - 1) \div Cols(n)
Col(n, i) == (i - 1) % Cols(n)

LEMMA Places ==
  ASSUME NEW n \in 1..9, NEW i \in 1..n
  PROVE  /\ Row(n, i) \in 0..Rows(n)-1 /\ Col(n, i) \in 0..Cols(n)-1
         /\ i - 1 = Cols(n) * Row(n, i) + Col(n, i)
<1> DEFINE c == Cols(n)
           r == Rows(n)
           row == Row(n, i)
           col == Col(n, i)
<1>1. /\ c \in 1..3 /\ r \in 1..3 /\ n <= c * r
  BY ColsRows
<1>2. row \in Nat /\ col \in 0..c-1 /\ i - 1 = c * row + col
  BY <1>1, Parts DEF Row, Col
<1> HIDE DEF c, r, row, col
<1>3. row < r
  <2>1. CASE c = 1
    BY <1>1, <1>2, <2>1
  <2>2. CASE c = 2
    BY <1>1, <1>2, <2>2
  <2>3. CASE c = 3
    BY <1>1, <1>2, <2>3
  <2>4. QED
    BY <1>1, <2>1, <2>2, <2>3
<1>4. QED
  BY <1>1, <1>2, <1>3 DEF c, r, row, col

\* Places in a table of c columns are counted row by row.
LEMMA TableOrder ==
  ASSUME NEW c \in 1..3, NEW a \in Nat, NEW b \in Nat,
         NEW x \in 0..c-1, NEW y \in 0..c-1
  PROVE  c * a + x < c * b + y <=> a < b \/ (a = b /\ x < y)
<1>1. CASE c = 1
  BY <1>1
<1>2. CASE c = 2
  BY <1>2
<1>3. CASE c = 3
  BY <1>3
<1>4. QED
  BY <1>1, <1>2, <1>3

LEMMA PlacesInOrder ==
  ASSUME NEW n \in 1..9, NEW i \in 1..n, NEW j \in 1..n, i < j
  PROVE  \/ Row(n, i) < Row(n, j)
         \/ Row(n, i) = Row(n, j) /\ Col(n, i) < Col(n, j)
<1>1. Cols(n) \in 1..3 /\ Rows(n) \in 1..3
  BY ColsRows
<1>2. /\ Row(n, i) \in 0..Rows(n)-1 /\ Col(n, i) \in 0..Cols(n)-1
      /\ i - 1 = Cols(n) * Row(n, i) + Col(n, i)
  BY Places
<1>3. /\ Row(n, j) \in 0..Rows(n)-1 /\ Col(n, j) \in 0..Cols(n)-1
      /\ j - 1 = Cols(n) * Row(n, j) + Col(n, j)
  BY Places
<1>4. i - 1 < j - 1
  OBVIOUS
<1>5. Cols(n) * Row(n, i) + Col(n, i) < Cols(n) * Row(n, j) + Col(n, j)
  BY <1>2, <1>3, <1>4
<1>6. QED
  BY <1>1, <1>2, <1>3, <1>5, TableOrder

\* Every place of the table is that of a pane, or after the last one in its row.
LEMMA PlaceOf ==
  ASSUME NEW n \in 1..9, NEW row \in 0..Rows(n)-1, NEW col \in 0..Cols(n)-1
  PROVE  \/ \E i \in 1..n : Row(n, i) = row /\ Col(n, i) = col
         \/ Row(n, n) = row /\ Col(n, n) < col
<1>1. /\ Cols(n) \in 1..3 /\ Rows(n) \in 1..3
      /\ Cols(n) * (Rows(n) - 1) < n
  BY ColsRows
<1>2. Cols(n) * row \in Nat /\ Cols(n) * (Rows(n) - 1) \in Nat
  BY <1>1
<1>3. CASE Cols(n) * row + col < n
  <2> DEFINE i == Cols(n) * row + col + 1
  <2>1. i \in 1..n /\ i - 1 = Cols(n) * row + col
    BY <1>1, <1>2, <1>3
  <2> HIDE DEF i
  <2>2. /\ Row(n, i) \in 0..Rows(n)-1 /\ Col(n, i) \in 0..Cols(n)-1
        /\ i - 1 = Cols(n) * Row(n, i) + Col(n, i)
    BY <2>1, Places
  <2>3. /\ ~(Cols(n) * Row(n, i) + Col(n, i) < Cols(n) * row + col)
        /\ ~(Cols(n) * row + col < Cols(n) * Row(n, i) + Col(n, i))
    BY <2>1, <2>2
  <2>4. /\ ~(Row(n, i) < row) /\ ~(row < Row(n, i))
        /\ Row(n, i) = row => ~(Col(n, i) < col) /\ ~(col < Col(n, i))
    BY <1>1, <2>2, <2>3, TableOrder
  <2>5. Row(n, i) = row /\ Col(n, i) = col
    BY <1>1, <2>2, <2>4
  <2>6. QED
    BY <2>1, <2>5
<1>4. CASE ~(Cols(n) * row + col < n)
  <2>1. /\ Row(n, n) \in 0..Rows(n)-1 /\ Col(n, n) \in 0..Cols(n)-1
        /\ n - 1 = Cols(n) * Row(n, n) + Col(n, n)
    BY Places
  <2>2. Cols(n) * Row(n, n) + Col(n, n) < Cols(n) * row + col
    BY <1>1, <1>2, <1>4, <2>1
  <2>3. ~(Cols(n) * Row(n, n) + Col(n, n) < Cols(n) * (Rows(n) - 1) + 0)
    BY <1>1, <1>2, <2>1
  <2>4. Row(n, n) < row \/ (Row(n, n) = row /\ Col(n, n) < col)
    <3>1. Row(n, n) \in Nat /\ row \in Nat
      BY <1>1, <2>1
    <3>2. QED
      BY <1>1, <2>1, <2>2, <3>1, TableOrder
  <2>5. ~(Row(n, n) < Rows(n) - 1)
    BY <1>1, <2>1, <2>3, TableOrder
  <2>6. QED
    BY <1>1, <2>1, <2>4, <2>5
<1>5. QED
  BY <1>3, <1>4

\* A rectangle of the grid is a part of the width and a part of the usable height.
LEMMA CellParts ==
  ASSUME NEW s \in Screen, NEW n \in 1..9, NEW i \in 1..n
  PROVE  LET r == Grid(s, n)[i]
         IN  /\ r.x = Begin(s.width, Cols(n), Col(n, i))
             /\ r.width = Size(s.width, Cols(n), Col(n, i))
             /\ Right(r) = End(s.width, Cols(n), Col(n, i))
             /\ r.y = Begin(Usable(s), Rows(n), Row(n, i))
             /\ r.height = Size(Usable(s), Rows(n), Row(n, i))
             /\ Bottom(r) = End(Usable(s), Rows(n), Row(n, i))
             /\ r = [x |-> r.x, y |-> r.y, width |-> r.width, height |-> r.height]
<1>1. Grid(s, n)[i] = Cell(s, n, i)
  BY DEF Grid
<1>2. QED
  BY <1>1 DEF Cell, Begin, Size, End, Row, Col, Right, Bottom

LEMMA GridRects ==
  ASSUME NEW s \in Screen, NEW n \in 0..9
  PROVE  Grid(s, n) \in Seq(Rect) /\ Len(Grid(s, n)) = n
<1>1. s.width \in Nat /\ Usable(s) \in Nat
  BY DEF Screen, Usable
<1>2. ASSUME NEW i \in 1..n
      PROVE  Grid(s, n)[i] \in Rect
  <2>1. n \in 1..9
    OBVIOUS
  <2>2. Col(n, i) \in 0..Cols(n)-1 /\ Row(n, i) \in 0..Rows(n)-1
    BY <2>1, Places
  <2>3. Cols(n) \in 1..3 /\ Rows(n) \in 1..3
    BY <2>1, ColsRows
  <2>4. /\ Begin(s.width, Cols(n), Col(n, i)) \in Nat
        /\ Size(s.width, Cols(n), Col(n, i)) \in Nat
        /\ Begin(Usable(s), Rows(n), Row(n, i)) \in Nat
        /\ Size(Usable(s), Rows(n), Row(n, i)) \in Nat
    BY <1>1, <2>2, <2>3, PartBounds
  <2>5. /\ Grid(s, n)[i].x \in Nat /\ Grid(s, n)[i].y \in Nat
        /\ Grid(s, n)[i].width \in Nat /\ Grid(s, n)[i].height \in Nat
    BY <2>1, <2>4, CellParts
  <2>6. Grid(s, n)[i] = Cell(s, n, i)
    BY DEF Grid
  <2>7. QED
    BY <2>5, <2>6 DEF Cell, Rect
<1>3. Grid(s, n) \in [1..n -> Rect]
  BY <1>2 DEF Grid
<1>4. QED
  BY <1>3

(***************************************************************************)
(* The grid tiles every screen that the multiplexer starts on, for every   *)
(* number of panes.                                                        *)
(***************************************************************************)
THEOREM GridTiles ==
  ASSUME NEW s \in Screen, NEW n \in 1..9
  PROVE  Tiles(s, Grid(s, n))
<1> DEFINE g == Grid(s, n)
           c == Cols(n)
           r == Rows(n)
           u == Usable(s)
<1>1. s.width \in Nat /\ u \in Nat /\ c \in 1..3 /\ r \in 1..3
  BY ColsRows DEF Screen, Usable
<1>2. DOMAIN g = 1..n /\ Len(g) = n
  BY GridRects DEF Grid
<1>3. ASSUME NEW i \in 1..n
      PROVE  /\ g[i].x = Begin(s.width, c, Col(n, i))
             /\ g[i].width = Size(s.width, c, Col(n, i))
             /\ Right(g[i]) = End(s.width, c, Col(n, i))
             /\ g[i].y = Begin(u, r, Row(n, i))
             /\ g[i].height = Size(u, r, Row(n, i))
             /\ Bottom(g[i]) = End(u, r, Row(n, i))
             /\ Col(n, i) \in 0..c-1 /\ Row(n, i) \in 0..r-1
  BY CellParts, Places
<1> HIDE DEF g, c, r, u
<1>4. OnScreen(s, g)
  <2>1. ASSUME NEW i \in 1..n
        PROVE  Right(g[i]) <= s.width /\ Bottom(g[i]) <= u
    BY <1>1, <1>3, PartBounds
  <2>2. QED
    BY <1>2, <2>1 DEF OnScreen, u
<1>5. NoOverlap(g)
  <2>1. ASSUME NEW i \in 1..n, NEW j \in 1..n, i < j
        PROVE  \/ Right(g[i]) <= g[j].x \/ Right(g[j]) <= g[i].x
               \/ Bottom(g[i]) <= g[j].y
    <3>1. CASE Row(n, i) < Row(n, j)
      BY <1>1, <1>3, <3>1, PartsInOrder
    <3>2. CASE Col(n, i) < Col(n, j)
      BY <1>1, <1>3, <3>2, PartsInOrder
    <3>3. QED
      BY <2>1, <3>1, <3>2, PlacesInOrder
  <2>2. QED
    BY <1>2, <2>1 DEF NoOverlap
<1>6. NoGap(s, g)
  <2>1. ASSUME NEW x \in 0..s.width-1, NEW y \in 0..u-1
        PROVE  \/ \E i \in 1..n : Covers(g[i], x, y)
               \/ y >= g[n].y /\ x >= Right(g[n])
    <3>1. PICK col \in 0..c-1 : /\ Begin(s.width, c, col) <= x
                                /\ x < End(s.width, c, col)
      BY <1>1, PartsCover
    <3>2. PICK row \in 0..r-1 : Begin(u, r, row) <= y /\ y < End(u, r, row)
      BY <1>1, PartsCover
    <3>3. CASE \E i \in 1..n : Row(n, i) = row /\ Col(n, i) = col
      BY <1>3, <3>1, <3>2, <3>3 DEF Covers
    <3>4. CASE Row(n, n) = row /\ Col(n, n) < col
      <4>1. n \in 1..n
        OBVIOUS
      <4>2. Right(g[n]) <= Begin(s.width, c, col)
        BY <1>1, <1>3, <3>4, <4>1, PartsInOrder
      <4>3. g[n].y = Begin(u, r, row) /\ Right(g[n]) = End(s.width, c, Col(n, n))
        BY <1>3, <3>4, <4>1
      <4>4. Begin(u, r, row) \in Nat /\ Begin(s.width, c, col) \in Nat
        BY <1>1, PartBounds
      <4>5. Col(n, n) \in 0..c-1
        BY <1>3, <4>1
      <4>6. End(s.width, c, Col(n, n)) \in Nat
        BY <1>1, <4>5, PartBounds
      <4>7. QED
        BY <3>1, <3>2, <4>2, <4>3, <4>4, <4>6
    <3>5. QED
      BY <3>3, <3>4, PlaceOf DEF c, r
  <2>2. QED
    BY <1>2, <2>1 DEF NoGap, u
<1>7. HasContent(s, g)
  <2>1. ASSUME s.height >= 10, NEW i \in 1..n
        PROVE  g[i].width > 2 /\ g[i].height > 2
    <3>1. s.width >= 20 /\ u >= 9
      BY <2>1 DEF Screen, Usable, u
    <3>2. s.width \div c \in Nat /\ s.width \div c > 2
      BY <1>1, <3>1, Parts
    <3>3. u \div r \in Nat /\ u \div r > 2
      BY <1>1, <3>1, Parts
    <3>4. /\ g[i].width \in Nat /\ g[i].width >= s.width \div c
          /\ g[i].height \in Nat /\ g[i].height >= u \div r
      BY <1>1, <1>3, PartBounds
    <3>5. QED
      BY <3>2, <3>3, <3>4
  <2>2. QED
    BY <1>2, <2>1 DEF HasContent
<1>8. QED
  BY <1>4, <1>5, <1>6, <1>7 DEF Tiles, g

-----------------------------------------------------------------------------
(* Sequences, whatever their elements.                                     *)

IsList(s) == s \in Seq({s[i] : i \in DOMAIN s})

LEMMA FunctionIsList ==
  ASSUME NEW n \in Nat, NEW f, f = [i \in 1..n |-> f[i]]
  PROVE  IsList(f) /\ Len(f) = n
<1> DEFINE S == {f[i] : i \in DOMAIN f}
<1>1. DOMAIN f = 1..n
  OBVIOUS
<1>2. f \in [1..n -> S]
  BY <1>1
<1>3. QED
  BY <1>2 DEF IsList

LEMMA ListIsFunction ==
  ASSUME NEW s, IsList(s)
  PROVE  Len(s) \in Nat /\ DOMAIN s = 1..Len(s) /\ s = [i \in 1..Len(s) |-> s[i]]
BY LenProperties DEF IsList

LEMMA AppendList ==
  ASSUME NEW s, IsList(s), NEW e
  PROVE  IsList(Append(s, e)) /\ Len(Append(s, e)) = Len(s) + 1
<1> DEFINE S == {s[i] : i \in DOMAIN s} \cup {e}
<1>1. s \in Seq(S)
  BY SeqMonotonic DEF IsList
<1>2. Append(s, e) \in Seq(S) /\ Len(Append(s, e)) = Len(s) + 1
  BY <1>1, AppendProperties
<1>3. Len(Append(s, e)) \in Nat /\ Append(s, e) = [i \in 1..Len(Append(s, e)) |-> Append(s, e)[i]]
  BY <1>2, LenProperties
<1>4. QED
  BY <1>2, <1>3, FunctionIsList

LEMMA SubSeqList ==
  ASSUME NEW s, IsList(s), NEW n \in 0..Len(s)
  PROVE  IsList(SubSeq(s, 1, n)) /\ Len(SubSeq(s, 1, n)) = n
<1> DEFINE S == {s[i] : i \in DOMAIN s}
           t == SubSeq(s, 1, n)
<1>1. \A i \in 1..n : s[i] \in S
  BY ListIsFunction
<1>2. t \in Seq(S) /\ Len(t) = n
  BY <1>1, SubSeqProperties, ListIsFunction
<1>3. t = [i \in 1..n |-> t[i]]
  BY <1>2, LenProperties
<1>4. n \in Nat
  BY ListIsFunction
<1> HIDE DEF t
<1>5. IsList(t)
  BY <1>3, <1>4, FunctionIsList
<1>6. QED
  BY <1>2, <1>5 DEF t

LEMMA RemoveAtSeq ==
  ASSUME NEW S, NEW s \in Seq(S), NEW k \in 1..Len(s)
  PROVE  RemoveAt(s, k) \in Seq(S) /\ Len(RemoveAt(s, k)) = Len(s) - 1
<1>1. Len(s) \in Nat /\ \A i \in 1..Len(s) : s[i] \in S
  BY LenProperties
<1>2. SubSeq(s, 1, k - 1) \in Seq(S) /\ Len(SubSeq(s, 1, k - 1)) = k - 1
  BY <1>1, SubSeqProperties
<1>3. /\ SubSeq(s, k + 1, Len(s)) \in Seq(S)
      /\ Len(SubSeq(s, k + 1, Len(s))) = Len(s) - k
  BY <1>1, SubSeqProperties
<1> DEFINE a == SubSeq(s, 1, k - 1)
           b == SubSeq(s, k + 1, Len(s))
<1>4. RemoveAt(s, k) = a \o b
  BY DEF RemoveAt
<1> HIDE DEF a, b
<1>5. a \o b \in Seq(S) /\ Len(a \o b) = Len(a) + Len(b)
  BY <1>2, <1>3, ConcatProperties DEF a, b
<1>6. Len(a) = k - 1 /\ Len(b) = Len(s) - k
  BY <1>2, <1>3 DEF a, b
<1>7. QED
  BY <1>1, <1>4, <1>5, <1>6

LEMMA RemoveAtList ==
  ASSUME NEW s, IsList(s), NEW k \in 1..Len(s)
  PROVE  IsList(RemoveAt(s, k)) /\ Len(RemoveAt(s, k)) = Len(s) - 1
<1> DEFINE t == RemoveAt(s, k)
           S == {s[i] : i \in DOMAIN s}
<1>1. t \in Seq(S) /\ Len(t) = Len(s) - 1
  BY RemoveAtSeq DEF IsList
<1>2. Len(t) \in Nat /\ t = [i \in 1..Len(t) |-> t[i]]
  <2>1. Len(t) \in Nat /\ t \in [1..Len(t) -> S]
    BY <1>1, LenProperties
  <2>2. QED
    BY <2>1
<1> HIDE DEF t
<1>3. IsList(t)
  BY <1>2, FunctionIsList
<1>4. QED
  BY <1>1, <1>3 DEF t

-----------------------------------------------------------------------------
(* The panes.                                                              *)

PanesOK ==
  /\ screen \in [width : Widths, height : Heights]
  /\ mode \in Modes /\ wrap \in BOOLEAN
  /\ geometry \in Seq(Rect) /\ Len(geometry) <= MaxPanes
  /\ focus \in 0..Len(geometry) /\ (focus = 0 <=> geometry = <<>>)

\* Outside focus mode the rectangles are those of the grid, always.
InGrid == mode # "focus" => geometry = Grid(screen, Len(geometry))

LInv == PanesOK /\ InGrid

LEMMA AtMostNine ==
  ASSUME NEW n \in Nat, n <= MaxPanes
  PROVE  n \in 0..9
BY PanesAssumption

LEMMA ScreenSizes ==
  ASSUME NEW s \in [width : Widths, height : Heights]
  PROVE  s \in Screen
BY SizesAssumption DEF Screen

\* What an arrangement returns, and that outside focus mode it is the grid.
LEMMA ArrangedOK ==
  ASSUME screen \in [width : Widths, height : Heights],
         NEW m \in Modes, NEW g \in Seq(Rect), Len(g) <= MaxPanes,
         NEW f \in 0..Len(g)
  PROVE  /\ Arranged(m, g, f) \in Seq(Rect)
         /\ Len(Arranged(m, g, f)) = Len(g)
         /\ m # "focus" => Arranged(m, g, f) = Grid(screen, Len(g))
<1>1. Len(g) \in 0..9 /\ screen \in Screen
  <2>1. Len(g) \in Nat /\ Len(g) <= MaxPanes
    BY LenProperties
  <2>2. screen \in Screen
    BY ScreenSizes
  <2>3. Len(g) \in 0..9
    BY <2>1, AtMostNine
  <2>4. QED
    BY <2>2, <2>3
<1>2. Grid(screen, Len(g)) \in Seq(Rect) /\ Len(Grid(screen, Len(g))) = Len(g)
  BY <1>1, GridRects
<1>3. CASE g = <<>>
  <2>1. Len(g) = 0 /\ Len(Grid(screen, Len(g))) = 0
    BY <1>2, <1>3, EmptySeq
  <2>2. Grid(screen, Len(g)) = <<>>
    BY <1>2, <2>1, EmptySeq
  <2>3. QED
    BY <1>3, <2>2 DEF Arranged
<1>4. CASE g # <<>> /\ m # "focus"
  BY <1>2, <1>4 DEF Arranged
<1>5. CASE g # <<>> /\ m = "focus" /\ f = 0
  BY <1>5 DEF Arranged
<1>6. CASE g # <<>> /\ m = "focus" /\ f # 0
  <2>1. Full \in Rect
    BY <1>1 DEF Full, Rect, Screen, Usable
  <2>2. f \in 1..Len(g)
    BY <1>1, <1>6
  <2>3. [g EXCEPT ![f] = Full] \in Seq(Rect) /\ Len([g EXCEPT ![f] = Full]) = Len(g)
    BY <2>1, <2>2, ExceptSeq
  <2>4. QED
    BY <1>6, <2>3 DEF Arranged
<1>7. QED
  BY <1>3, <1>4, <1>5, <1>6

LEMMA TemporaryRect == Temporary \in Rect
BY DEF Temporary, Rect

LEMMA AddPaneKeeps ==
  ASSUME LInv, AddPane
  PROVE  LInv' /\ Len(geometry') = Len(geometry) + 1
<1> USE DEF LInv, PanesOK
<1> DEFINE g == Append(geometry, Temporary)
<1>1. /\ g \in Seq(Rect) /\ Len(g) = Len(geometry) + 1 /\ Len(geometry) \in Nat
      /\ g # <<>>
  BY TemporaryRect, AppendProperties, LenProperties
<1>2. Len(g) <= MaxPanes /\ Len(g) \in 1..MaxPanes
  BY <1>1, PanesAssumption DEF AddPane
<1>3. focus' \in 1..Len(g)
  BY <1>1 DEF AddPane
<1>4. geometry' = Arranged(mode, g, focus')
  BY DEF AddPane
<1> HIDE DEF g
<1>5. /\ geometry' \in Seq(Rect) /\ Len(geometry') = Len(g)
      /\ mode # "focus" => geometry' = Grid(screen, Len(g))
  BY <1>1, <1>2, <1>3, <1>4, ArrangedOK
<1>6. geometry' # <<>>
  BY <1>2, <1>5, EmptySeq
<1>7. QED
  BY <1>1, <1>2, <1>3, <1>5, <1>6 DEF AddPane, InGrid

LEMMA RemovePaneKeeps ==
  ASSUME LInv, NEW k \in Positions, RemovePane(k)
  PROVE  LInv' /\ Len(geometry') = Len(geometry) - 1
<1> USE DEF LInv, PanesOK
<1> DEFINE g == RemoveAt(geometry, k)
<1>1. g \in Seq(Rect) /\ Len(g) = Len(geometry) - 1 /\ Len(geometry) \in Nat \ {0}
  BY RemoveAtSeq, LenProperties DEF Positions
<1>2. Len(g) <= MaxPanes /\ Len(g) \in 0..MaxPanes
  BY <1>1, PanesAssumption
<1>3. focus' \in 0..Len(g) /\ (focus' = 0 <=> Len(g) = 0)
  <2>1. focus' = FocusAfter(k) /\ focus \in 1..Len(geometry) /\ k \in 1..Len(geometry)
    BY <1>1, EmptySeq DEF RemovePane, Positions
  <2> HIDE DEF g
  <2>2. CASE focus > k
    BY <1>1, <2>1, <2>2 DEF FocusAfter
  <2>3. CASE focus < k
    BY <1>1, <2>1, <2>3 DEF FocusAfter
  <2>4. CASE focus = k
    BY <1>1, <2>1, <2>4 DEF FocusAfter
  <2>5. QED
    BY <2>1, <2>2, <2>3, <2>4
<1>4. geometry' = Arranged(mode, g, focus')
  BY DEF RemovePane
<1> HIDE DEF g
<1>5. /\ geometry' \in Seq(Rect) /\ Len(geometry') = Len(g)
      /\ mode # "focus" => geometry' = Grid(screen, Len(g))
  BY <1>1, <1>2, <1>3, <1>4, ArrangedOK
<1>6. geometry' = <<>> <=> Len(g) = 0
  BY <1>5, EmptySeq
<1>7. QED
  BY <1>1, <1>2, <1>3, <1>5, <1>6 DEF RemovePane, InGrid

\* Of some of n values, one is the least, and the first of several.
HasFirst(n) ==
  \A S \in SUBSET (1..n), v \in [1..n -> Int] :
    S # {} => \E k \in S : \A j \in S : v[k] < v[j] \/ (v[k] = v[j] /\ k <= j)

LEMMA FirstOfMore ==
  ASSUME NEW n \in Nat, HasFirst(n)
  PROVE  HasFirst(n + 1)
<1> SUFFICES ASSUME NEW S \in SUBSET (1..(n + 1)), NEW v \in [1..(n + 1) -> Int],
                    S # {}
             PROVE  \E k \in S : \A j \in S : v[k] < v[j] \/ (v[k] = v[j] /\ k <= j)
  BY DEF HasFirst
<1> DEFINE T == S \ {n + 1}
           w == [i \in 1..n |-> v[i]]
<1>1. T \in SUBSET (1..n) /\ w \in [1..n -> Int]
  OBVIOUS
<1>2. CASE T = {}
  <2>1. n + 1 \in S /\ \A j \in S : j = n + 1
    BY <1>2
  <2>2. QED
    BY <2>1
<1>3. CASE T # {}
  <2>1. PICK k \in T : \A j \in T : w[k] < w[j] \/ (w[k] = w[j] /\ k <= j)
    BY <1>1, <1>3 DEF HasFirst
  <2>2. \A j \in T : v[k] < v[j] \/ (v[k] = v[j] /\ k <= j)
    BY <1>1, <2>1
  <2>3. k \in 1..n /\ k \in S /\ \A j \in S : j = n + 1 \/ j \in T
    BY <1>1
  <2>4. CASE n + 1 \in S /\ v[n + 1] < v[k]
    <3>1. \A j \in S : v[n + 1] < v[j] \/ (v[n + 1] = v[j] /\ n + 1 <= j)
      BY <2>2, <2>3, <2>4
    <3>2. QED
      BY <2>4, <3>1
  <2>5. CASE n + 1 \in S /\ ~(v[n + 1] < v[k])
    <3>1. v[k] \in Int /\ v[n + 1] \in Int /\ k <= n + 1
      BY <2>3
    <3>2. v[k] < v[n + 1] \/ (v[k] = v[n + 1] /\ k <= n + 1)
      BY <2>5, <3>1
    <3>3. QED
      BY <2>2, <2>3, <3>2
  <2>6. CASE n + 1 \notin S
    BY <2>2, <2>3, <2>6
  <2>7. QED
    BY <2>4, <2>5, <2>6
<1>4. QED
  BY <1>2, <1>3

LEMMA FirstOfPanes == \A n \in 0..9 : HasFirst(n)
<1>0. HasFirst(0)
  <2>1. 1..0 = {}
    OBVIOUS
  <2>2. QED
    BY <2>1 DEF HasFirst
<1>1. HasFirst(1)
  BY <1>0, FirstOfMore
<1>2. HasFirst(2)
  BY <1>1, FirstOfMore
<1>3. HasFirst(3)
  BY <1>2, FirstOfMore
<1>4. HasFirst(4)
  BY <1>3, FirstOfMore
<1>5. HasFirst(5)
  BY <1>4, FirstOfMore
<1>6. HasFirst(6)
  BY <1>5, FirstOfMore
<1>7. HasFirst(7)
  BY <1>6, FirstOfMore
<1>8. HasFirst(8)
  BY <1>7, FirstOfMore
<1>9. HasFirst(9)
  BY <1>8, FirstOfMore
<1>10. QED
  BY <1>0, <1>1, <1>2, <1>3, <1>4, <1>5, <1>6, <1>7, <1>8, <1>9

LEMMA DistanceInt ==
  ASSUME NEW r \in Rect, NEW s \in Rect
  PROVE  Distance(r, s) \in Int
<1>1. CentreX(r) \in Int /\ CentreX(s) \in Int /\ CentreY(r) \in Int /\ CentreY(s) \in Int
  BY DEF CentreX, CentreY, Rect
<1>2. QED
  BY <1>1 DEF Distance, Square

\* A direction key leads to a pane.
LEMMA NeighbourIsPane ==
  ASSUME NEW g \in Seq(Rect), Len(g) \in 1..9, NEW w \in BOOLEAN,
         NEW d \in Directions, NEW i \in 1..Len(g)
  PROVE  Neighbour(g, w, d, i) \in 1..Len(g)
<1> DEFINE n == Len(g)
           v == [k \in 1..n |-> Distance(g[i], g[k])]
           u == [k \in 1..n |-> 0 - Distance(g[i], g[k])]
<1>1. HasFirst(n) /\ DOMAIN g = 1..n
  <2>1. Len(g) \in 0..9
    OBVIOUS
  <2>2. HasFirst(n)
    BY <2>1, FirstOfPanes
  <2>3. QED
    BY <2>2, LenProperties
<1>2. \A k \in 1..n : g[k] \in Rect
  BY ElementOfSeq
<1>3. \A k \in 1..n : Distance(g[i], g[k]) \in Int
  BY <1>2, DistanceInt
<1>4. v \in [1..n -> Int] /\ u \in [1..n -> Int]
  BY <1>3
<1>5. ASSUME NEW S \in SUBSET (1..n), S # {}
      PROVE  Closest(g, i, S) \in S /\ Furthest(g, i, S) \in S
  <2>1. \E k \in S : \A j \in S : v[k] < v[j] \/ (v[k] = v[j] /\ k <= j)
    BY <1>1, <1>4, <1>5 DEF HasFirst
  <2>2. \E k \in S : \A j \in S : u[k] < u[j] \/ (u[k] = u[j] /\ k <= j)
    BY <1>1, <1>4, <1>5 DEF HasFirst
  <2>3. \E k \in S : \A j \in S : \/ Distance(g[i], g[k]) < Distance(g[i], g[j])
                                  \/ Distance(g[i], g[k]) = Distance(g[i], g[j]) /\ k <= j
    BY <2>1
  <2>4. \E k \in S : \A j \in S : \/ Distance(g[i], g[k]) > Distance(g[i], g[j])
                                  \/ Distance(g[i], g[k]) = Distance(g[i], g[j]) /\ k <= j
    <3>1. \A k \in S, j \in S :
            /\ u[k] < u[j] => Distance(g[i], g[k]) > Distance(g[i], g[j])
            /\ u[k] = u[j] => Distance(g[i], g[k]) = Distance(g[i], g[j])
      BY <1>3
    <3> HIDE DEF u
    <3>2. QED
      BY <2>2, <3>1
  <2>5. QED
    BY <2>3, <2>4 DEF Closest, Furthest
<1>6. \A e \in Directions : Towards(g, e, i) \in SUBSET (1..n)
  BY <1>1 DEF Towards
<1>7. Opposite[d] \in Directions
  BY DEF Directions, Opposite
<1>8. QED
  BY <1>5, <1>6, <1>7 DEF Neighbour

LEMMA LayoutStepKeeps ==
  ASSUME LInv, LayoutStep
  PROVE  LInv' /\ Len(geometry') = Len(geometry)
<1> USE DEF LInv, PanesOK
<1>1. ASSUME NEW k \in Positions, FocusPane(k)
      PROVE  LInv' /\ Len(geometry') = Len(geometry)
  <2>1. k \in 1..Len(geometry) /\ Len(geometry) \in Nat
    BY LenProperties DEF Positions
  <2>2. geometry # <<>>
    BY <2>1, EmptySeq
  <2>3. QED
    BY <1>1, <2>1, <2>2 DEF FocusPane, InGrid
<1>2. ASSUME NEW m \in Modes,
             mode' = m, geometry' = Arranged(m, geometry, focus),
             UNCHANGED <<screen, focus, wrap>>
      PROVE  LInv' /\ Len(geometry') = Len(geometry)
  <2>1. /\ geometry' \in Seq(Rect) /\ Len(geometry') = Len(geometry)
        /\ m # "focus" => geometry' = Grid(screen, Len(geometry))
    BY <1>2, ArrangedOK
  <2>2. geometry' = <<>> <=> geometry = <<>>
    BY <2>1, EmptySeq
  <2>3. QED
    BY <1>2, <2>1, <2>2 DEF InGrid
<1>3. ASSUME NEW m \in Modes, SetLayout(m)
      PROVE  LInv' /\ Len(geometry') = Len(geometry)
  BY <1>2, <1>3 DEF SetLayout
<1>4. CASE Resize
  BY <1>2, <1>4 DEF Resize
<1>5. ASSUME NEW on \in BOOLEAN, SetWrap(on)
      PROVE  LInv' /\ Len(geometry') = Len(geometry)
  BY <1>5 DEF SetWrap, InGrid
<1>6. ASSUME NEW d \in Directions, FocusDirection(d)
      PROVE  LInv' /\ Len(geometry') = Len(geometry)
  <2>1. focus \in 1..Len(geometry) /\ DOMAIN geometry = 1..Len(geometry)
    BY <1>6, LenProperties DEF FocusDirection
  <2>2. Neighbour(geometry, wrap, d, focus) \in 1..Len(geometry)
    <3>1. Len(geometry) \in Nat /\ Len(geometry) <= MaxPanes
      BY LenProperties
    <3>2. Len(geometry) \in 0..9
      BY <3>1, AtMostNine
    <3>3. Len(geometry) # 0
      BY <2>1
    <3>4. Len(geometry) \in 1..9
      BY <3>2, <3>3
    <3>5. QED
      BY <2>1, <3>4, NeighbourIsPane
  <2>3. focus' \in 1..Len(geometry) /\ geometry # <<>>
    BY <1>6, <2>1, <2>2 DEF FocusDirection
  <2>4. QED
    BY <1>6, <2>3 DEF FocusDirection, InGrid
<1>7. QED
  BY <1>1, <1>3, <1>4, <1>5, <1>6 DEF LayoutStep

-----------------------------------------------------------------------------
(* The panes with their accounts and the file.                             *)

AccountsOK == IsList(accounts) /\ Len(accounts) = Len(geometry)
FileOK == file.state = "whole" => file.content.mode \in Modes /\ IsList(file.content.names)

WInv == LInv /\ AccountsOK /\ FileOK

LEMMA NothingIsList == IsList(<<>>) /\ Len(<<>>) = 0
<1>1. <<>> = [i \in 1..0 |-> <<>>[i]]
  OBVIOUS
<1>2. QED
  BY <1>1, FunctionIsList

LEMMA WorkspaceInitOK == WorkspaceInit => WInv
<1> SUFFICES ASSUME WorkspaceInit PROVE WInv
  OBVIOUS
<1>1. geometry = <<>> /\ Len(geometry) = 0 /\ geometry \in Seq(Rect)
  BY EmptySeq DEF WorkspaceInit, LayoutInit
<1>2. Grid(screen, 0) = <<>>
  BY EmptySeq DEF Grid
<1>3. LInv
  <2>1. 0 <= MaxPanes /\ 0 \in 0..0
    BY PanesAssumption
  <2>2. PanesOK
    BY <1>1, <2>1 DEF WorkspaceInit, LayoutInit, PanesOK, Modes
  <2>3. InGrid
    BY <1>1, <1>2 DEF InGrid
  <2>4. QED
    BY <2>2, <2>3 DEF LInv
<1>4. AccountsOK
  BY <1>1, NothingIsList DEF WorkspaceInit, AccountsOK
<1>5. FileOK
  BY NothingIsList
     DEF WorkspaceInit, FileOK, Missing, Whole, NoDocument, Document, Modes
<1>6. QED
  BY <1>3, <1>4, <1>5 DEF WInv

LEMMA SaveKeeps == WInv /\ Save => WInv'
<1> SUFFICES ASSUME WInv, Save PROVE WInv'
  OBVIOUS
<1>1. LInv' /\ AccountsOK'
  BY DEF WInv, LInv, PanesOK, InGrid, AccountsOK, Save, layoutVars
<1>2. IsList(Names)
  <2>1. Len(geometry) \in Nat
    BY LenProperties DEF WInv, LInv, PanesOK
  <2>2. Names = [k \in 1..Len(geometry) |-> Names[k]]
    BY DEF Names, Positions
  <2>3. QED
    BY <2>1, <2>2, FunctionIsList
<1>3. FileOK'
  BY <1>2 DEF WInv, LInv, PanesOK, Save, FileOK, Whole, Document
<1>4. QED
  BY <1>1, <1>3 DEF WInv

LEMMA RestartKeeps == WInv /\ Restart => WInv'
<1> SUFFICES ASSUME WInv, Restart PROVE WInv'
  OBVIOUS
<1>1. geometry' = <<>> /\ Len(geometry') = 0 /\ geometry' \in Seq(Rect)
  BY EmptySeq DEF Restart
<1>2. Grid(screen', 0) = <<>>
  BY EmptySeq DEF Grid
<1>3. LInv'
  <2>1. 0 <= MaxPanes /\ 0 \in 0..0
    BY PanesAssumption
  <2>2. PanesOK'
    BY <1>1, <2>1 DEF Restart, PanesOK, Modes
  <2>3. InGrid'
    BY <1>1, <1>2 DEF InGrid
  <2>4. QED
    BY <2>2, <2>3 DEF LInv
<1>4. AccountsOK'
  BY <1>1, NothingIsList DEF Restart, AccountsOK
<1>5. FileOK'
  BY DEF Restart, WInv, FileOK, Cut
<1>6. QED
  BY <1>3, <1>4, <1>5 DEF WInv

LEMMA LoadDocumentKeeps ==
  ASSUME WInv, NEW d, d.mode \in Modes, IsList(d.names), LoadDocument(d)
  PROVE  WInv'
<1> DEFINE n == IF Len(d.names) < MaxPanes THEN Len(d.names) ELSE MaxPanes
           g == [k \in 1..n |-> Temporary]
<1>1. Len(d.names) \in Nat /\ MaxPanes \in Nat
  BY ListIsFunction, PanesAssumption
<1>2. n \in Nat /\ n \in 0..Len(d.names) /\ n <= MaxPanes
  BY <1>1
<1>3. /\ mode' = d.mode /\ geometry' = Opened(d.mode, n)
      /\ accounts' = SubSeq(d.names, 1, n)
      /\ focus' = IF n = 0 THEN 0 ELSE 1
      /\ UNCHANGED <<screen, wrap, file, saved>>
  BY DEF LoadDocument
<1> HIDE DEF n
<1>4. g \in Seq(Rect) /\ Len(g) = n
  <2>1. g \in [1..n -> Rect]
    BY TemporaryRect
  <2>2. QED
    BY <1>2, <2>1
<1>5. AccountsOK' /\ geometry' \in Seq(Rect) /\ Len(geometry') = n
      /\ (d.mode # "focus" => geometry' = Grid(screen, n))
      /\ focus' \in 0..n /\ (focus' = 0 <=> n = 0)
  <2>1. CASE n # 0
    <3>1. 1 \in 0..Len(g)
      BY <1>2, <1>4, <2>1
    <3>2. geometry' = Arranged(d.mode, g, 1)
      BY <1>3 DEF Opened
    <3> HIDE DEF g
    <3>3. /\ geometry' \in Seq(Rect) /\ Len(geometry') = n
          /\ d.mode # "focus" => geometry' = Grid(screen, n)
      BY <1>2, <1>4, <3>1, <3>2, ArrangedOK DEF WInv, LInv, PanesOK
    <3>4. IsList(accounts') /\ Len(accounts') = n
      BY <1>2, <1>3, SubSeqList
    <3>5. QED
      BY <1>2, <1>3, <2>1, <3>3, <3>4 DEF AccountsOK, IsList
  <2>2. CASE n = 0
    <3>1. g = <<>>
      BY <1>4, <2>2, EmptySeq
    <3>2. geometry' = <<>>
      BY <1>3, <3>1 DEF Opened, Arranged
    <3>3. Grid(screen, n) = <<>>
      BY <2>2, EmptySeq DEF Grid
    <3>4. IsList(accounts') /\ Len(accounts') = n
      BY <1>2, <1>3, SubSeqList
    <3>5. geometry' \in Seq(Rect) /\ Len(geometry') = n
      BY <2>2, <3>2, EmptySeq
    <3>6. focus' = 0 /\ 0 \in 0..n
      BY <1>3, <2>2
    <3>7. AccountsOK'
      BY <3>4, <3>5 DEF AccountsOK, IsList
    <3>8. QED
      BY <2>2, <3>2, <3>3, <3>5, <3>6, <3>7
  <2>3. QED
    BY <2>1, <2>2
<1>6. geometry' = <<>> <=> n = 0
  BY <1>5, EmptySeq
<1>7. LInv'
  BY <1>2, <1>3, <1>5, <1>6 DEF WInv, LInv, PanesOK, InGrid
<1>8. FileOK'
  BY <1>3 DEF WInv, FileOK
<1>9. QED
  BY <1>5, <1>7, <1>8 DEF WInv

LEMMA WorkspaceNextKeeps == WInv /\ [Next]_workspaceVars => WInv'
<1> SUFFICES ASSUME WInv, [Next]_workspaceVars PROVE WInv'
  OBVIOUS
<1>1. ASSUME NEW a \in Account \cup {NoAccount}, New(a)
      PROVE  WInv'
  <2>1. LInv'
    BY <1>1, AddPaneKeeps DEF WInv, New
  <2>2. IsList(accounts') /\ Len(accounts') = Len(geometry) + 1
    BY <1>1, AppendList DEF WInv, AccountsOK, New
  <2>3. Len(geometry') = Len(geometry) + 1
    BY <1>1, AddPaneKeeps DEF WInv, New
  <2>4. FileOK'
    BY <1>1 DEF WInv, FileOK, New
  <2>5. AccountsOK'
    BY <2>2, <2>3 DEF AccountsOK, IsList
  <2>6. QED
    BY <2>1, <2>4, <2>5 DEF WInv
<1>2. ASSUME NEW k \in Positions, Close(k)
      PROVE  WInv'
  <2>1. LInv'
    BY <1>2, RemovePaneKeeps DEF WInv, Close
  <2>2. IsList(accounts') /\ Len(accounts') = Len(geometry) - 1
    BY <1>2, RemoveAtList DEF WInv, AccountsOK, Close, Positions
  <2>3. Len(geometry') = Len(geometry) - 1
    BY <1>2, RemovePaneKeeps DEF WInv, Close
  <2>4. FileOK'
    BY <1>2 DEF WInv, FileOK, Close
  <2>5. AccountsOK'
    BY <2>2, <2>3 DEF AccountsOK, IsList
  <2>6. QED
    BY <2>1, <2>4, <2>5 DEF WInv
<1>3. CASE LayoutStep /\ UNCHANGED <<accounts, file, saved>>
  <2>1. LInv'
    BY <1>3, LayoutStepKeeps DEF WInv
  <2>2. Len(geometry') = Len(geometry)
    BY <1>3, LayoutStepKeeps DEF WInv
  <2>3. QED
    BY <1>3, <2>1, <2>2 DEF WInv, AccountsOK, FileOK, IsList
<1>4. CASE Save
  BY <1>4, SaveKeeps
<1>5. CASE Load
  <2>1. CASE file.state = "whole" /\ LoadDocument(file.content)
    BY <2>1, LoadDocumentKeeps DEF WInv, FileOK
  <2>2. CASE UNCHANGED workspaceVars
    BY <2>2 DEF WInv, LInv, PanesOK, InGrid, AccountsOK, FileOK, IsList,
                workspaceVars, layoutVars
  <2>3. QED
    BY <1>5, <2>1, <2>2 DEF Load
<1>6. CASE Restart
  BY <1>6, RestartKeeps
<1>7. CASE UNCHANGED workspaceVars
  BY <1>7 DEF WInv, LInv, PanesOK, InGrid, AccountsOK, FileOK, IsList,
              workspaceVars, layoutVars
<1>8. QED
  BY <1>1, <1>2, <1>3, <1>4, <1>5, <1>6, <1>7 DEF Next

(***************************************************************************)
(* What the properties need of every reachable state.                      *)
(***************************************************************************)
THEOREM WorkspaceInvariant == Spec => []WInv
BY WorkspaceInitOK, WorkspaceNextKeeps, PTL DEF Spec

(***************************************************************************)
(* At most max_panes panes, each with a rectangle and an account, one of   *)
(* them focused as soon as there is one.                                   *)
(***************************************************************************)
THEOREM WorkspaceTypes == Spec => []WorkspaceTypeOK
<1>1. WInv => WorkspaceTypeOK
  BY DEF WInv, LInv, PanesOK, AccountsOK, WorkspaceTypeOK
<1>2. QED
  BY <1>1, WorkspaceInvariant, PTL

(***************************************************************************)
(* Outside focus mode the panes tile the terminal after every operation,   *)
(* for every size of the terminal and every number of panes.               *)
(***************************************************************************)
THEOREM AlwaysTiled == Spec => []Tiled
<1>1. WInv => Tiled
  <2> SUFFICES ASSUME WInv, mode # "focus", geometry # <<>>
               PROVE  Tiles(screen, geometry)
    BY DEF Tiled
  <2>1. Len(geometry) \in Nat /\ Len(geometry) <= MaxPanes
    BY LenProperties DEF WInv, LInv, PanesOK
  <2>2. Len(geometry) # 0
    BY EmptySeq DEF WInv, LInv, PanesOK
  <2>3. Len(geometry) \in 0..9
    BY <2>1, AtMostNine
  <2>4. Len(geometry) \in 1..9
    BY <2>2, <2>3
  <2>5. screen \in Screen
    BY ScreenSizes DEF WInv, LInv, PanesOK
  <2>6. geometry = Grid(screen, Len(geometry))
    BY DEF WInv, LInv, InGrid
  <2>7. Tiles(screen, Grid(screen, Len(geometry)))
    BY <2>4, <2>5, GridTiles
  <2>8. QED
    BY <2>6, <2>7
<1>2. QED
  BY <1>1, WorkspaceInvariant, PTL

-----------------------------------------------------------------------------
(* The direction keys.                                                     *)

\* f repeats a step up to n times, from base.
Repeats(f, S, base, step, n) ==
  f \in [0..n -> S] /\ f[0] = base /\ \A m \in 1..n : f[m] = step[f[m - 1]]

\* A function that is defined by repeating a step exists.
LEMMA RepetitionExists ==
  ASSUME NEW S, NEW base \in S, NEW step \in [S -> S], NEW n \in Nat
  PROVE  \E f : Repeats(f, S, base, step, n)
<1> DEFINE T == {m \in Nat : ~ \E f : Repeats(f, S, base, step, m)}
<1>1. SUFFICES ASSUME T # {} PROVE FALSE
  OBVIOUS
<1>2. PICK m \in T : \A k \in T : m <= k
  <2>1. T \in SUBSET Nat
    OBVIOUS
  <2>2. QED
    BY <1>1, <2>1, Least
<1>3. m # 0
  <2>1. Repeats([k \in 0..0 |-> base], S, base, step, 0)
    BY DEF Repeats
  <2>2. QED
    BY <2>1
<1>4. m - 1 \in Nat /\ m - 1 \notin T
  BY <1>2, <1>3
<1>5. PICK f : Repeats(f, S, base, step, m - 1)
  BY <1>4
<1> DEFINE h == [k \in 0..m |-> IF k = m THEN step[f[m - 1]] ELSE f[k]]
<1>6. Repeats(h, S, base, step, m)
  <2>1. f[m - 1] \in S
    BY <1>4, <1>5 DEF Repeats
  <2>2. h \in [0..m -> S]
    BY <1>4, <1>5, <2>1 DEF Repeats
  <2>3. h[0] = base
    BY <1>4, <1>5 DEF Repeats
  <2>4. ASSUME NEW k \in 1..m PROVE h[k] = step[h[k - 1]]
    <3>1. k \in 1..(m - 1) \/ k = m
      BY <1>4
    <3>2. k - 1 \in 0..(m - 1) /\ k - 1 # m /\ m - 1 # m
      BY <1>4
    <3>3. CASE k = m
      BY <3>2, <3>3
    <3>4. CASE k \in 1..(m - 1)
      BY <1>5, <3>2, <3>4 DEF Repeats
    <3>5. QED
      BY <3>1, <3>3, <3>4
  <2> HIDE DEF h
  <2>5. QED
    BY <2>2, <2>3, <2>4 DEF Repeats
<1>7. QED
  BY <1>2, <1>6

\* One key more does not leave the sets All; f[m] is f[m - 1] with one key more.
Closed(All, g, w) == \A B \in All : OneKeyMore(g, w, B) \in All
KeyByKey(f, g, w, n) == \A m \in 1..n : f[m] = OneKeyMore(g, w, f[m - 1])
Reaching(f, All, g, w, i, n) ==
  /\ f \in [0..n -> All] /\ f[0] = {i} /\ KeyByKey(f, g, w, n)
  /\ ReachedWithin(g, w, i, n) = f[n]

\* ReachedWithin is what it is defined to be: n times one more key.
LEMMA ReachedSteps ==
  ASSUME NEW n \in Nat, NEW All, NEW g, NEW w, NEW i, {i} \in All, Closed(All, g, w)
  PROVE  \E f : Reaching(f, All, g, w, i, n)
<1> DEFINE Is(h) == h = [m \in 0..n |-> IF m = 0 THEN {i} ELSE OneKeyMore(g, w, h[m - 1])]
           step == [B \in All |-> OneKeyMore(g, w, B)]
<1>1. /\ {i} \in All /\ step \in [All -> All]
      /\ \A B \in All : step[B] = OneKeyMore(g, w, B)
  BY DEF Closed
<1> HIDE DEF step
<1>2. PICK f : Repeats(f, All, {i}, step, n)
  BY <1>1, RepetitionExists
<1>3. ASSUME NEW m \in 1..n PROVE f[m] = OneKeyMore(g, w, f[m - 1])
  <2>1. m - 1 \in 0..n
    OBVIOUS
  <2>2. f[m - 1] \in All
    BY <1>2, <2>1 DEF Repeats
  <2>3. QED
    BY <1>1, <1>2, <2>2 DEF Repeats
<1>4. Is(f)
  <2>1. f \in [0..n -> All]
    BY <1>2 DEF Repeats
  <2>2. ASSUME NEW m \in 0..n
        PROVE  f[m] = IF m = 0 THEN {i} ELSE OneKeyMore(g, w, f[m - 1])
    <3>1. m = 0 \/ m \in 1..n
      OBVIOUS
    <3>2. QED
      BY <1>2, <1>3, <3>1 DEF Repeats
  <2>3. QED
    BY <2>1, <2>2
<1> DEFINE reached == CHOOSE h : Is(h)
<1>5. Is(reached)
  <2> HIDE DEF Is
  <2>1. QED
    BY <1>4
<1>6. ReachedWithin(g, w, i, n) = reached[n]
  BY DEF ReachedWithin
<1> HIDE DEF reached
<1>7. ASSUME NEW m \in 0..n
      PROVE  reached[m] = IF m = 0 THEN {i} ELSE OneKeyMore(g, w, reached[m - 1])
  <2> DEFINE body(m_1) == IF m_1 = 0 THEN {i} ELSE OneKeyMore(g, w, reached[m_1 - 1])
  <2>1. reached = [m_1 \in 0..n |-> body(m_1)]
    BY <1>5
  <2> HIDE DEF body
  <2>2. reached[m] = body(m)
    BY <2>1
  <2>3. QED
    BY <2>2 DEF body
<1> DEFINE T == {m \in 0..n : reached[m] # f[m]}
<1>8. T = {}
  <2>1. SUFFICES ASSUME T # {} PROVE FALSE
    OBVIOUS
  <2>2. PICK m \in T : \A k \in T : m <= k
    <3>1. T \in SUBSET Nat
      OBVIOUS
    <3>2. QED
      BY <2>1, <3>1, Least
  <2>3. m # 0
    BY <1>2, <1>7 DEF Repeats
  <2>4. m \in 1..n /\ m - 1 \in 0..n /\ ~(m <= m - 1)
    BY <2>3
  <2>5. reached[m - 1] = f[m - 1]
    BY <2>2, <2>4
  <2>6. QED
    BY <1>3, <1>7, <2>4, <2>5
<1>9. reached[n] = f[n]
  BY <1>8
<1>10. QED
  BY <1>2, <1>3, <1>6, <1>9 DEF Repeats, KeyByKey, Reaching

\* Twice the middle of a part.
Mid(l, c, k) == Begin(l, c, k) + End(l, c, k)

LEMMA MidsInOrder ==
  ASSUME NEW l \in Nat, NEW c \in 1..3, l >= c, NEW j \in 0..c-1, NEW k \in 0..c-1
  PROVE  /\ Mid(l, c, j) \in Int /\ Mid(l, c, k) \in Int
         /\ j < k => Mid(l, c, j) < Mid(l, c, k)
         /\ k < j => Mid(l, c, k) < Mid(l, c, j)
<1>1. l \div c >= 1
  <2>1. /\ l \div c \in Nat /\ l % c \in 0..c-1 /\ l = c * (l \div c) + (l % c)
    BY Parts
  <2>2. CASE c = 1
    BY <2>1, <2>2
  <2>3. CASE c = 2
    BY <2>1, <2>3
  <2>4. CASE c = 3
    BY <2>1, <2>4
  <2>5. QED
    BY <2>2, <2>3, <2>4
<1>2. \A x \in 0..c-1 : /\ Begin(l, c, x) \in Nat /\ End(l, c, x) \in Nat
                        /\ Begin(l, c, x) < End(l, c, x)
  <2>1. SUFFICES ASSUME NEW x \in 0..c-1
                 PROVE  /\ Begin(l, c, x) \in Nat /\ End(l, c, x) \in Nat
                        /\ Begin(l, c, x) < End(l, c, x)
    OBVIOUS
  <2>2. /\ Begin(l, c, x) \in Nat /\ Size(l, c, x) \in Nat /\ Size(l, c, x) >= l \div c
        /\ End(l, c, x) \in Nat
    BY PartBounds
  <2>3. l \div c \in Nat
    BY Parts
  <2>4. QED
    BY <1>1, <2>2, <2>3 DEF End
<1>3. \A x \in 0..c-1, y \in 0..c-1 : x < y => End(l, c, x) <= Begin(l, c, y)
  BY PartsInOrder
<1>4. QED
  BY <1>2, <1>3 DEF Mid

\* The centres of the grid are in the order of its columns and rows.
LEMMA Centres ==
  ASSUME NEW s \in Screen, NEW n \in 1..9, NEW i \in 1..n, NEW j \in 1..n
  PROVE  LET a == Grid(s, n)[i]
             b == Grid(s, n)[j]
         IN  /\ CentreX(a) \in Int /\ CentreX(b) \in Int
             /\ CentreY(a) \in Int /\ CentreY(b) \in Int
             /\ Col(n, i) = Col(n, j) => CentreX(a) = CentreX(b)
             /\ Col(n, i) < Col(n, j) => CentreX(a) < CentreX(b)
             /\ Col(n, i) > Col(n, j) => CentreX(a) > CentreX(b)
             /\ Row(n, i) = Row(n, j) => CentreY(a) = CentreY(b)
             /\ Row(n, i) < Row(n, j) => CentreY(a) < CentreY(b)
             /\ Row(n, i) > Row(n, j) => CentreY(a) > CentreY(b)
<1>1. Cols(n) \in 1..3 /\ Rows(n) \in 1..3
  BY ColsRows
<1>2. /\ s.width \in Nat /\ s.width >= Cols(n)
      /\ Usable(s) \in Nat /\ Usable(s) >= Rows(n)
  BY <1>1 DEF Screen, Usable
<1>3. /\ Row(n, i) \in 0..Rows(n)-1 /\ Col(n, i) \in 0..Cols(n)-1
      /\ Row(n, j) \in 0..Rows(n)-1 /\ Col(n, j) \in 0..Cols(n)-1
  BY Places
<1>4. ASSUME NEW k \in 1..n
      PROVE  /\ CentreX(Grid(s, n)[k]) = Mid(s.width, Cols(n), Col(n, k))
             /\ CentreY(Grid(s, n)[k]) = Mid(Usable(s), Rows(n), Row(n, k))
  <2>1. /\ Row(n, k) \in 0..Rows(n)-1 /\ Col(n, k) \in 0..Cols(n)-1
    BY Places
  <2>2. /\ Begin(s.width, Cols(n), Col(n, k)) \in Nat
        /\ Size(s.width, Cols(n), Col(n, k)) \in Nat
        /\ Begin(Usable(s), Rows(n), Row(n, k)) \in Nat
        /\ Size(Usable(s), Rows(n), Row(n, k)) \in Nat
    BY <1>1, <1>2, <2>1, PartBounds
  <2>3. LET r == Grid(s, n)[k]
        IN  /\ r.x = Begin(s.width, Cols(n), Col(n, k))
            /\ r.width = Size(s.width, Cols(n), Col(n, k))
            /\ r.y = Begin(Usable(s), Rows(n), Row(n, k))
            /\ r.height = Size(Usable(s), Rows(n), Row(n, k))
    BY CellParts
  <2>4. QED
    BY <2>2, <2>3 DEF CentreX, CentreY, Mid, End
<1>5. QED
  BY <1>1, <1>2, <1>3, <1>4, MidsInOrder

\* A longer way along one axis, or as long with a detour along the other, is a longer way.
LEMMA Detour ==
  ASSUME NEW e \in Int, NEW x \in Int, NEW y \in Int, (0 < e /\ e <= x) \/ (x <= e /\ e < 0),
         x # e \/ y # 0
  PROVE  /\ Square(e) + Square(0) < Square(x) + Square(y)
         /\ Square(0) + Square(e) < Square(y) + Square(x)
<1>1. ASSUME NEW a \in Nat, NEW b \in Nat, a < b PROVE a * a < b * b
  BY <1>1
<1>2. y * y \in Nat /\ (y # 0 => y * y > 0)
  OBVIOUS
<1>3. x * x \in Nat /\ e * e \in Nat
  OBVIOUS
<1>4. x # e => e * e < x * x
  <2>1. CASE 0 < e /\ e < x
    BY <1>1, <2>1
  <2>2. CASE x < e /\ e < 0
    <3>1. (0 - e) * (0 - e) < (0 - x) * (0 - x)
      BY <1>1, <2>2
    <3>2. QED
      BY <3>1
  <2>3. QED
    BY <2>1, <2>2
<1>5. x = e => e * e = x * x
  OBVIOUS
<1>6. QED
  BY <1>2, <1>3, <1>4, <1>5 DEF Square

\* The only closest pane is where a direction leads to.
LEMMA LeadsToClosest ==
  ASSUME NEW g, NEW n \in Nat, DOMAIN g = 1..n, NEW w, NEW d, NEW i \in 1..n, NEW k \in 1..n,
         k # i, Lies(d, g[i], g[k]), Distance(g[i], g[k]) \in Int,
         \A j \in (1..n) \ {i, k} : Lies(d, g[i], g[j]) =>
           /\ Distance(g[i], g[j]) \in Int
           /\ Distance(g[i], g[k]) < Distance(g[i], g[j])
  PROVE  Neighbour(g, w, d, i) = k
<1> DEFINE S == Towards(g, d, i)
<1>1. k \in S /\ \A j \in S \ {k} : j \in (1..n) \ {i, k} /\ Lies(d, g[i], g[j])
  BY DEF Towards
<1> HIDE DEF S
<1>2. Closest(g, i, S) = k
  <2> DEFINE First(m) == \A j \in S : \/ Distance(g[i], g[m]) < Distance(g[i], g[j])
                                      \/ Distance(g[i], g[m]) = Distance(g[i], g[j]) /\ m <= j
  <2>1. First(k)
    BY <1>1
  <2>2. \A m \in S : First(m) => m = k
    BY <1>1
  <2>3. Closest(g, i, S) = CHOOSE m \in S : First(m)
    BY DEF Closest
  <2> HIDE DEF First
  <2>4. QED
    BY <1>1, <2>1, <2>2, <2>3
<1>3. Neighbour(g, w, d, i) = Closest(g, i, S)
  BY <1>1 DEF Neighbour, S
<1>4. QED
  BY <1>2, <1>3

\* Two panes are not in the same place.
LEMMA PlaceIsPane ==
  ASSUME NEW n \in 1..9, NEW i \in 1..n, NEW j \in 1..n,
         Row(n, i) = Row(n, j), Col(n, i) = Col(n, j)
  PROVE  i = j
<1>1. /\ i - 1 = Cols(n) * Row(n, i) + Col(n, i)
      /\ j - 1 = Cols(n) * Row(n, j) + Col(n, j)
  BY Places
<1>2. QED
  BY <1>1

\* The keys lead to the next pane of the row or of the column.
LEMMA NextInRow ==
  ASSUME NEW s \in Screen, NEW n \in 1..9, NEW w, NEW i \in 1..n, NEW k \in 1..n,
         Row(n, i) = Row(n, k), Col(n, i) = Col(n, k) + 1
  PROVE  /\ Neighbour(Grid(s, n), w, "left", i) = k
         /\ Neighbour(Grid(s, n), w, "right", k) = i
<1> DEFINE g == Grid(s, n)
           x(j) == CentreX(g[j])
           y(j) == CentreY(g[j])
<1>1. DOMAIN g = 1..n
  BY DEF Grid
<1>2. \A j \in 1..n : /\ Row(n, j) \in 0..Rows(n)-1 /\ Col(n, j) \in 0..Cols(n)-1
  BY Places
<1>3. Cols(n) \in 1..3 /\ Rows(n) \in 1..3
  BY ColsRows
<1>4. \A j \in 1..n, m \in 1..n :
        /\ x(j) \in Int /\ y(j) \in Int
        /\ Col(n, j) = Col(n, m) => x(j) = x(m)
        /\ Col(n, j) < Col(n, m) => x(j) < x(m)
        /\ Row(n, j) < Row(n, m) => y(j) < y(m)
        /\ Row(n, j) = Row(n, m) => y(j) = y(m)
  <2>1. ASSUME NEW j \in 1..n, NEW m \in 1..n
        PROVE  /\ x(j) \in Int /\ y(j) \in Int
               /\ Col(n, j) = Col(n, m) => x(j) = x(m)
               /\ Col(n, j) < Col(n, m) => x(j) < x(m)
               /\ Row(n, j) < Row(n, m) => y(j) < y(m)
               /\ Row(n, j) = Row(n, m) => y(j) = y(m)
    BY Centres
  <2> HIDE DEF g, x, y
  <2>2. QED
    BY <2>1
<1>5. \A j \in 1..n, m \in 1..n :
        Distance(g[j], g[m]) = Square(x(j) - x(m)) + Square(y(j) - y(m))
  BY DEF Distance
<1>6. \A j \in 1..n, m \in 1..n : Lies("left", g[j], g[m]) <=> x(m) < x(j)
  BY DEF Lies
<1>7. \A j \in 1..n, m \in 1..n : Lies("right", g[j], g[m]) <=> x(m) > x(j)
  BY DEF Lies
<1>8. \A j \in 1..n, m \in 1..n : j # m => Row(n, j) # Row(n, m) \/ Col(n, j) # Col(n, m)
  BY PlaceIsPane
<1> HIDE DEF g, x, y
<1>9. \A j \in 1..n, m \in 1..n : Distance(g[j], g[m]) \in Int
  BY <1>4, <1>5 DEF Square
<1>10. x(k) < x(i) /\ y(i) = y(k) /\ i # k
  BY <1>2, <1>3, <1>4
<1>11. \A j \in 1..n, m \in 1..n :
         /\ x(j) < x(m) => Col(n, j) < Col(n, m)
         /\ y(j) = y(m) => Row(n, j) = Row(n, m)
  BY <1>2, <1>3, <1>4
<1>12. Neighbour(g, w, "left", i) = k
  <2>1. ASSUME NEW j \in (1..n) \ {i, k}, Lies("left", g[i], g[j])
        PROVE  Distance(g[i], g[k]) < Distance(g[i], g[j])
    <3>1. x(j) < x(i) /\ Col(n, j) < Col(n, i)
      BY <1>6, <1>11, <2>1
    <3>2. x(j) <= x(k) /\ (x(j) = x(k) => Col(n, j) = Col(n, k))
      BY <1>2, <1>3, <1>4, <3>1
    <3>3. x(j) # x(k) \/ y(j) # y(i)
      BY <1>8, <1>11, <3>2
    <3>4. /\ x(i) - x(k) \in Int /\ x(i) - x(j) \in Int /\ y(i) - y(j) \in Int
          /\ 0 < x(i) - x(k) /\ x(i) - x(k) <= x(i) - x(j)
          /\ x(i) - x(j) # x(i) - x(k) \/ y(i) - y(j) # 0
          /\ y(i) - y(k) = 0
      BY <1>4, <1>10, <3>2, <3>3
    <3>5. Square(x(i) - x(k)) + Square(0) < Square(x(i) - x(j)) + Square(y(i) - y(j))
      BY <3>4, Detour
    <3>6. QED
      BY <1>5, <3>4, <3>5
  <2>2. Lies("left", g[i], g[k])
    BY <1>6, <1>10
  <2>3. \A j \in (1..n) \ {i, k} : Lies("left", g[i], g[j]) =>
          Distance(g[i], g[j]) \in Int /\ Distance(g[i], g[k]) < Distance(g[i], g[j])
    BY <1>9, <2>1
  <2>4. n \in Nat /\ Distance(g[i], g[k]) \in Int /\ k # i
    BY <1>9, <1>10
  <2>5. QED
    BY ONLY <1>1, <2>2, <2>3, <2>4, i \in 1..n, k \in 1..n, LeadsToClosest
<1>13. Neighbour(g, w, "right", k) = i
  <2>1. ASSUME NEW j \in (1..n) \ {k, i}, Lies("right", g[k], g[j])
        PROVE  Distance(g[k], g[i]) < Distance(g[k], g[j])
    <3>1. x(k) < x(j) /\ Col(n, k) < Col(n, j)
      BY <1>4, <1>7, <1>11, <2>1
    <3>2. x(i) <= x(j) /\ (x(j) = x(i) => Col(n, j) = Col(n, i))
      BY <1>2, <1>3, <1>4, <3>1
    <3>3. x(j) # x(i) \/ y(j) # y(k)
      BY <1>8, <1>11, <3>2
    <3>4. /\ x(k) - x(i) \in Int /\ x(k) - x(j) \in Int /\ y(k) - y(j) \in Int
          /\ x(k) - x(i) < 0 /\ x(k) - x(j) <= x(k) - x(i)
          /\ x(k) - x(j) # x(k) - x(i) \/ y(k) - y(j) # 0
          /\ y(k) - y(i) = 0
      BY <1>4, <1>10, <3>2, <3>3
    <3>5. Square(x(k) - x(i)) + Square(0) < Square(x(k) - x(j)) + Square(y(k) - y(j))
      BY <3>4, Detour
    <3>6. QED
      BY <1>5, <3>4, <3>5
  <2>2. Lies("right", g[k], g[i])
    BY <1>4, <1>7, <1>10
  <2>3. \A j \in (1..n) \ {k, i} : Lies("right", g[k], g[j]) =>
          Distance(g[k], g[j]) \in Int /\ Distance(g[k], g[i]) < Distance(g[k], g[j])
    BY <1>9, <2>1
  <2>4. n \in Nat /\ Distance(g[k], g[i]) \in Int /\ i # k
    BY <1>9, <1>10
  <2>5. QED
    BY ONLY <1>1, <2>2, <2>3, <2>4, i \in 1..n, k \in 1..n, LeadsToClosest
<1>14. QED
  BY <1>12, <1>13 DEF g

LEMMA NextInColumn ==
  ASSUME NEW s \in Screen, NEW n \in 1..9, NEW w, NEW i \in 1..n, NEW k \in 1..n,
         Col(n, i) = Col(n, k), Row(n, i) = Row(n, k) + 1
  PROVE  /\ Neighbour(Grid(s, n), w, "up", i) = k
         /\ Neighbour(Grid(s, n), w, "down", k) = i
<1> DEFINE g == Grid(s, n)
           y(j) == CentreY(g[j])
           x(j) == CentreX(g[j])
<1>1. DOMAIN g = 1..n
  BY DEF Grid
<1>2. \A j \in 1..n : /\ Col(n, j) \in 0..Cols(n)-1 /\ Row(n, j) \in 0..Rows(n)-1
  BY Places
<1>3. Rows(n) \in 1..3 /\ Cols(n) \in 1..3
  BY ColsRows
<1>4. \A j \in 1..n, m \in 1..n :
        /\ y(j) \in Int /\ x(j) \in Int
        /\ Row(n, j) = Row(n, m) => y(j) = y(m)
        /\ Row(n, j) < Row(n, m) => y(j) < y(m)
        /\ Col(n, j) < Col(n, m) => x(j) < x(m)
        /\ Col(n, j) = Col(n, m) => x(j) = x(m)
  <2>1. ASSUME NEW j \in 1..n, NEW m \in 1..n
        PROVE  /\ y(j) \in Int /\ x(j) \in Int
               /\ Row(n, j) = Row(n, m) => y(j) = y(m)
               /\ Row(n, j) < Row(n, m) => y(j) < y(m)
               /\ Col(n, j) < Col(n, m) => x(j) < x(m)
               /\ Col(n, j) = Col(n, m) => x(j) = x(m)
    BY Centres
  <2> HIDE DEF g, x, y
  <2>2. QED
    BY <2>1
<1>5. \A j \in 1..n, m \in 1..n :
        Distance(g[j], g[m]) = Square(x(j) - x(m)) + Square(y(j) - y(m))
  BY DEF Distance
<1>6. \A j \in 1..n, m \in 1..n : Lies("up", g[j], g[m]) <=> y(m) < y(j)
  BY DEF Lies
<1>7. \A j \in 1..n, m \in 1..n : Lies("down", g[j], g[m]) <=> y(m) > y(j)
  BY DEF Lies
<1>8. \A j \in 1..n, m \in 1..n : j # m => Col(n, j) # Col(n, m) \/ Row(n, j) # Row(n, m)
  BY PlaceIsPane
<1> HIDE DEF g, y, x
<1>9. \A j \in 1..n, m \in 1..n : Distance(g[j], g[m]) \in Int
  BY <1>4, <1>5 DEF Square
<1>10. y(k) < y(i) /\ x(i) = x(k) /\ i # k
  BY <1>2, <1>3, <1>4
<1>11. \A j \in 1..n, m \in 1..n :
         /\ y(j) < y(m) => Row(n, j) < Row(n, m)
         /\ x(j) = x(m) => Col(n, j) = Col(n, m)
  BY <1>2, <1>3, <1>4
<1>12. Neighbour(g, w, "up", i) = k
  <2>1. ASSUME NEW j \in (1..n) \ {i, k}, Lies("up", g[i], g[j])
        PROVE  Distance(g[i], g[k]) < Distance(g[i], g[j])
    <3>1. y(j) < y(i) /\ Row(n, j) < Row(n, i)
      BY <1>6, <1>11, <2>1
    <3>2. y(j) <= y(k) /\ (y(j) = y(k) => Row(n, j) = Row(n, k))
      BY <1>2, <1>3, <1>4, <3>1
    <3>3. y(j) # y(k) \/ x(j) # x(i)
      BY <1>8, <1>11, <3>2
    <3>4. /\ y(i) - y(k) \in Int /\ y(i) - y(j) \in Int /\ x(i) - x(j) \in Int
          /\ 0 < y(i) - y(k) /\ y(i) - y(k) <= y(i) - y(j)
          /\ y(i) - y(j) # y(i) - y(k) \/ x(i) - x(j) # 0
          /\ x(i) - x(k) = 0
      BY <1>4, <1>10, <3>2, <3>3
    <3>5. Square(0) + Square(y(i) - y(k)) < Square(x(i) - x(j)) + Square(y(i) - y(j))
      BY <3>4, Detour
    <3>6. QED
      BY <1>5, <3>4, <3>5
  <2>2. Lies("up", g[i], g[k])
    BY <1>6, <1>10
  <2>3. \A j \in (1..n) \ {i, k} : Lies("up", g[i], g[j]) =>
          Distance(g[i], g[j]) \in Int /\ Distance(g[i], g[k]) < Distance(g[i], g[j])
    BY <1>9, <2>1
  <2>4. n \in Nat /\ Distance(g[i], g[k]) \in Int /\ k # i
    BY <1>9, <1>10
  <2>5. QED
    BY ONLY <1>1, <2>2, <2>3, <2>4, i \in 1..n, k \in 1..n, LeadsToClosest
<1>13. Neighbour(g, w, "down", k) = i
  <2>1. ASSUME NEW j \in (1..n) \ {k, i}, Lies("down", g[k], g[j])
        PROVE  Distance(g[k], g[i]) < Distance(g[k], g[j])
    <3>1. y(k) < y(j) /\ Row(n, k) < Row(n, j)
      BY <1>4, <1>7, <1>11, <2>1
    <3>2. y(i) <= y(j) /\ (y(j) = y(i) => Row(n, j) = Row(n, i))
      BY <1>2, <1>3, <1>4, <3>1
    <3>3. y(j) # y(i) \/ x(j) # x(k)
      BY <1>8, <1>11, <3>2
    <3>4. /\ y(k) - y(i) \in Int /\ y(k) - y(j) \in Int /\ x(k) - x(j) \in Int
          /\ y(k) - y(i) < 0 /\ y(k) - y(j) <= y(k) - y(i)
          /\ y(k) - y(j) # y(k) - y(i) \/ x(k) - x(j) # 0
          /\ x(k) - x(i) = 0
      BY <1>4, <1>10, <3>2, <3>3
    <3>5. Square(0) + Square(y(k) - y(i)) < Square(x(k) - x(j)) + Square(y(k) - y(j))
      BY <3>4, Detour
    <3>6. QED
      BY <1>5, <3>4, <3>5
  <2>2. Lies("down", g[k], g[i])
    BY <1>4, <1>7, <1>10
  <2>3. \A j \in (1..n) \ {k, i} : Lies("down", g[k], g[j]) =>
          Distance(g[k], g[j]) \in Int /\ Distance(g[k], g[i]) < Distance(g[k], g[j])
    BY <1>9, <2>1
  <2>4. n \in Nat /\ Distance(g[k], g[i]) \in Int /\ i # k
    BY <1>9, <1>10
  <2>5. QED
    BY ONLY <1>1, <2>2, <2>3, <2>4, i \in 1..n, k \in 1..n, LeadsToClosest
<1>14. QED
  BY <1>12, <1>13 DEF g

\* How many keys lead from the first pane to pane i.
Far(n, i) == Row(n, i) + Col(n, i)

\* It is at most half the number of panes.
LEMMA FarIsShort ==
  ASSUME NEW n \in 1..9, NEW i \in 1..n
  PROVE  Far(n, i) \in Nat /\ 2 * Far(n, i) <= n /\ (Far(n, i) = 0 <=> i = 1)
<1>1. /\ Row(n, i) \in 0..Rows(n)-1 /\ Col(n, i) \in 0..Cols(n)-1
      /\ i - 1 = Cols(n) * Row(n, i) + Col(n, i)
  BY Places
<1>2. CASE n = 1
  BY <1>1, <1>2 DEF Far, Cols, Rows
<1>3. CASE n \in 2..4
  <2>1. Cols(n) = 2
    BY <1>3 DEF Cols
  <2>2. QED
    BY <1>1, <1>3, <2>1 DEF Far
<1>4. CASE n \in 5..9
  <2>1. Cols(n) = 3
    BY <1>4 DEF Cols
  <2>2. QED
    BY <1>1, <1>4, <2>1 DEF Far
<1>5. QED
  BY <1>2, <1>3, <1>4

\* Every pane but the first is one key from one that is nearer to the first, and back.
LEMMA Nearer ==
  ASSUME NEW s \in Screen, NEW n \in 1..9, NEW w, NEW i \in 1..n, i # 1
  PROVE  \E k \in 1..n : /\ Far(n, k) = Far(n, i) - 1
                         /\ \E d \in Directions : Neighbour(Grid(s, n), w, d, i) = k
                         /\ \E d \in Directions : Neighbour(Grid(s, n), w, d, k) = i
<1>1. /\ Row(n, i) \in 0..Rows(n)-1 /\ Col(n, i) \in 0..Cols(n)-1
      /\ i - 1 = Cols(n) * Row(n, i) + Col(n, i)
  BY Places
<1>2. Cols(n) \in 1..3 /\ Rows(n) \in 1..3
  BY ColsRows
<1>3. ASSUME NEW k \in 1..n, NEW row \in Nat, NEW col \in 0..Cols(n)-1,
             k - 1 = Cols(n) * row + col
      PROVE  Row(n, k) = row /\ Col(n, k) = col
  <2>1. /\ Row(n, k) \in 0..Rows(n)-1 /\ Col(n, k) \in 0..Cols(n)-1
        /\ k - 1 = Cols(n) * Row(n, k) + Col(n, k)
    BY Places
  <2>2. Row(n, k) \in Nat
    BY <1>2, <2>1
  <2>3. Cols(n) = 1 \/ Cols(n) = 2 \/ Cols(n) = 3
    BY <1>2
  <2>4. QED
    BY <1>3, <2>1, <2>2, <2>3
<1>4. CASE Col(n, i) > 0
  <2>1. i - 1 \in 1..n
    BY <1>1, <1>2, <1>4
  <2>2. Row(n, i) \in Nat /\ Col(n, i) - 1 \in 0..Cols(n)-1
    BY <1>1, <1>2, <1>4
  <2>3. (i - 1) - 1 = Cols(n) * Row(n, i) + (Col(n, i) - 1)
    BY <1>1, <1>2
  <2>4. Row(n, i - 1) = Row(n, i) /\ Col(n, i - 1) = Col(n, i) - 1
    BY <1>3, <2>1, <2>2, <2>3
  <2>5. /\ Neighbour(Grid(s, n), w, "left", i) = i - 1
        /\ Neighbour(Grid(s, n), w, "right", i - 1) = i
    <3>1. Row(n, i) = Row(n, i - 1) /\ Col(n, i) = Col(n, i - 1) + 1
      BY <1>1, <1>2, <2>4
    <3>2. QED
      BY <2>1, <3>1, NextInRow
  <2>6. Far(n, i - 1) = Far(n, i) - 1
    BY <1>1, <1>2, <2>4 DEF Far
  <2>7. QED
    BY <2>1, <2>5, <2>6 DEF Directions
<1>5. CASE Col(n, i) = 0
  <2> DEFINE k == i - Cols(n)
  <2>1. Row(n, i) - 1 \in Nat
    BY <1>1, <1>2, <1>5
  <2>2. k \in 1..n /\ k - 1 = Cols(n) * (Row(n, i) - 1) + 0
    <3>1. Cols(n) = 1 \/ Cols(n) = 2 \/ Cols(n) = 3
      BY <1>2
    <3>2. QED
      BY <1>1, <1>5, <2>1, <3>1
  <2> HIDE DEF k
  <2>3. Row(n, k) = Row(n, i) - 1 /\ Col(n, k) = 0
    BY <1>2, <1>3, <2>1, <2>2
  <2>4. /\ Neighbour(Grid(s, n), w, "up", i) = k
        /\ Neighbour(Grid(s, n), w, "down", k) = i
    <3>1. Col(n, i) = Col(n, k) /\ Row(n, i) = Row(n, k) + 1
      BY <1>1, <1>2, <1>5, <2>3
    <3>2. QED
      BY <2>2, <3>1, NextInColumn
  <2>5. Far(n, k) = Far(n, i) - 1
    BY <1>1, <1>2, <1>5, <2>3 DEF Far
  <2>6. QED
    BY <2>2, <2>4, <2>5 DEF Directions
<1>6. QED
  BY <1>1, <1>2, <1>4, <1>5

\* What m keys reach, m keys and one more reach too.
LEMMA OneKeyStays ==
  ASSUME NEW g, NEW w, NEW B
  PROVE  /\ B \subseteq OneKeyMore(g, w, B)
         /\ \A k \in B, d \in Directions : Neighbour(g, w, d, k) \in OneKeyMore(g, w, B)
BY DEF OneKeyMore

\* v keys more lead from pane k to the first, and from the first to pane k, if it is
\* that far.
LEMMA KeysToFirst ==
  ASSUME NEW s \in Screen, NEW n \in 1..9, NEW w, NEW f, NEW v \in Nat,
         KeyByKey(f, Grid(s, n), w, n)
  PROVE  \A k \in 1..n, m \in 0..n : Far(n, k) = v /\ m + v <= n =>
           /\ k \in f[m] => 1 \in f[m + v]
           /\ 1 \in f[m] => k \in f[m + v]
<1> DEFINE P(x) == \A k \in 1..n, m \in 0..n : Far(n, k) = x /\ m + x <= n =>
                     /\ k \in f[m] => 1 \in f[m + x]
                     /\ 1 \in f[m] => k \in f[m + x]
           T == {x \in Nat : ~P(x)}
<1>0. \A k \in 1..n : k # 1 =>
        \E j \in 1..n : /\ Far(n, j) = Far(n, k) - 1
                        /\ \E d \in Directions : Neighbour(Grid(s, n), w, d, k) = j
                        /\ \E d \in Directions : Neighbour(Grid(s, n), w, d, j) = k
  BY Nearer
<1>1. P(0)
  <2>1. \A k \in 1..n : Far(n, k) = 0 => k = 1
    BY FarIsShort
  <2>2. \A m \in 0..n : m + 0 = m
    OBVIOUS
  <2>3. QED
    BY <2>1, <2>2
<1>2. ASSUME NEW x \in Nat, x # 0, P(x - 1) PROVE P(x)
  <2>1. SUFFICES ASSUME NEW k \in 1..n, NEW m \in 0..n, Far(n, k) = x, m + x <= n
                 PROVE  /\ k \in f[m] => 1 \in f[m + x]
                        /\ 1 \in f[m] => k \in f[m + x]
    OBVIOUS
  <2>2. k # 1
    BY <1>2, <2>1, FarIsShort
  <2>3. PICK j \in 1..n : /\ Far(n, j) = x - 1
                          /\ \E d \in Directions : Neighbour(Grid(s, n), w, d, k) = j
                          /\ \E d \in Directions : Neighbour(Grid(s, n), w, d, j) = k
    BY <1>0, <2>1, <2>2
  <2>4. \A a \in 1..n : f[a] = OneKeyMore(Grid(s, n), w, f[a - 1])
    BY DEF KeyByKey
  <2>5. /\ m + 1 \in 1..n /\ m + x \in 1..n /\ (m + 1) - 1 = m
        /\ (m + x) - 1 = m + (x - 1) /\ (m + 1) + (x - 1) = m + x
        /\ m + (x - 1) <= n /\ m + 1 \in 0..n /\ (m + 1) + (x - 1) <= n
    BY <1>2, <2>1
  <2>6. ASSUME k \in f[m] PROVE 1 \in f[m + x]
    <3>1. j \in f[m + 1]
      <4>1. f[m + 1] = OneKeyMore(Grid(s, n), w, f[m])
        BY <2>4, <2>5
      <4>2. QED
        BY <2>3, <2>6, <4>1, OneKeyStays
    <3>2. QED
      BY <1>2, <2>3, <2>5, <3>1
  <2>7. ASSUME 1 \in f[m] PROVE k \in f[m + x]
    <3>1. j \in f[m + (x - 1)]
      BY <1>2, <2>3, <2>5, <2>7
    <3>2. f[m + x] = OneKeyMore(Grid(s, n), w, f[m + (x - 1)])
      BY <2>4, <2>5
    <3>3. QED
      BY <2>3, <3>1, <3>2, OneKeyStays
  <2>8. QED
    BY <2>6, <2>7
<1> HIDE DEF P
<1>3. T = {}
  <2>1. SUFFICES ASSUME T # {} PROVE FALSE
    OBVIOUS
  <2>2. PICK x \in T : \A y \in T : x <= y
    <3>1. T \in SUBSET Nat
      OBVIOUS
    <3>2. QED
      BY <2>1, <3>1, Least
  <2>3. x \in Nat /\ x # 0 /\ ~P(x)
    BY <1>1, <2>2
  <2>4. x - 1 \in Nat /\ ~(x <= x - 1)
    BY <2>3
  <2>5. P(x - 1)
    BY <2>2, <2>4
  <2>6. QED
    BY <1>2, <2>3, <2>5
<1>4. P(v)
  BY <1>3
<1>5. QED
  BY <1>4 DEF P

\* What is reached stays reached.
LEMMA ReachedStays ==
  ASSUME NEW g, NEW w, NEW f, NEW n \in Nat, NEW k, NEW a \in 0..n, k \in f[a],
         KeyByKey(f, g, w, n)
  PROVE  k \in f[n]
<1> DEFINE T == {m \in a..n : k \notin f[m]}
<1>1. T = {}
  <2>1. SUFFICES ASSUME T # {} PROVE FALSE
    OBVIOUS
  <2>2. PICK m \in T : \A y \in T : m <= y
    <3>1. T \in SUBSET Nat
      OBVIOUS
    <3>2. QED
      BY <2>1, <3>1, Least
  <2>3. m # a
    OBVIOUS
  <2>4. m \in 1..n /\ m - 1 \in a..n /\ ~(m <= m - 1)
    BY <2>3
  <2>5. k \in f[m - 1]
    BY <2>2, <2>4
  <2>6. k \in f[m]
    BY <2>4, <2>5, OneKeyStays DEF KeyByKey
  <2>7. QED
    BY <2>6
<1>2. QED
  BY <1>1

(***************************************************************************)
(* On the grid of up to nine panes, on every screen, the direction keys    *)
(* lead from every pane to every other.                                    *)
(***************************************************************************)
THEOREM GridReachesAll ==
  ASSUME NEW s \in Screen, NEW n \in 1..9, NEW w \in BOOLEAN
  PROVE  ReachesAll(Grid(s, n), w)
<1> DEFINE g == Grid(s, n)
<1>1. g \in Seq(Rect) /\ Len(g) = n
  <2>1. n \in 0..9
    OBVIOUS
  <2>2. QED
    BY <2>1, GridRects
<1>2. DOMAIN g = 1..n
  BY DEF Grid
<1>3. ASSUME NEW d \in Directions, NEW k \in 1..n
      PROVE  Neighbour(g, w, d, k) \in 1..n
  <2>1. Len(g) \in 1..9 /\ k \in 1..Len(g)
    BY <1>1
  <2>2. Neighbour(g, w, d, k) \in 1..Len(g)
    BY ONLY <1>1, <2>1, w \in BOOLEAN, d \in Directions, NeighbourIsPane
  <2>3. QED
    BY <1>1, <2>2
<1> HIDE DEF g
<1>4. ASSUME NEW i \in 1..n PROVE ReachedWithin(g, w, i, n) = 1..n
  <2> DEFINE All == SUBSET (1..n)
  <2>1. {i} \in All /\ Closed(All, g, w)
    <3>1. ASSUME NEW B \in SUBSET (1..n), NEW x \in OneKeyMore(g, w, B) PROVE x \in 1..n
      <4>1. x \in B \/ \E d \in Directions, k \in B : x = Neighbour(g, w, d, k)
        BY <3>1 DEF OneKeyMore
      <4>2. QED
        BY <1>3, <4>1
    <3>2. QED
      BY <3>1 DEF Closed
  <2> HIDE DEF All
  <2>2. PICK f : Reaching(f, All, g, w, i, n)
    <3>1. n \in Nat
      OBVIOUS
    <3>2. QED
      BY ONLY <2>1, <3>1, ReachedSteps
  <2>3. f[n] \subseteq 1..n
    BY <2>2 DEF All, Reaching
  <2>4. ASSUME NEW k \in 1..n PROVE k \in f[n]
    <3>1. /\ Far(n, i) \in Nat /\ 2 * Far(n, i) <= n
          /\ Far(n, k) \in Nat /\ 2 * Far(n, k) <= n
      BY FarIsShort
    <3> DEFINE p == Far(n, i)
               q == Far(n, k)
    <3>2. /\ 0 \in 0..n /\ 0 + p <= n /\ 0 + p = p /\ p \in 0..n
          /\ p + q <= n /\ p + q \in 0..n
      BY <3>1
    <3>3. KeyByKey(f, Grid(s, n), w, n)
      BY <2>2 DEF g, Reaching
    <3>4. 1 \in f[p]
      <4>1. i \in f[0]
        BY <2>2 DEF Reaching
      <4>2. \A l \in 1..n, m \in 0..n : Far(n, l) = p /\ m + p <= n =>
              (l \in f[m] => 1 \in f[m + p])
        BY ONLY <3>1, <3>3, n \in 1..9, s \in Screen, KeysToFirst
      <4>3. QED
        BY <3>2, <4>1, <4>2
    <3>5. k \in f[p + q]
      <4>1. \A l \in 1..n, m \in 0..n : Far(n, l) = q /\ m + q <= n =>
              (1 \in f[m] => l \in f[m + q])
        BY ONLY <3>1, <3>3, n \in 1..9, s \in Screen, KeysToFirst
      <4>2. QED
        BY <3>2, <3>4, <4>1
    <3> HIDE DEF p, q
    <3>6. n \in Nat
      OBVIOUS
    <3>7. KeyByKey(f, g, w, n)
      BY <2>2 DEF Reaching
    <3>8. QED
      BY ONLY <3>2, <3>5, <3>6, <3>7, ReachedStays
  <2>5. QED
    BY <2>2, <2>3, <2>4 DEF Reaching
<1>6. QED
  BY <1>1, <1>2, <1>4 DEF ReachesAll, g

(***************************************************************************)
(* With the direction keys alone every pane of the grid can be reached     *)
(* from every other, with wrap_navigation or without, for every size of    *)
(* the terminal and every number of panes.                                 *)
(***************************************************************************)
THEOREM KeysReachAll == Spec => []DirectionsReachAll
<1>1. WInv => DirectionsReachAll
  <2> SUFFICES ASSUME WInv, mode # "focus"
               PROVE  ReachesAll(geometry, wrap)
    BY DEF DirectionsReachAll
  <2>1. Len(geometry) \in Nat /\ Len(geometry) <= MaxPanes /\ geometry \in Seq(Rect)
    BY LenProperties DEF WInv, LInv, PanesOK
  <2>2. Len(geometry) \in 0..9
    BY <2>1, AtMostNine
  <2>3. screen \in Screen /\ wrap \in BOOLEAN
    BY ScreenSizes DEF WInv, LInv, PanesOK
  <2>4. geometry = Grid(screen, Len(geometry))
    BY DEF WInv, LInv, InGrid
  <2>5. CASE Len(geometry) = 0
    <3>1. DOMAIN geometry = {}
      BY <2>1, <2>5, LenProperties
    <3>2. QED
      BY <3>1 DEF ReachesAll
  <2>6. CASE Len(geometry) \in 1..9
    <3>1. ReachesAll(Grid(screen, Len(geometry)), wrap)
      BY <2>3, <2>6, GridReachesAll
    <3>2. QED
      BY <2>4, <3>1
  <2>7. QED
    BY <2>2, <2>5, <2>6
<1>2. QED
  BY <1>1, WorkspaceInvariant, PTL
-----------------------------------------------------------------------------
(* Loading what was saved.                                                 *)

\* A name that is written and read again is a text, and a plain one is the same.
LEMMA NamesReread ==
  ASSUME NEW s, IsList(s)
  PROVE  IsList(Reread(s)) /\ (Plain(s) => Reread(s) = s)
<1> DEFINE S == {s[i] : i \in DOMAIN s} \cup Marks
<1>1. Marks \subseteq S
  OBVIOUS
<1>2. s \in Seq(S)
  BY SeqMonotonic DEF IsList
<1> HIDE DEF S
<1>3. Reread(s) \in Seq(S)
  BY <1>1, <1>2, RereadText
<1>4. Plain(s) => Reread(s) = s
  BY <1>1, <1>2, RereadPlain
<1>5. Len(Reread(s)) \in Nat /\ Reread(s) = [i \in 1..Len(Reread(s)) |-> Reread(s)[i]]
  BY <1>3, LenProperties
<1>6. QED
  BY <1>4, <1>5, FunctionIsList

\* Account names are texts, and so is the empty one of a pane without an account.
LEMMA NamesAreTexts ==
  /\ \A a \in Account \cup {NoAccount} : IsList(NameOf(a))
  /\ \A s : IsList(s) => IsList(NameOf(s))
<1>1. IsList(<<>>)
  BY NothingIsList
<1>2. ASSUME NEW a \in Account PROVE IsList(a)
  <2>1. a \in Seq(STRING)
    BY AccountAssumption
  <2>2. Len(a) \in Nat /\ a = [i \in 1..Len(a) |-> a[i]]
    BY <2>1, LenProperties
  <2>3. QED
    BY <2>2, FunctionIsList
<1>3. QED
  BY <1>1, <1>2 DEF NameOf

\* Accounts and the names in the file are texts, and what was saved last is in the file.
TextsOK ==
  /\ \A k \in 1..Len(accounts) : IsList(NameOf(accounts[k]))
  /\ file.state = "whole" =>
       \A k \in 1..Len(file.content.names) : IsList(file.content.names[k])

SavedOK ==
  saved # None =>
    /\ file.state = "whole" /\ file.content.mode = saved.mode
    /\ IsList(saved.names) /\ Len(saved.names) \in 1..MaxPanes
    /\ Len(file.content.names) = Len(saved.names)
    /\ \A k \in 1..Len(saved.names) :
         /\ IsList(NameOf(saved.names[k]))
         /\ file.content.names[k] = Reread(NameOf(saved.names[k]))

SInv == WInv /\ TextsOK /\ SavedOK

\* At the start nothing is saved.
LEMMA SavedInitOK == WorkspaceInit => SInv
<1> SUFFICES ASSUME WorkspaceInit PROVE SInv
  OBVIOUS
<1>1. Len(<<>>) = 0
  BY NothingIsList
<1>2. 1..0 = {}
  OBVIOUS
<1>3. TextsOK
  BY <1>1, <1>2
     DEF WorkspaceInit, TextsOK, Missing, Whole, NoDocument, Document
<1>4. SavedOK
  BY DEF WorkspaceInit, SavedOK
<1>5. QED
  BY <1>3, <1>4, WorkspaceInitOK DEF SInv

\* Each step keeps both.
LEMMA NewKeepsTexts ==
  ASSUME SInv, NEW a \in Account \cup {NoAccount}, New(a)
  PROVE  TextsOK' /\ SavedOK'
<1>1. accounts' = Append(accounts, a) /\ UNCHANGED <<file, saved>>
  BY DEF New
<1>2. SavedOK'
  BY <1>1 DEF SInv, SavedOK
<1> DEFINE S == {accounts[i] : i \in DOMAIN accounts} \cup {a}
           n == Len(accounts)
<1>3. /\ n \in Nat /\ Len(accounts') = n + 1
      /\ \A i \in 1..n : accounts'[i] = accounts[i]
      /\ accounts'[n + 1] = a
  <2>1. accounts \in Seq(S)
    BY SeqMonotonic DEF SInv, WInv, AccountsOK, IsList
  <2>2. a \in S
    OBVIOUS
  <2> HIDE DEF S
  <2>3. QED
    BY <1>1, <2>1, <2>2, AppendProperties, LenProperties
<1>4. \A k \in 1..n : IsList(NameOf(accounts[k]))
  BY DEF SInv, TextsOK
<1> HIDE DEF n
<1>5. ASSUME NEW k \in 1..(n + 1) PROVE IsList(NameOf(accounts'[k]))
  <2>1. CASE k \in 1..n
    BY <1>3, <1>4, <2>1
  <2>2. CASE k = n + 1
    BY <1>3, <2>2, NamesAreTexts
  <2>3. QED
    BY <1>3, <2>1, <2>2
<1>6. TextsOK'
  BY <1>1, <1>3, <1>5 DEF SInv, TextsOK
<1>7. QED
  BY <1>2, <1>6

LEMMA CloseKeepsTexts ==
  ASSUME SInv, NEW k \in Positions, Close(k)
  PROVE  TextsOK' /\ SavedOK'
<1>1. accounts' = RemoveAt(accounts, k) /\ UNCHANGED <<file, saved>>
  BY DEF Close
<1>2. SavedOK'
  BY <1>1 DEF SInv, SavedOK
<1> DEFINE S == {accounts[i] : i \in DOMAIN accounts}
<1>3. accounts \in Seq(S) /\ DOMAIN accounts = 1..Len(accounts) /\ k \in 1..Len(accounts)
  BY ListIsFunction DEF SInv, WInv, AccountsOK, IsList, Positions
<1>4. \A x \in S : IsList(NameOf(x))
  BY <1>3 DEF SInv, TextsOK
<1> HIDE DEF S
<1>5. accounts' \in Seq(S)
  BY <1>1, <1>3, RemoveAtSeq
<1>6. \A i \in 1..Len(accounts') : accounts'[i] \in S
  BY <1>5, LenProperties
<1>7. TextsOK'
  BY <1>1, <1>4, <1>6 DEF SInv, TextsOK
<1>8. QED
  BY <1>2, <1>7

LEMMA SaveKeepsTexts ==
  ASSUME SInv, Save
  PROVE  TextsOK' /\ SavedOK'
<1> DEFINE n == Len(geometry)
<1>1. /\ file' = Whole(Document(mode, Names)) /\ saved' = Document(mode, accounts)
      /\ accounts' = accounts /\ geometry # <<>>
  BY DEF Save
<1>2. /\ IsList(accounts) /\ Len(accounts) = n /\ n \in Nat /\ n <= MaxPanes
      /\ geometry \in Seq(Rect)
  BY LenProperties DEF SInv, WInv, LInv, PanesOK, AccountsOK
<1>3. n \in 1..MaxPanes
  BY <1>1, <1>2, EmptySeq, PanesAssumption
<1>4. Len(Names) = n /\ \A k \in 1..n : Names[k] = Reread(NameOf(accounts[k]))
  <2>1. Names = [k \in 1..n |-> Names[k]]
    BY DEF Names, Positions
  <2>2. Len(Names) = n
    BY <1>2, <2>1, FunctionIsList
  <2>3. QED
    BY <2>2 DEF Names, Positions
<1>5. \A k \in 1..n : IsList(NameOf(accounts[k]))
  BY <1>2 DEF SInv, TextsOK
<1> HIDE DEF n
<1>6. \A k \in 1..n : IsList(Names[k])
  BY <1>4, <1>5, NamesReread
<1>7. file'.state = "whole" /\ file'.content = Document(mode, Names)
  BY <1>1 DEF Whole
<1>8. /\ file'.content.mode = mode /\ file'.content.names = Names
      /\ saved'.mode = mode /\ saved'.names = accounts
  BY <1>1, <1>7 DEF Document
<1>9. TextsOK'
  BY <1>1, <1>2, <1>4, <1>5, <1>6, <1>8 DEF TextsOK
<1>10. SavedOK'
  BY <1>2, <1>3, <1>4, <1>5, <1>7, <1>8 DEF SavedOK
<1>11. QED
  BY <1>9, <1>10

\* What a load makes of a whole file.
LEMMA LoadedIs ==
  ASSUME SInv, file.state = "whole", LoadDocument(file.content)
  PROVE  \E n \in Nat :
           /\ n = IF Len(file.content.names) < MaxPanes THEN Len(file.content.names) ELSE MaxPanes
           /\ n <= Len(file.content.names)
           /\ Len(accounts') = n /\ \A k \in 1..n : accounts'[k] = file.content.names[k]
<1> DEFINE names == file.content.names
           n == IF Len(names) < MaxPanes THEN Len(names) ELSE MaxPanes
           S == {names[i] : i \in DOMAIN names}
<1>1. IsList(names)
  BY DEF SInv, WInv, FileOK
<1>2. Len(names) \in Nat /\ names \in Seq(S) /\ MaxPanes \in Nat
  BY <1>1, ListIsFunction, PanesAssumption DEF IsList
<1>3. accounts' = SubSeq(names, 1, n)
  BY DEF LoadDocument
<1>4. n \in Nat /\ n <= Len(names)
  BY <1>2
<1> HIDE DEF S, names
<1>5. \A i \in 1..n : names[i] \in S
  BY <1>2, <1>4, LenProperties
<1> HIDE DEF n
<1>6. /\ Len(SubSeq(names, 1, n)) = IF 1 <= n THEN n - 1 + 1 ELSE 0
      /\ \A i \in 1..(n - 1 + 1) : SubSeq(names, 1, n)[i] = names[1 + i - 1]
  BY <1>4, <1>5, SubSeqProperties
<1>7. n - 1 + 1 = n /\ \A i \in 1..n : 1 + i - 1 = i
  BY <1>4
<1>8. Len(accounts') = n /\ \A i \in 1..n : accounts'[i] = names[i]
  BY <1>3, <1>4, <1>6, <1>7
<1>9. QED
  BY <1>4, <1>8 DEF n, names

LEMMA LoadKeepsTexts ==
  ASSUME SInv, file.state = "whole", LoadDocument(file.content)
  PROVE  TextsOK' /\ SavedOK'
<1>1. UNCHANGED <<file, saved>>
  BY DEF LoadDocument
<1>2. PICK n \in Nat : /\ n <= Len(file.content.names) /\ Len(accounts') = n
                       /\ \A k \in 1..n : accounts'[k] = file.content.names[k]
  BY LoadedIs
<1>3. Len(file.content.names) \in Nat
  BY ListIsFunction DEF SInv, WInv, FileOK
<1>4. \A k \in 1..n : IsList(NameOf(accounts'[k]))
  <2>1. \A k \in 1..n : k \in 1..Len(file.content.names)
    BY <1>2, <1>3
  <2>2. \A k \in 1..n : IsList(file.content.names[k])
    BY <2>1 DEF SInv, TextsOK
  <2>3. QED
    BY <1>2, <2>2, NamesAreTexts
<1>5. TextsOK'
  BY <1>1, <1>2, <1>4 DEF SInv, TextsOK
<1>6. SavedOK'
  BY <1>1 DEF SInv, SavedOK
<1>7. QED
  BY <1>5, <1>6

LEMMA RestartKeepsTexts ==
  ASSUME SInv, Restart
  PROVE  TextsOK' /\ SavedOK'
<1>1. Len(accounts') = 0 /\ 1..0 = {}
  BY NothingIsList DEF Restart
<1>2. CASE file' = file /\ saved' = saved
  BY <1>1, <1>2 DEF SInv, TextsOK, SavedOK
<1>3. CASE file' = Cut /\ saved' = None
  <2>1. file'.state # "whole"
    BY <1>3 DEF Cut
  <2>2. QED
    BY <1>1, <1>3, <2>1 DEF TextsOK, SavedOK
<1>4. QED
  BY <1>2, <1>3 DEF Restart

LEMMA SavedNextKeeps == SInv /\ [Next]_workspaceVars => SInv'
<1> SUFFICES ASSUME SInv, [Next]_workspaceVars PROVE SInv'
  OBVIOUS
<1>1. WInv'
  BY WorkspaceNextKeeps DEF SInv
<1>2. ASSUME UNCHANGED <<accounts, file, saved>> PROVE TextsOK' /\ SavedOK'
  BY <1>2 DEF SInv, TextsOK, SavedOK
<1>3. TextsOK' /\ SavedOK'
  <2>1. CASE \E a \in Account \cup {NoAccount} : New(a)
    BY <2>1, NewKeepsTexts
  <2>2. CASE \E k \in Positions : Close(k)
    BY <2>2, CloseKeepsTexts
  <2>3. CASE LayoutStep /\ UNCHANGED <<accounts, file, saved>>
    BY <1>2, <2>3
  <2>4. CASE Save
    BY <2>4, SaveKeepsTexts
  <2>5. CASE Load
    <3>1. CASE file.state = "whole" /\ LoadDocument(file.content)
      BY <3>1, LoadKeepsTexts
    <3>2. CASE UNCHANGED workspaceVars
      BY <1>2, <3>2 DEF workspaceVars
    <3>3. QED
      BY <2>5, <3>1, <3>2 DEF Load
  <2>6. CASE Restart
    BY <2>6, RestartKeepsTexts
  <2>7. CASE UNCHANGED workspaceVars
    BY <1>2, <2>7 DEF workspaceVars
  <2>8. QED
    BY <2>1, <2>2, <2>3, <2>4, <2>5, <2>6, <2>7 DEF Next
<1>4. QED
  BY <1>1, <1>3 DEF SInv

(***************************************************************************)
(* :load brings back mode and accounts of the last complete :save, however *)
(* many panes there were and whatever plain names they had, over any       *)
(* number of restarts; of a file that is missing or cut it changes         *)
(* nothing.                                                                *)
(***************************************************************************)
THEOREM LoadsWhatWasSaved == Spec => LoadRestores
<1> DEFINE Result == IF saved # None THEN Restored(saved)
                     ELSE file.state # "whole" => UNCHANGED <<layoutVars, accounts>>
<1>1. Spec => []SInv
  BY SavedInitOK, SavedNextKeeps, PTL DEF Spec
<1>2. ASSUME SInv, Load PROVE Result
  <2>1. CASE saved # None
    <3>1. /\ file.state = "whole" /\ file.content.mode = saved.mode
          /\ IsList(saved.names) /\ Len(saved.names) \in 1..MaxPanes
          /\ Len(file.content.names) = Len(saved.names)
          /\ \A k \in 1..Len(saved.names) :
               /\ IsList(NameOf(saved.names[k]))
               /\ file.content.names[k] = Reread(NameOf(saved.names[k]))
      BY <1>2, <2>1 DEF SInv, SavedOK
    <3>2. LoadDocument(file.content)
      BY <1>2, <3>1 DEF Load
    <3>3. PICK n \in Nat :
            /\ n = IF Len(file.content.names) < MaxPanes THEN Len(file.content.names) ELSE MaxPanes
            /\ Len(accounts') = n /\ \A k \in 1..n : accounts'[k] = file.content.names[k]
      BY <1>2, <3>1, <3>2, LoadedIs
    <3>4. n = Len(saved.names) /\ n # 0
      BY <3>1, <3>3, PanesAssumption
    <3>5. mode' = saved.mode /\ focus' = 1
      BY <3>1, <3>2, <3>3, <3>4 DEF LoadDocument
    <3>6. DOMAIN saved.names = 1..n
      BY <3>1, <3>4, ListIsFunction
    <3>7. ASSUME NEW k \in 1..n, Plain(NameOf(saved.names[k]))
          PROVE  accounts'[k] = NameOf(saved.names[k])
      BY <3>1, <3>3, <3>4, <3>7, NamesReread
    <3>8. Restored(saved)
      BY <3>3, <3>4, <3>5, <3>6, <3>7 DEF Restored
    <3>9. QED
      BY <2>1, <3>8
  <2>2. CASE saved = None /\ file.state # "whole"
    BY <1>2, <2>2 DEF Load, workspaceVars, layoutVars
  <2>3. QED
    BY <2>1, <2>2
<1>3. SInv => [Load => Result]_workspaceVars
  BY <1>2
<1>4. QED
  BY <1>1, <1>3, PTL DEF LoadRestores
=============================================================================
