------------------------- MODULE TermEmulatorProofs -------------------------
(***************************************************************************)
(* The invariants of the terminal emulator, for every size of the screen,  *)
(* of the scrollback and of the escape buffer.                             *)
(***************************************************************************)
EXTENDS TermEmulator, TLAPS

\* A cursor with a scrollback that is a ring, anywhere.
Good(c) == c \in Cursor /\ (c.lines < ScrollbackSize => c.pos = c.lines)

OnScreen(c) == c.x \in 0..Width /\ c.y \in Rows

\* d is a cursor, and on the screen if c was, with nothing written outside it.
Follows(c, d) == Good(d) /\ (OnScreen(c) => OnScreen(d) /\ d.bad = c.bad)

RegionOK ==
  /\ scroll_top \in 0..Height-1 /\ scroll_bottom \in 0..Height-1
  /\ RegionOrdered

ParserOK ==
  /\ parser_state \in {"NORMAL", "ESCAPE", "CSI", "OSC", "DCS", "UTF8"}
  /\ escape_len \in 0..BufferSize
  /\ escape_esc \in BOOLEAN
  /\ utf8_remaining \in 0..3
  /\ Utf8Pending

IInv == Good(cur) /\ astray \in BOOLEAN /\ CursorOnScreen /\ RegionOK /\ ParserOK

\* The next position of a ring, without the remainder.
LEMMA RingStep ==
  ASSUME NEW n \in Nat \ {0}, NEW i \in 0..n-1
  PROVE  (i + 1) % n = IF i + 1 = n THEN 0 ELSE i + 1
<1>1. CASE i + 1 = n
  BY <1>1
<1>2. CASE i + 1 # n
  <2>1. i + 1 \in 0..n-1
    BY <1>2
  <2>2. QED
    BY <1>2, <2>1
<1>3. QED
  BY <1>1, <1>2

\* A sum of two numbers that goes around is a number, and one that does not is the sum.
LEMMA WrapInt ==
  ASSUME NEW n \in -2*MaxInt-2..2*MaxInt+1
  PROVE  Wrap(n) \in IntRange /\ (n \in IntRange => Wrap(n) = n)
BY MaxIntAssumption DEF Wrap, IntRange

LEMMA ScrollUpGood ==
  ASSUME NEW c, Good(c)
  PROVE  /\ Good(ScrollUp(c))
         /\ ScrollUp(c).x = c.x /\ ScrollUp(c).y = c.y /\ ScrollUp(c).bad = c.bad
<1>1. (c.pos + 1) % ScrollbackSize =
        IF c.pos + 1 = ScrollbackSize THEN 0 ELSE c.pos + 1
  BY RingStep, ScrollbackAssumption DEF Good, Cursor
<1> DEFINE pos   == (c.pos + 1) % ScrollbackSize
           lines == AtMost(c.lines + 1, ScrollbackSize)
<1>2. /\ pos \in 0..ScrollbackSize-1 /\ lines \in 0..ScrollbackSize
      /\ lines < ScrollbackSize => pos = lines
  BY <1>1, ScrollbackAssumption DEF Good, Cursor, AtMost
<1>3. ScrollUp(c) = [c EXCEPT !.pos = pos, !.lines = lines]
  BY DEF ScrollUp
<1> HIDE DEF pos, lines
<1>4. QED
  BY <1>2, <1>3 DEF Good, Cursor

\* A coordinate of a cursor may be set to any number; the rest of it is as it was.
LEMMA PlaceX ==
  ASSUME NEW c, Good(c), NEW x \in IntRange
  PROVE  LET d == [c EXCEPT !.x = x]
         IN  Good(d) /\ d.x = x /\ d.y = c.y /\ d.bad = c.bad
BY DEF Good, Cursor

LEMMA PlaceY ==
  ASSUME NEW c, Good(c), NEW y \in IntRange
  PROVE  LET d == [c EXCEPT !.y = y]
         IN  Good(d) /\ d.x = c.x /\ d.y = y /\ d.bad = c.bad
BY DEF Good, Cursor

LEMMA RowIsInt ==
  ASSUME NEW y \in 0..Height-1
  PROVE  y \in IntRange
BY HeightAssumption, MaxIntAssumption DEF IntRange

LEMMA ColumnIsInt ==
  ASSUME NEW x \in 0..Width
  PROVE  x \in IntRange
BY WidthAssumption, MaxIntAssumption DEF IntRange

LEMMA DownFollows ==
  ASSUME NEW c, Good(c), RegionOK
  PROVE  Follows(c, Down(c)) /\ Down(c).x = c.x /\ Down(c).bad = c.bad
<1> DEFINE below == Wrap(c.y + 1)
<1>1. c.y \in IntRange
  BY DEF Good, Cursor
<1>2. /\ c.y + 1 \in -2*MaxInt-2..2*MaxInt+1
      /\ c.y \in Rows => c.y + 1 \in IntRange
  BY <1>1, HeightAssumption, MaxIntAssumption DEF IntRange, Rows
<1>3. /\ below \in IntRange
      /\ c.y \in Rows => below = c.y + 1
  BY <1>2, WrapInt
<1> HIDE DEF below
<1>4. CASE below > scroll_bottom
  <2> DEFINE s == ScrollUp(c)
  <2>1. Good(s) /\ s.x = c.x /\ s.bad = c.bad
    BY ScrollUpGood
  <2>2. Down(c) = [s EXCEPT !.y = scroll_bottom]
    BY <1>4 DEF Down, below
  <2>3. scroll_bottom \in Rows /\ scroll_bottom \in IntRange
    BY RowIsInt DEF RegionOK, Rows
  <2> HIDE DEF s
  <2>4. QED
    BY <2>1, <2>2, <2>3, PlaceY DEF Follows, OnScreen
<1>5. CASE ~(below > scroll_bottom)
  <2>1. Down(c) = [c EXCEPT !.y = below]
    BY <1>5 DEF Down, below
  <2>2. c.y \in Rows => below \in Rows
    BY <1>3, <1>5, HeightAssumption DEF RegionOK, Rows
  <2>3. QED
    BY <1>3, <2>1, <2>2, PlaceY DEF Follows, OnScreen
<1>6. QED
  BY <1>4, <1>5

LEMMA NextLineFollows ==
  ASSUME NEW c, Good(c), RegionOK
  PROVE  Follows(c, NextLine(c)) /\ NextLine(c).x = 0 /\ NextLine(c).bad = c.bad
<1> DEFINE d == Down(c)
<1>1. Follows(c, d) /\ d.bad = c.bad
  BY DownFollows
<1>2. NextLine(c) = [d EXCEPT !.x = 0]
  BY DEF NextLine
<1>3. 0 \in 0..Width /\ 0 \in IntRange
  BY ColumnIsInt, WidthAssumption
<1> HIDE DEF d
<1>4. QED
  BY <1>1, <1>2, <1>3, PlaceX DEF Follows, OnScreen

\* Whether something was written outside the screen does not move the cursor.
LEMMA TouchGood ==
  ASSUME NEW c, Good(c), NEW cells
  PROVE  /\ Good(Touch(c, cells))
         /\ Touch(c, cells).x = c.x /\ Touch(c, cells).y = c.y
         /\ cells \subseteq Screen => Touch(c, cells).bad = c.bad
<1>1. PICK bad \in BOOLEAN : bad = (c.bad \/ ~(cells \subseteq Screen))
  OBVIOUS
<1>2. Touch(c, cells) = [c EXCEPT !.bad = bad]
  BY <1>1, Zenon DEF Touch
<1>3. cells \subseteq Screen => bad = c.bad
  <2>1. c.bad \in BOOLEAN
    BY DEF Good, Cursor
  <2>2. QED
    BY <1>1, <2>1, Zenon
<1>4. /\ Good([c EXCEPT !.bad = bad])
      /\ [c EXCEPT !.bad = bad].x = c.x
      /\ [c EXCEPT !.bad = bad].y = c.y
      /\ [c EXCEPT !.bad = bad].bad = bad
  BY <1>1 DEF Good, Cursor
<1>5. QED
  BY <1>2, <1>3, <1>4, Zenon

LEMMA GlyphFollows ==
  ASSUME NEW c, Good(c), RegionOK
  PROVE  Follows(c, WriteGlyph(c))
<1> DEFINE d == IF c.x >= Width THEN NextLine(c) ELSE c
           t == Touch(d, {<<d.x, d.y>>})
<1>1. Follows(c, d) /\ d.x \in IntRange /\ d.x < Width
  BY NextLineFollows, WidthAssumption DEF Good, Cursor, Follows, IntRange
<1>2. WriteGlyph(c) = [t EXCEPT !.x = Wrap(d.x + 1)]
  BY DEF WriteGlyph
<1>3. Good(t) /\ t.x = d.x /\ t.y = d.y
  BY <1>1, TouchGood DEF Follows
<1>4. OnScreen(c) => OnScreen(d) /\ t.bad = c.bad
  <2> SUFFICES ASSUME OnScreen(c) PROVE OnScreen(d) /\ t.bad = c.bad
    OBVIOUS
  <2>1. OnScreen(d) /\ d.bad = c.bad
    BY <1>1 DEF Follows
  <2>2. d.x \in Columns
    BY <1>1, <2>1, WidthAssumption DEF OnScreen, Columns
  <2>3. {<<d.x, d.y>>} \subseteq Screen
    BY <2>1, <2>2 DEF OnScreen, Screen
  <2>4. QED
    BY <1>1, <2>1, <2>3, TouchGood DEF Follows
<1>5. /\ Wrap(d.x + 1) \in IntRange
      /\ d.x \in 0..Width => Wrap(d.x + 1) \in 0..Width
  <2>1. /\ d.x + 1 \in -2*MaxInt-2..2*MaxInt+1
        /\ d.x \in 0..Width => d.x + 1 \in IntRange /\ d.x + 1 \in 0..Width
    BY <1>1, WidthAssumption, MaxIntAssumption DEF IntRange
  <2>2. QED
    BY <2>1, WrapInt
<1> HIDE DEF d, t
<1>6. QED
  BY <1>2, <1>3, <1>4, <1>5, PlaceX DEF Follows, OnScreen

LEMMA NextStop ==
  ASSUME NEW x \in Nat
  PROVE  ((x + TabWidth - 1) \div TabWidth) * TabWidth \in Nat
<1>1. (x + TabWidth - 1) \div TabWidth \in Nat
  BY TabAssumption
<1> DEFINE q == (x + TabWidth - 1) \div TabWidth
<1> HIDE DEF q
<1>2. q \in Nat => q * TabWidth \in Nat
  BY TabAssumption
<1>3. QED
  BY <1>1, <1>2 DEF q

LEMMA TabFollows ==
  ASSUME NEW c, Good(c), RegionOK
  PROVE  Follows(c, Tab(c))
<1> DEFINE x    == Wrap(c.x + 1)
           next == ((x + TabWidth - 1) \div TabWidth) * TabWidth
<1>1. c.x \in IntRange
  BY DEF Good, Cursor
<1>2. x \in IntRange /\ (OnScreen(c) => x >= 0)
  <2>1. /\ c.x + 1 \in -2*MaxInt-2..2*MaxInt+1
        /\ c.x \in 0..Width => c.x + 1 \in IntRange /\ c.x + 1 >= 0
    BY <1>1, WidthAssumption, MaxIntAssumption DEF IntRange
  <2>2. QED
    BY <2>1, WrapInt DEF OnScreen
<1>3. Tab(c) = IF x < 0 THEN [c EXCEPT !.bad = TRUE]
               ELSE IF next >= Width THEN NextLine(c) ELSE [c EXCEPT !.x = next]
  BY DEF Tab
<1>4. x >= 0 => next \in Nat
  <2>1. x >= 0 => x \in Nat
    BY <1>2 DEF IntRange
  <2>2. QED
    BY <2>1, NextStop
<1> HIDE DEF x, next
<1>5. CASE x < 0
  <2>1. ~OnScreen(c)
    BY <1>2, <1>5 DEF IntRange
  <2>2. Good([c EXCEPT !.bad = TRUE])
    BY DEF Good, Cursor
  <2>3. QED
    BY <1>3, <1>5, <2>1, <2>2 DEF Follows
<1>6. CASE ~(x < 0) /\ next >= Width
  BY <1>3, <1>6, NextLineFollows
<1>7. CASE ~(x < 0) /\ ~(next >= Width)
  <2>1. next \in 0..Width
    BY <1>2, <1>4, <1>7, WidthAssumption DEF IntRange
  <2>2. next \in IntRange
    BY <2>1, ColumnIsInt
  <2>3. Tab(c) = [c EXCEPT !.x = next]
    BY <1>3, <1>7
  <2>4. QED
    BY <2>1, <2>2, <2>3, PlaceX DEF Follows, OnScreen
<1>8. QED
  BY <1>5, <1>6, <1>7

LEMMA WriteCharFollows ==
  ASSUME NEW c, NEW byte \in Byte, Good(c), RegionOK
  PROVE  Follows(c, WriteChar(c, byte))
<1>1. CASE byte = "cr"
  <2>1. 0 \in 0..Width /\ 0 \in IntRange
    BY WidthAssumption, ColumnIsInt
  <2>2. WriteChar(c, byte) = [c EXCEPT !.x = 0]
    BY <1>1 DEF WriteChar
  <2>3. QED
    BY <2>1, <2>2, PlaceX DEF Follows, OnScreen
<1>2. CASE byte = "lf"
  BY <1>2, DownFollows DEF WriteChar
<1>3. CASE byte = "tab"
  BY <1>3, TabFollows DEF WriteChar
<1>4. CASE byte = "bs"
  <2>1. /\ AtLeast(c.x - 1, 0) \in IntRange
        /\ c.x \in 0..Width => AtLeast(c.x - 1, 0) \in 0..Width
    BY WidthAssumption, MaxIntAssumption DEF Good, Cursor, IntRange, AtLeast
  <2>2. WriteChar(c, byte) = [c EXCEPT !.x = AtLeast(c.x - 1, 0)]
    BY <1>4 DEF WriteChar
  <2>3. QED
    BY <2>1, <2>2, PlaceX DEF Follows, OnScreen
<1>5. CASE byte = "bel"
  BY <1>5 DEF WriteChar, Follows
<1>6. CASE byte \notin {"cr", "lf", "tab", "bs", "bel"}
  BY <1>6, GlyphFollows DEF WriteChar
<1>7. QED
  BY <1>1, <1>2, <1>3, <1>4, <1>5, <1>6

\* A cursor that follows the present one, with the same judgement of it, keeps the part of
\* the invariant that speaks of cursors.
LEMMA CursorKept ==
  ASSUME IInv, Follows(cur, cur'), UNCHANGED astray
  PROVE  (Good(cur) /\ astray \in BOOLEAN /\ CursorOnScreen)'
BY DEF IInv, Follows, Good, OnScreen, CursorOnScreen, Rows

LEMMA NormalFollows ==
  ASSUME NEW c, NEW byte \in Byte, Good(c), RegionOK, ParserOK, Normal(c, byte)
  PROVE  Follows(c, cur') /\ RegionOK' /\ ParserOK'
<1>1. Follows(c, cur')
  <2>1. CASE cur' = c
    BY <2>1 DEF Follows
  <2>2. CASE cur' = WriteChar(c, byte)
    BY <2>2, WriteCharFollows
  <2>3. QED
    BY <2>1, <2>2 DEF Normal
<1>2. RegionOK'
  BY DEF Normal, region, RegionOK, RegionOrdered
<1>3. ParserOK'
  BY BufferAssumption DEF Normal, Enter, ParserOK, Utf8Pending
<1>4. QED
  BY <1>1, <1>2, <1>3

\* What a relative movement asks for is a number, whatever it asks for.
LEMMA SumInt ==
  ASSUME NEW n \in IntRange, NEW p \in IntRange
  PROVE  /\ Wrap(n + p) \in IntRange /\ Wrap(n - p) \in IntRange
         /\ n + p \in IntRange => Wrap(n + p) = n + p
         /\ n - p \in IntRange => Wrap(n - p) = n - p
<1>1. n + p \in -2*MaxInt-2..2*MaxInt+1 /\ n - p \in -2*MaxInt-2..2*MaxInt+1
  BY MaxIntAssumption DEF IntRange
<1>2. QED
  BY <1>1, WrapInt

\* A movement ends on the screen if it places the cursor, or if it starts there and
\* nothing overflows.
LEMMA MoveStays ==
  ASSUME NEW byte \in Byte, NEW p1 \in IntRange, NEW p2 \in IntRange, Good(cur)
  PROVE  LET d == Move(byte, p1, p2)
         IN  /\ Good(d) /\ d.bad = cur.bad
             /\ \/ Absolute(byte, p1)
                \/ OnScreen(cur) /\ ~Overflows(byte, p1)
                => OnScreen(d)
<1> DEFINE d == Move(byte, p1, p2)
<1>1. cur.x \in IntRange /\ cur.y \in IntRange
  BY DEF Good, Cursor
<1>2. CASE byte = "A"
  <2> DEFINE y == AtLeast(Wrap(cur.y - p1), 0)
  <2>1. y \in IntRange
    BY <1>1, SumInt, MaxIntAssumption DEF AtLeast, IntRange
  <2>2. cur.y \in Rows /\ ~(p1 < 0) => y \in Rows
    <3>1. cur.y \in Rows /\ ~(p1 < 0) => cur.y - p1 \in IntRange /\ cur.y - p1 < Height
      BY HeightAssumption, MaxIntAssumption DEF Rows, IntRange
    <3>2. cur.y \in Rows /\ ~(p1 < 0) => Wrap(cur.y - p1) = cur.y - p1
      BY <1>1, <3>1, SumInt
    <3>3. QED
      BY <3>1, <3>2, HeightAssumption DEF Rows, AtLeast, IntRange
  <2>3. d = [cur EXCEPT !.y = y] /\ ~Absolute(byte, p1)
    BY <1>2 DEF Move, Absolute
  <2>4. Overflows(byte, p1) <=> p1 < 0
    BY <1>2 DEF Overflows
  <2> HIDE DEF y, d
  <2>5. QED
    BY <2>1, <2>2, <2>3, <2>4, PlaceY DEF OnScreen, d
<1>3. CASE byte = "B"
  <2> DEFINE y == AtMost(Wrap(cur.y + p1), Height - 1)
  <2>1. y \in IntRange
    BY <1>1, SumInt, HeightAssumption, MaxIntAssumption DEF AtMost, IntRange
  <2>2. cur.y \in Rows /\ ~(p1 < 0) /\ ~(cur.y + p1 > MaxInt) => y \in Rows
    <3>1. cur.y \in Rows /\ ~(p1 < 0) /\ ~(cur.y + p1 > MaxInt)
            => cur.y + p1 \in IntRange /\ cur.y + p1 >= 0
      BY HeightAssumption, MaxIntAssumption DEF Rows, IntRange
    <3>2. cur.y \in Rows /\ ~(p1 < 0) /\ ~(cur.y + p1 > MaxInt)
            => Wrap(cur.y + p1) = cur.y + p1
      BY <1>1, <3>1, SumInt
    <3>3. QED
      BY <3>1, <3>2, HeightAssumption DEF Rows, AtMost, IntRange
  <2>3. d = [cur EXCEPT !.y = y] /\ ~Absolute(byte, p1)
    BY <1>3 DEF Move, Absolute
  <2>4. Overflows(byte, p1) <=> p1 < 0 \/ cur.y + p1 > MaxInt
    BY <1>3 DEF Overflows
  <2> HIDE DEF y, d
  <2>5. QED
    BY <2>1, <2>2, <2>3, <2>4, PlaceY DEF OnScreen, d
<1>4. CASE byte = "C"
  <2> DEFINE x == AtMost(Wrap(cur.x + p1), Width - 1)
  <2>1. x \in IntRange
    BY <1>1, SumInt, WidthAssumption, MaxIntAssumption DEF AtMost, IntRange
  <2>2. cur.x \in 0..Width /\ ~(p1 < 0) /\ ~(cur.x + p1 > MaxInt) => x \in 0..Width
    <3>1. cur.x \in 0..Width /\ ~(p1 < 0) /\ ~(cur.x + p1 > MaxInt)
            => cur.x + p1 \in IntRange /\ cur.x + p1 >= 0
      BY WidthAssumption, MaxIntAssumption DEF IntRange
    <3>2. cur.x \in 0..Width /\ ~(p1 < 0) /\ ~(cur.x + p1 > MaxInt)
            => Wrap(cur.x + p1) = cur.x + p1
      BY <1>1, <3>1, SumInt
    <3>3. QED
      BY <3>1, <3>2, WidthAssumption DEF AtMost, IntRange
  <2>3. d = [cur EXCEPT !.x = x] /\ ~Absolute(byte, p1)
    BY <1>4 DEF Move, Absolute
  <2>4. Overflows(byte, p1) <=> p1 < 0 \/ cur.x + p1 > MaxInt
    BY <1>4 DEF Overflows
  <2> HIDE DEF x, d
  <2>5. QED
    BY <2>1, <2>2, <2>3, <2>4, PlaceX DEF OnScreen, d
<1>5. CASE byte = "D"
  <2> DEFINE x == AtLeast(Wrap(cur.x - p1), 0)
  <2>1. x \in IntRange
    BY <1>1, SumInt, MaxIntAssumption DEF AtLeast, IntRange
  <2>2. cur.x \in 0..Width /\ ~(p1 < 0) => x \in 0..Width
    <3>1. cur.x \in 0..Width /\ ~(p1 < 0) => cur.x - p1 \in IntRange /\ cur.x - p1 <= Width
      BY WidthAssumption, MaxIntAssumption DEF IntRange
    <3>2. cur.x \in 0..Width /\ ~(p1 < 0) => Wrap(cur.x - p1) = cur.x - p1
      BY <1>1, <3>1, SumInt
    <3>3. QED
      BY <3>1, <3>2, WidthAssumption DEF AtLeast, IntRange
  <2>3. d = [cur EXCEPT !.x = x] /\ ~Absolute(byte, p1)
    BY <1>5 DEF Move, Absolute
  <2>4. Overflows(byte, p1) <=> p1 < 0
    BY <1>5 DEF Overflows
  <2> HIDE DEF x, d
  <2>5. QED
    BY <2>1, <2>2, <2>3, <2>4, PlaceX DEF OnScreen, d
<1>6. CASE byte = "H"
  <2> DEFINE y == IF p1 > 0 THEN AtMost(p1 - 1, Height - 1) ELSE 0
             x == IF p2 > 0 THEN AtMost(p2 - 1, Width - 1) ELSE 0
  <2>1. y \in 0..Height-1
    BY HeightAssumption DEF AtMost, IntRange
  <2>2. x \in 0..Width
    BY WidthAssumption DEF AtMost, IntRange
  <2>3. x \in IntRange /\ y \in IntRange
    BY <2>1, <2>2, RowIsInt, ColumnIsInt
  <2>4. d = [cur EXCEPT !.x = x, !.y = y]
    <3>1. d = [cur EXCEPT !.y = y, !.x = x]
      BY <1>6 DEF Move
    <3>2. QED
      BY <3>1 DEF Good, Cursor
  <2> HIDE DEF x, y, d
  <2>5. Good(d) /\ d.x = x /\ d.y = y /\ d.bad = cur.bad
    BY <2>3, <2>4 DEF Good, Cursor
  <2>6. QED
    BY <2>1, <2>2, <2>5 DEF OnScreen, Rows, d
<1>7. CASE byte = "J" /\ p1 = 2
  <2>1. 0 \in 0..Width /\ 0 \in Rows /\ 0 \in IntRange
    BY WidthAssumption, HeightAssumption, ColumnIsInt DEF Rows
  <2>2. d = [cur EXCEPT !.x = 0, !.y = 0]
    BY <1>7 DEF Move
  <2> HIDE DEF d
  <2>3. Good(d) /\ d.x = 0 /\ d.y = 0 /\ d.bad = cur.bad
    BY <2>1, <2>2 DEF Good, Cursor
  <2>4. QED
    BY <2>1, <2>3 DEF OnScreen, d
<1>8. CASE byte \notin {"A", "B", "C", "D", "H"} /\ ~(byte = "J" /\ p1 = 2)
  <2>1. d = cur /\ ~Absolute(byte, p1)
    BY <1>8 DEF Move, Absolute
  <2> HIDE DEF d
  <2>2. QED
    BY <2>1 DEF d
<1>9. QED
  BY <1>2, <1>3, <1>4, <1>5, <1>6, <1>7, <1>8

\* What is erased from a cursor on the screen is on the screen, unless its wrap is
\* pending.
LEMMA ErasedOnScreen ==
  ASSUME NEW byte \in Byte, NEW p1 \in IntRange, Good(cur), OnScreen(cur), cur.x # Width
  PROVE  Erased(byte, p1) \subseteq Screen
<1> DEFINE line == CASE p1 = 0 -> (cur.x..Width-1) \X {cur.y}
                     [] p1 = 1 -> (0..cur.x) \X {cur.y}
                     [] OTHER  -> Columns \X {cur.y}
<1>1. cur.x \in Columns /\ cur.y \in Rows
  BY WidthAssumption DEF OnScreen, Columns
<1>2. cur.x..Width-1 \subseteq Columns /\ 0..cur.x \subseteq Columns
  BY <1>1, WidthAssumption DEF Columns
<1>3. line \subseteq Screen
  BY <1>1, <1>2 DEF Screen
<1>4. Wrap(cur.y + 1) = cur.y + 1
  <2>1. cur.y + 1 \in IntRange /\ cur.y + 1 \in -2*MaxInt-2..2*MaxInt+1
    BY <1>1, HeightAssumption, MaxIntAssumption DEF Rows, IntRange
  <2>2. QED
    BY <2>1, WrapInt
<1>5. Wrap(cur.y + 1)..Height-1 \subseteq Rows /\ 0..cur.y-1 \subseteq Rows
  BY <1>1, <1>4, HeightAssumption DEF Rows
<1>6. /\ Columns \X (Wrap(cur.y + 1)..Height-1) \subseteq Screen
      /\ Columns \X (0..cur.y-1) \subseteq Screen
  BY <1>5 DEF Screen
<1>7. \/ Erased(byte, p1) = line
      \/ Erased(byte, p1) = line \cup (Columns \X (Wrap(cur.y + 1)..Height-1))
      \/ Erased(byte, p1) = line \cup (Columns \X (0..cur.y-1))
      \/ Erased(byte, p1) = {}
  <2> DEFINE rest  == Columns \X (Wrap(cur.y + 1)..Height-1)
             first == Columns \X (0..cur.y-1)
  <2> HIDE DEF line, rest, first
  <2>1. Erased(byte, p1) =
          CASE byte = "K" /\ p1 \in 0..2 -> line
            [] byte = "J" /\ p1 = 0 -> line \cup rest
            [] byte = "J" /\ p1 = 1 -> line \cup first
            [] OTHER -> {}
    BY Zenon DEF Erased, line, rest, first
  <2>2. QED
    BY <2>1, Zenon DEF rest, first
<1> HIDE DEF line
<1>8. QED
  BY <1>3, <1>6, <1>7

LEMMA SetRegionOK ==
  ASSUME NEW p1 \in IntRange, NEW p2 \in IntRange, SetRegion(p1, p2)
  PROVE  RegionOK'
BY HeightAssumption, MaxIntAssumption
   DEF SetRegion, AtMost, AtLeast, Wrap, IntRange, RegionOK, RegionOrdered

LEMMA StoreOK ==
  ASSUME NEW byte \in Byte, ParserOK, Store(byte)
  PROVE  escape_len' \in 0..BufferSize /\ escape_esc' \in BOOLEAN
<1>1. escape_len' \in 0..BufferSize
  BY BufferAssumption DEF Store, KeepBuffer, ParserOK
<1>2. escape_esc' = escape_esc \/ escape_esc' = (byte = "esc")
  BY DEF Store, KeepBuffer
<1>3. escape_esc' \in BOOLEAN
  BY <1>2, Zenon DEF ParserOK
<1>4. QED
  BY <1>1, <1>3

LEMMA ParamsInt ==
  ASSUME NEW byte \in Byte, NEW p \in Params(byte)
  PROVE  p[1] \in IntRange /\ p[2] \in IntRange
<1>1. 0 \in IntRange /\ 1 \in IntRange
  BY MaxIntAssumption, WidthAssumption DEF IntRange
<1>2. QED
  BY <1>1 DEF Params

THEOREM Invariance == Spec => []IInv
<1>1. Init => IInv
  <2> SUFFICES ASSUME Init PROVE IInv
    OBVIOUS
  <2>1. 0 \in 0..Width /\ 0 \in Rows /\ 0 \in IntRange
    BY WidthAssumption, HeightAssumption, ColumnIsInt DEF Rows
  <2>2. Good(cur) /\ CursorOnScreen
    BY <2>1, ScrollbackAssumption DEF Init, Good, Cursor, CursorOnScreen
  <2>3. RegionOK
    BY HeightAssumption DEF Init, RegionOK, RegionOrdered
  <2>4. ParserOK
    <3>1. escape_esc \in BOOLEAN
      BY DEF Init
    <3>2. escape_len \in 0..BufferSize /\ utf8_remaining \in 0..3
      BY BufferAssumption DEF Init
    <3>3. QED
      BY <3>1, <3>2 DEF Init, ParserOK, Utf8Pending
  <2>5. astray \in BOOLEAN
    BY DEF Init
  <2>6. QED
    BY <2>2, <2>3, <2>4, <2>5 DEF IInv
<1>2. IInv /\ [Next]_vars => IInv'
  <2> SUFFICES ASSUME IInv, [Next]_vars PROVE IInv'
    OBVIOUS
  <2>0. Good(cur) /\ CursorOnScreen /\ RegionOK /\ ParserOK /\ Follows(cur, cur)
    BY DEF IInv, Follows
  <2>1. CASE UNCHANGED vars
    BY <2>1 DEF vars, region, parser, IInv, Good, CursorOnScreen, RegionOK, RegionOrdered,
                ParserOK, Utf8Pending
  <2>2. ASSUME NEW byte \in Byte, Process(byte) PROVE IInv'
    <3>1. CASE parser_state = "NORMAL" /\ Normal(cur, byte) /\ UNCHANGED astray
      <4>1. Follows(cur, cur') /\ RegionOK' /\ ParserOK'
        BY <2>0, <3>1, NormalFollows
      <4>2. QED
        BY <3>1, <4>1, CursorKept DEF IInv
    <3>2. CASE parser_state = "ESCAPE" /\ StartString(byte) /\ UNCHANGED astray
      <4>1. Follows(cur, cur') /\ RegionOK'
        BY <2>0, <3>2 DEF StartString, region, RegionOK, RegionOrdered
      <4>2. ParserOK'
        BY <2>0, <3>2, BufferAssumption DEF StartString, Enter, ParserOK, Utf8Pending
      <4>3. QED
        BY <3>2, <4>1, <4>2, CursorKept DEF IInv
    <3>3. CASE parser_state = "ESCAPE" /\ SingleEscape(byte) /\ UNCHANGED astray
      <4>1. Follows(cur, cur')
        <5>1. Follows(cur, Down(cur)) /\ Follows(cur, NextLine(cur))
          BY <2>0, DownFollows, NextLineFollows
        <5> DEFINE y == AtLeast(Wrap(cur.y - 1), scroll_top)
        <5>2. y \in IntRange /\ (cur.y \in Rows => y \in Rows)
          <6>1. cur.y \in IntRange /\ scroll_top \in Rows /\ scroll_top \in IntRange
            BY <2>0, RowIsInt DEF Good, Cursor, RegionOK, Rows
          <6>2. 1 \in IntRange /\ (cur.y \in Rows => cur.y - 1 \in IntRange)
            BY WidthAssumption, HeightAssumption, MaxIntAssumption DEF IntRange, Rows
          <6>3. /\ Wrap(cur.y - 1) \in IntRange
                /\ cur.y \in Rows => Wrap(cur.y - 1) = cur.y - 1
            BY <6>1, <6>2, SumInt
          <6>4. QED
            BY <6>1, <6>3, HeightAssumption DEF AtLeast, IntRange, Rows
        <5> HIDE DEF y
        <5>3. Follows(cur, [cur EXCEPT !.y = y])
          BY <2>0, <5>2, PlaceY DEF Follows, OnScreen
        <5>4. \/ cur' = Down(cur)
              \/ cur' = [cur EXCEPT !.y = y]
              \/ cur' = NextLine(cur)
              \/ cur' = cur
          BY <3>3 DEF SingleEscape, y
        <5>5. QED
          BY <2>0, <5>1, <5>3, <5>4
      <4>2. RegionOK'
        BY <2>0, <3>3 DEF SingleEscape, region, RegionOK, RegionOrdered
      <4>3. ParserOK'
        BY <2>0, <3>3 DEF SingleEscape, Enter, KeepBuffer, ParserOK, Utf8Pending
      <4>4. QED
        BY <3>3, <4>1, <4>2, <4>3, CursorKept DEF IInv
    <3>4. CASE parser_state = "CSI" /\ CsiParameter(byte) /\ UNCHANGED astray
      <4>1. Follows(cur, cur') /\ RegionOK'
        BY <2>0, <3>4 DEF CsiParameter, region, RegionOK, RegionOrdered
      <4>2. ParserOK'
        BY <2>0, <3>4, StoreOK DEF CsiParameter, ParserOK, Utf8Pending
      <4>3. QED
        BY <3>4, <4>1, <4>2, CursorKept DEF IInv
    <3>5. CASE parser_state = "CSI" /\ CsiEnd(byte)
      <4>1. ParserOK'
        BY <2>0, <3>5, StoreOK DEF CsiEnd, Enter, ParserOK, Utf8Pending
      <4>2. CASE UNCHANGED <<cur, region, astray>>
        <5>1. Follows(cur, cur') /\ RegionOK'
          BY <2>0, <4>2 DEF region, RegionOK, RegionOrdered
        <5>2. QED
          BY <4>1, <4>2, <5>1, CursorKept DEF IInv
      <4>3. ASSUME NEW p \in Params(byte), SetRegion(p[1], p[2]), UNCHANGED <<cur, astray>>
            PROVE  IInv'
        <5>1. RegionOK'
          BY <4>3, ParamsInt, SetRegionOK
        <5>2. Follows(cur, cur')
          BY <2>0, <4>3
        <5>3. QED
          BY <4>1, <4>3, <5>1, <5>2, CursorKept DEF IInv
      <4>4. ASSUME NEW p \in Params(byte), UNCHANGED region,
                   cur' = Touch(Move(byte, p[1], p[2]), Erased(byte, p[1])),
                   astray' = (~Absolute(byte, p[1]) /\ (astray \/ Overflows(byte, p[1])))
            PROVE  IInv'
        <5> DEFINE d == Move(byte, p[1], p[2])
        <5>1. /\ Good(d)
              /\ \/ Absolute(byte, p[1])
                 \/ OnScreen(cur) /\ ~Overflows(byte, p[1])
                 => OnScreen(d)
          BY <2>0, ParamsInt, MoveStays
        <5>2. Good(cur') /\ cur'.x = d.x /\ cur'.y = d.y
          BY <4>4, <5>1, TouchGood
        <5>3. astray' \in BOOLEAN
          BY <4>4, Zenon
        <5>4. ~astray' => Absolute(byte, p[1]) \/ (~astray /\ ~Overflows(byte, p[1]))
          BY <4>4, Zenon
        <5> HIDE DEF d
        <5>5. CursorOnScreen'
          BY <2>0, <5>1, <5>2, <5>4 DEF CursorOnScreen, OnScreen, Rows
        <5>6. RegionOK'
          BY <2>0, <4>4 DEF region, RegionOK, RegionOrdered
        <5>7. Good(cur)'
          BY <5>2 DEF Good, Cursor, IntRange
        <5>8. QED
          BY <4>1, <5>3, <5>5, <5>6, <5>7 DEF IInv
      <4>5. QED
        BY <3>5, <4>2, <4>3, <4>4 DEF CsiEnd
    <3>6. CASE parser_state \in {"OSC", "DCS"} /\ String(byte) /\ UNCHANGED astray
      <4>1. Follows(cur, cur') /\ RegionOK'
        BY <2>0, <3>6 DEF String, region, RegionOK, RegionOrdered
      <4>2. ParserOK'
        BY <2>0, <3>6, StoreOK DEF String, Enter, KeepBuffer, ParserOK, Utf8Pending
      <4>3. QED
        BY <3>6, <4>1, <4>2, CursorKept DEF IInv
    <3>7. CASE parser_state = "UTF8" /\ Utf8Continues(byte) /\ UNCHANGED astray
      <4>1. Follows(cur, cur')
        BY <2>0, <3>7, GlyphFollows DEF Utf8Continues
      <4>2. RegionOK'
        BY <2>0, <3>7 DEF Utf8Continues, region, RegionOK, RegionOrdered
      <4>3. ParserOK'
        BY <2>0, <3>7 DEF Utf8Continues, Enter, KeepBuffer, ParserOK, Utf8Pending
      <4>4. QED
        BY <3>7, <4>1, <4>2, <4>3, CursorKept DEF IInv
    <3>8. CASE parser_state = "UTF8" /\ Utf8Broken(byte) /\ UNCHANGED astray
      <4> DEFINE c == WriteGlyph(cur)
      <4>1. Follows(cur, c)
        BY <2>0, GlyphFollows
      <4>2. Normal(c, byte)
        BY <3>8 DEF Utf8Broken
      <4> HIDE DEF c
      <4>3. Follows(c, cur') /\ RegionOK' /\ ParserOK'
        BY <2>0, <4>1, <4>2, NormalFollows DEF Follows
      <4>4. Follows(cur, cur')
        BY <4>1, <4>3 DEF Follows
      <4>5. QED
        BY <3>8, <4>3, <4>4, CursorKept DEF IInv
    <3>9. QED
      BY <2>2, <3>1, <3>2, <3>3, <3>4, <3>5, <3>6, <3>7, <3>8 DEF Process
  <2>3. QED
    BY <2>1, <2>2 DEF Next
<1>3. QED
  BY <1>1, <1>2, PTL DEF Spec

\* The child can take the cursor off the screen only with a relative movement that
\* overflows an int: every other byte, at any width of the int, keeps it on the screen it
\* was allocated for, and an absolute movement brings it back.
THEOREM StaysOnScreen == Spec => []CursorOnScreen
<1>1. IInv => CursorOnScreen
  BY DEF IInv
<1>2. QED
  BY <1>1, Invariance, PTL

\* A step without a cursor astray writes outside the screen only where a line is erased
\* up to a cursor whose wrap is pending.
THEOREM WritesStayOnScreen == Spec => WritesOnScreen
<1> DEFINE Outside == cur'.bad => astray \/ (cur.x = Width /\ parser_state = "CSI")
<1>1. IInv /\ Next => Outside
  <2> SUFFICES ASSUME IInv, NEW byte \in Byte, Process(byte), ~astray,
                      ~(cur.x = Width /\ parser_state = "CSI")
               PROVE  ~cur'.bad
    BY DEF Next
  <2>1. Good(cur) /\ OnScreen(cur) /\ RegionOK /\ ParserOK
    BY DEF IInv, CursorOnScreen, OnScreen
  <2>2. ~cur.bad
    BY DEF Process
  <2>3. CASE Follows(cur, cur')
    BY <2>1, <2>2, <2>3 DEF Follows
  <2>4. CASE parser_state = "NORMAL" /\ Normal(cur, byte)
    BY <2>1, <2>3, <2>4, NormalFollows
  <2>5. CASE UNCHANGED cur
    BY <2>2, <2>5
  <2>6. CASE parser_state = "ESCAPE" /\ SingleEscape(byte)
    <3>1. Down(cur).bad = cur.bad /\ NextLine(cur).bad = cur.bad
      BY <2>1, DownFollows, NextLineFollows
    <3>2. [cur EXCEPT !.y = AtLeast(Wrap(cur.y - 1), scroll_top)].bad = cur.bad
      BY <2>1 DEF Good, Cursor
    <3>3. \/ cur' = Down(cur)
          \/ cur' = [cur EXCEPT !.y = AtLeast(Wrap(cur.y - 1), scroll_top)]
          \/ cur' = NextLine(cur)
          \/ cur' = cur
      BY <2>6 DEF SingleEscape
    <3>4. QED
      BY <2>2, <3>1, <3>2, <3>3
  <2>7. CASE parser_state = "CSI" /\ CsiEnd(byte)
    <3>1. ASSUME NEW p \in Params(byte),
                 cur' = Touch(Move(byte, p[1], p[2]), Erased(byte, p[1]))
          PROVE  ~cur'.bad
      <4> DEFINE d == Move(byte, p[1], p[2])
      <4>1. Good(d) /\ d.bad = cur.bad
        BY <2>1, ParamsInt, MoveStays
      <4>2. Erased(byte, p[1]) \subseteq Screen
        BY <2>1, <2>7, ParamsInt, ErasedOnScreen
      <4> HIDE DEF d
      <4>3. cur'.bad = d.bad
        BY <3>1, <4>1, <4>2, TouchGood DEF d
      <4>4. QED
        BY <2>2, <4>1, <4>3
    <3>2. QED
      BY <2>5, <2>7, <3>1 DEF CsiEnd
  <2>8. CASE parser_state = "UTF8" /\ Utf8Continues(byte)
    <3>1. Follows(cur, cur') \/ cur' = cur
      BY <2>1, <2>8, GlyphFollows DEF Utf8Continues
    <3>2. QED
      BY <2>3, <2>5, <3>1
  <2>9. CASE parser_state = "UTF8" /\ Utf8Broken(byte)
    <3> DEFINE c == WriteGlyph(cur)
    <3>1. Follows(cur, c)
      BY <2>1, GlyphFollows
    <3>2. Normal(c, byte)
      BY <2>9 DEF Utf8Broken
    <3> HIDE DEF c
    <3>3. Follows(c, cur')
      BY <2>1, <3>1, <3>2, NormalFollows DEF Follows
    <3>4. QED
      BY <2>3, <3>1, <3>3 DEF Follows
  <2>10. QED
    BY <2>4, <2>5, <2>6, <2>7, <2>8, <2>9
       DEF Process, StartString, CsiParameter, String
<1>2. IInv /\ [Next]_vars => [Outside]_vars
  BY <1>1
<1>3. QED
  BY <1>2, Invariance, PTL DEF WritesOnScreen, Spec

\* Whatever limits the child asks for, the scroll region is a stretch of lines of the
\* screen, and so is every copy of its lines.
THEOREM RegionOnScreen == Spec => []RegionOrdered
<1>1. IInv => RegionOrdered
  BY DEF IInv, RegionOK
<1>2. QED
  BY <1>1, Invariance, PTL

\* The scrollback never claims lines it does not hold, and its position stays in the
\* ring, for every size of the ring.
THEOREM RingKept == Spec => []ScrollbackRing
<1>1. IInv => ScrollbackRing
  BY DEF IInv, Good, Cursor, ScrollbackRing
<1>2. QED
  BY <1>1, Invariance, PTL

\* The parser is never left inside a character with nothing to come, wherever the bytes
\* of the child are cut.
THEOREM CharacterPending == Spec => []Utf8Pending
<1>1. IInv => Utf8Pending
  BY DEF IInv, ParserOK
<1>2. QED
  BY <1>1, Invariance, PTL

\* The emulator's variables keep their types.
THEOREM EmulatorTypes == Spec => []EmulatorTypeOK
<1>1. IInv => EmulatorTypeOK
  BY DEF IInv, Good, RegionOK, ParserOK, EmulatorTypeOK
<1>2. QED
  BY <1>1, Invariance, PTL

\* A line feed that does not take a cursor on the screen down scrolls the region: what
\* was written is not written over, wherever the cursor and the region are.
THEOREM ScrollsOnLineFeed == Spec => LineFeedsScroll
<1> DEFINE Scrolls ==
      ~astray /\ parser_state = "NORMAL" /\ Process("lf") /\ cur'.y <= cur.y
        => cur'.y = scroll_bottom /\ cur'.pos = (cur.pos + 1) % ScrollbackSize
<1>1. IInv => Scrolls
  <2> SUFFICES ASSUME IInv, ~astray, parser_state = "NORMAL", Process("lf"),
                      cur'.y <= cur.y
               PROVE  cur'.y = scroll_bottom /\ cur'.pos = (cur.pos + 1) % ScrollbackSize
    OBVIOUS
  <2>0. Good(cur) /\ cur.y \in Rows
    BY DEF IInv, CursorOnScreen
  <2>1. cur' = Down(cur)
    BY DEF Process, Normal, WriteChar
  <2>2. Wrap(cur.y + 1) = cur.y + 1 /\ cur.y + 1 \in IntRange
    <3>1. cur.y + 1 \in IntRange /\ cur.y + 1 \in -2*MaxInt-2..2*MaxInt+1
      BY <2>0, HeightAssumption, MaxIntAssumption DEF Rows, IntRange
    <3>2. QED
      BY <3>1, WrapInt
  <2>3. cur.y + 1 > scroll_bottom
    <3>1. SUFFICES ASSUME ~(cur.y + 1 > scroll_bottom) PROVE FALSE
      OBVIOUS
    <3>2. cur' = [cur EXCEPT !.y = cur.y + 1]
      BY <2>1, <2>2, <3>1 DEF Down
    <3>3. cur'.y = cur.y + 1
      BY <2>0, <2>2, <3>2, PlaceY
    <3>4. QED
      BY <2>0, <3>3 DEF Rows
  <2> DEFINE s == ScrollUp(cur)
  <2>4. cur' = [s EXCEPT !.y = scroll_bottom]
    BY <2>1, <2>2, <2>3 DEF Down
  <2>5. s = [cur EXCEPT !.pos = (cur.pos + 1) % ScrollbackSize, !.lines = s.lines]
    BY <2>0 DEF ScrollUp, Good, Cursor
  <2>6. QED
    BY <2>0, <2>4, <2>5 DEF Good, Cursor
<1>2. IInv => [Scrolls]_vars
  BY <1>1
<1>3. QED
  BY <1>2, Invariance, PTL DEF LineFeedsScroll
=============================================================================
