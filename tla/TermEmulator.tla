---------------------------- MODULE TermEmulator ----------------------------
(***************************************************************************)
(* The terminal emulator of a pane (src/tui/pty/tui_term_emulator.c): it   *)
(* takes the output of the child byte by byte.  The model keeps what says  *)
(* where the next write goes (cursor, scroll region, scrollback ring) and  *)
(* the state of the parser; the text and its attributes are left out.      *)
(***************************************************************************)
EXTENDS Integers

CONSTANTS
  Width, Height,    \* of the screen
  TabWidth,         \* columns from one tab stop to the next, 8
  ScrollbackSize,
  BufferSize,       \* what escape_buf holds, 255 bytes
  MaxInt            \* INT_MAX

ASSUME WidthAssumption      == Width \in Nat \ {0}
ASSUME HeightAssumption     == Height \in Nat \ {0}
ASSUME TabAssumption        == TabWidth \in Nat \ {0}
ASSUME ScrollbackAssumption == ScrollbackSize \in Nat \ {0}
ASSUME BufferAssumption     == BufferSize \in Nat \ {0}
ASSUME MaxIntAssumption     == MaxInt \in Nat /\ Width < MaxInt /\ Height <= MaxInt

VARIABLES
  cur,         \* cursor_x, cursor_y, scrollback_pos and scrollback_lines; and whether
               \* memory outside the screen or the tab stops was touched
  scroll_top, scroll_bottom,
  parser_state,
  escape_len,
  escape_esc,  \* escape_buf[escape_len - 1] is ESC
  utf8_remaining,
  astray       \* the parameter of a relative movement overflowed, or its sum did, and
               \* the cursor has not been placed since; for the properties

region == <<scroll_top, scroll_bottom>>
parser == <<parser_state, escape_len, escape_esc, utf8_remaining>>
vars   == <<cur, region, parser, astray>>

\* One representative of each class of bytes the code tells apart.
CsiFinal == {"A", "B", "C", "D", "H", "J", "K", "r", "m", "M", "E", "P", "[", "]",
             "backslash"}
Utf8     == {"start2", "start3", "start4", "continuation", "invalid"}
Byte     == CsiFinal \cup Utf8 \cup {"esc", "cr", "lf", "tab", "bs", "bel", "digit"}

IntRange == -MaxInt-1..MaxInt

\* A sum or difference of two numbers of IntRange, or of one and a digit's worth, in an
\* int that wraps around; a build that traps overflow stops instead.
Wrap(n) == IF n > MaxInt THEN n - 2 * (MaxInt + 1)
           ELSE IF n < -MaxInt-1 THEN n + 2 * (MaxInt + 1) ELSE n

Cursor == [x : IntRange, y : IntRange, bad : BOOLEAN,
           pos : 0..ScrollbackSize-1, lines : 0..ScrollbackSize]

EmulatorTypeOK ==
  /\ cur \in Cursor
  /\ scroll_top \in 0..Height-1 /\ scroll_bottom \in 0..Height-1
  /\ parser_state \in {"NORMAL", "ESCAPE", "CSI", "OSC", "DCS", "UTF8"}
  /\ escape_len \in 0..BufferSize
  /\ escape_esc \in BOOLEAN
  /\ utf8_remaining \in 0..3
  /\ astray \in BOOLEAN

\* tui_term_emulator_create
Init ==
  /\ cur = [x |-> 0, y |-> 0, bad |-> FALSE, pos |-> 0, lines |-> 0]
  /\ scroll_top = 0 /\ scroll_bottom = Height - 1
  /\ parser_state = "NORMAL"
  /\ escape_len = 0 /\ escape_esc = FALSE
  /\ utf8_remaining = 0 /\ astray = FALSE

-----------------------------------------------------------------------------
(* Writing.  Every operator takes the cursor and gives the next one.       *)

AtMost(n, limit)  == IF n > limit THEN limit ELSE n
AtLeast(n, limit) == IF n < limit THEN limit ELSE n

\* Mutant: the count of lines goes on when the ring is full.
ScrollUpOverrun(c) ==
  [c EXCEPT !.pos = (c.pos + 1) % ScrollbackSize, !.lines = c.lines + 1]

\* scroll_up_one: a line goes to the scrollback.
ScrollUp(c) ==
  [c EXCEPT !.pos   = (c.pos + 1) % ScrollbackSize,
            !.lines = AtMost(c.lines + 1, ScrollbackSize)]

\* Mutant: only the exact bottom of the region scrolls.
DownMissesRegion(c) ==
  IF c.y = scroll_bottom THEN ScrollUp(c)
  ELSE [c EXCEPT !.y = AtMost(Wrap(c.y + 1), scroll_bottom)]

\* The line below.  At the bottom of the scroll region, and also anywhere below it,
\* the region scrolls and the cursor is at its bottom.
Down(c) ==
  IF Wrap(c.y + 1) > scroll_bottom THEN [ScrollUp(c) EXCEPT !.y = scroll_bottom]
  ELSE [c EXCEPT !.y = Wrap(c.y + 1)]

\* auto_wrap is never off.
NextLine(c) == [Down(c) EXCEPT !.x = 0]

Columns == 0..Width-1
Rows    == 0..Height-1
Screen  == Columns \X Rows

\* c, after the cells were written.  A cell of the screen array that is not there is
\* somebody else's memory.
Touch(c, cells) == [c EXCEPT !.bad = c.bad \/ ~(cells \subseteq Screen)]

\* Mutant: a pending wrap is not seen.
WriteGlyphLate(c) ==
  LET d == IF c.x > Width THEN NextLine(c) ELSE c
  IN  [Touch(d, {<<d.x, d.y>>}) EXCEPT !.x = Wrap(d.x + 1)]

\* A printable character: a pending wrap first, and the cursor may be left past the
\* last column.
WriteGlyph(c) ==
  LET d == IF c.x >= Width THEN NextLine(c) ELSE c
  IN  [Touch(d, {<<d.x, d.y>>}) EXCEPT !.x = Wrap(d.x + 1)]

\* The next tab stop; left of the screen there are none to read.
Tab(c) ==
  LET x    == Wrap(c.x + 1)
      next == ((x + TabWidth - 1) \div TabWidth) * TabWidth
  IN  IF x < 0 THEN [c EXCEPT !.bad = TRUE]
      ELSE IF next >= Width THEN NextLine(c) ELSE [c EXCEPT !.x = next]

\* write_char
WriteChar(c, byte) ==
  CASE byte = "cr"  -> [c EXCEPT !.x = 0]
    [] byte = "lf"  -> Down(c)
    [] byte = "tab" -> Tab(c)
    [] byte = "bs"  -> [c EXCEPT !.x = AtLeast(c.x - 1, 0)]
    [] byte = "bel" -> c
    [] OTHER        -> WriteGlyph(c)

-----------------------------------------------------------------------------
(* The parser.                                                             *)

Enter(state) == parser_state' = state

KeepBuffer == UNCHANGED <<escape_len, escape_esc>>

\* STATE_NORMAL, from a cursor that an invalid UTF-8 sequence may have moved.
Normal(c, byte) ==
  /\ UNCHANGED <<region, escape_esc>>
  /\ \/ /\ byte = "esc"
        /\ Enter("ESCAPE") /\ escape_len' = 0
        /\ cur' = c /\ UNCHANGED utf8_remaining
     \/ /\ byte \in {"start2", "start3", "start4"}
        /\ Enter("UTF8")
        /\ utf8_remaining' = CASE byte = "start2" -> 1
                               [] byte = "start3" -> 2
                               [] byte = "start4" -> 3
        /\ cur' = c /\ UNCHANGED escape_len
     \/ /\ byte \notin {"esc", "start2", "start3", "start4"}
        /\ Enter("NORMAL")
        /\ cur' = WriteChar(c, byte)
        /\ UNCHANGED <<escape_len, utf8_remaining>>

StartString(byte) ==
  /\ byte \in {"[", "]", "P"}
  /\ Enter(CASE byte = "[" -> "CSI" [] byte = "]" -> "OSC" [] byte = "P" -> "DCS")
  /\ escape_len' = 0
  /\ UNCHANGED <<cur, region, escape_esc, utf8_remaining>>

\* Index, reverse index, next line.
SingleEscape(byte) ==
  /\ byte \notin {"[", "]", "P"}
  /\ cur' = CASE byte = "D" -> Down(cur)
              [] byte = "M" -> [cur EXCEPT !.y = AtLeast(Wrap(cur.y - 1), scroll_top)]
              [] byte = "E" -> NextLine(cur)
              [] OTHER      -> cur
  /\ Enter("NORMAL")
  /\ KeepBuffer /\ UNCHANGED <<region, utf8_remaining>>

\* Mutant: the room is one byte too many.
StoreOneMore(byte) ==
  IF escape_len <= BufferSize
    THEN escape_len' = escape_len + 1 /\ escape_esc' = (byte = "esc")
    ELSE KeepBuffer

\* A byte is kept while there is room.
Store(byte) ==
  IF escape_len < BufferSize
    THEN escape_len' = escape_len + 1 /\ escape_esc' = (byte = "esc")
    ELSE KeepBuffer

CsiParameter(byte) ==
  /\ byte \notin CsiFinal
  /\ Store(byte)
  /\ UNCHANGED <<cur, region, parser_state, utf8_remaining>>

\* Mutant: the row of the screen is taken for its number of rows.
MoveOneBelow(byte, p1, p2) ==
  CASE byte = "B" -> [cur EXCEPT !.y = AtMost(Wrap(cur.y + p1), Height)]
    [] OTHER      -> cur

\* The sequences that move the cursor.  The relative ones look at one edge each, which
\* is not enough for a parameter or a sum that has overflowed.
Move(byte, p1, p2) ==
  CASE byte = "A" -> [cur EXCEPT !.y = AtLeast(Wrap(cur.y - p1), 0)]
    [] byte = "B" -> [cur EXCEPT !.y = AtMost(Wrap(cur.y + p1), Height - 1)]
    [] byte = "C" -> [cur EXCEPT !.x = AtMost(Wrap(cur.x + p1), Width - 1)]
    [] byte = "D" -> [cur EXCEPT !.x = AtLeast(Wrap(cur.x - p1), 0)]
    [] byte = "H" -> [cur EXCEPT !.y = IF p1 > 0 THEN AtMost(p1 - 1, Height - 1) ELSE 0,
                                 !.x = IF p2 > 0 THEN AtMost(p2 - 1, Width - 1) ELSE 0]
    [] byte = "J" /\ p1 = 2 -> [cur EXCEPT !.x = 0, !.y = 0]
    [] OTHER      -> cur

\* The cells of the erasing sequences: to the end, or from the start up to the cursor.
\* ESC [ 2 J and ESC [ 2 K are the whole screen and the whole line.
Erased(byte, p1) ==
  LET line == CASE p1 = 0 -> (cur.x..Width-1) \X {cur.y}
                [] p1 = 1 -> (0..cur.x) \X {cur.y}
                [] OTHER  -> Columns \X {cur.y}
  IN  CASE byte = "K" /\ p1 \in 0..2 -> line
        [] byte = "J" /\ p1 = 0 -> line \cup (Columns \X (Wrap(cur.y + 1)..Height-1))
        [] byte = "J" /\ p1 = 1 -> line \cup (Columns \X (0..cur.y-1))
        [] OTHER -> {}

Absolute(byte, p1) == byte = "H" \/ (byte = "J" /\ p1 = 2)

Overflows(byte, p1) ==
  \/ byte \in {"A", "B", "C", "D"} /\ p1 < 0
  \/ byte = "B" /\ cur.y + p1 > MaxInt
  \/ byte = "C" /\ cur.x + p1 > MaxInt

\* Mutant: an empty region is accepted.
SetRegionUnchecked(p1, p2) ==
  /\ scroll_top'    = AtMost(AtLeast(Wrap(p1 - 1), 0), Height - 1)
  /\ scroll_bottom' = IF p2 = 0 THEN Height - 1 ELSE AtMost(Wrap(p2 - 1), Height - 1)

\* "Set scroll region": an empty one is the whole screen.
SetRegion(p1, p2) ==
  LET top    == IF p1 = 0 THEN 0 ELSE AtLeast(Wrap(p1 - 1), 0)
      bottom == IF p2 = 0 THEN Height - 1 ELSE AtMost(Wrap(p2 - 1), Height - 1)
  IN  /\ scroll_top'    = IF top >= bottom THEN 0 ELSE top
      /\ scroll_bottom' = IF top >= bottom THEN Height - 1 ELSE bottom

\* What parse_csi makes of the bytes between, which are not kept: param * 10 + digit
\* goes around in an int, so that long ones come to any number.  A missing first
\* parameter is 0, a missing second one 1; only H and r look at the second.
Params(byte) ==
  IF escape_len = 0 THEN {<<0, 1>>}
  ELSE IntRange \X (IF byte \in {"H", "r"} THEN IntRange ELSE {1})

\* The final byte is looked up in the buffer: with the buffer full it is not there,
\* and the sequence is not known.
CsiEnd(byte) ==
  /\ byte \in CsiFinal
  /\ Enter("NORMAL")
  /\ Store(byte)
  /\ UNCHANGED utf8_remaining
  /\ \/ /\ escape_len < BufferSize
        /\ \E p \in Params(byte) :
             \/ /\ byte = "r"
                /\ SetRegion(p[1], p[2])
                /\ UNCHANGED <<cur, astray>>
             \/ /\ byte # "r"
                /\ cur' = Touch(Move(byte, p[1], p[2]), Erased(byte, p[1]))
                /\ astray' = (~Absolute(byte, p[1]) /\ (astray \/ Overflows(byte, p[1])))
                /\ UNCHANGED region
     \/ /\ escape_len = BufferSize
        /\ UNCHANGED <<cur, region, astray>>

\* The end of an OSC or DCS string, as the code sees it.
Terminates(byte) ==
  \/ parser_state = "OSC" /\ byte = "bel"
  \/ escape_len > 0 /\ escape_esc /\ byte = "backslash"

String(byte) ==
  /\ IF Terminates(byte) THEN Enter("NORMAL") /\ KeepBuffer
     ELSE Store(byte) /\ UNCHANGED parser_state
  /\ UNCHANGED <<cur, region, utf8_remaining>>

\* Mutant: the number of bytes is tested before it is counted down.
Utf8CountsLate(byte) ==
  /\ byte = "continuation"
  /\ utf8_remaining' = utf8_remaining - 1
  /\ IF utf8_remaining = 0 THEN Enter("NORMAL") /\ cur' = WriteGlyph(cur)
     ELSE UNCHANGED <<parser_state, cur>>
  /\ KeepBuffer /\ UNCHANGED region

Utf8Continues(byte) ==
  /\ byte = "continuation"
  /\ utf8_remaining' = utf8_remaining - 1
  /\ IF utf8_remaining = 1 THEN Enter("NORMAL") /\ cur' = WriteGlyph(cur)
     ELSE UNCHANGED <<parser_state, cur>>
  /\ KeepBuffer /\ UNCHANGED region

\* A '?', and the byte again.
Utf8Broken(byte) == byte # "continuation" /\ Normal(WriteGlyph(cur), byte)

-----------------------------------------------------------------------------

\* process_byte.  What a program does that has written outside its arrays is undefined:
\* the model ends there.
Process(byte) ==
  /\ ~cur.bad
  /\ \/ parser_state = "NORMAL" /\ Normal(cur, byte) /\ UNCHANGED astray
     \/ /\ parser_state = "ESCAPE"
        /\ StartString(byte) \/ SingleEscape(byte)
        /\ UNCHANGED astray
     \/ parser_state = "CSI" /\ CsiParameter(byte) /\ UNCHANGED astray
     \/ parser_state = "CSI" /\ CsiEnd(byte)
     \/ parser_state \in {"OSC", "DCS"} /\ String(byte) /\ UNCHANGED astray
     \/ /\ parser_state = "UTF8"
        /\ Utf8Continues(byte) \/ Utf8Broken(byte)
        /\ UNCHANGED astray

Next == \E byte \in Byte : Process(byte)

Spec == Init /\ [][Next]_vars

-----------------------------------------------------------------------------
(* Properties.                                                             *)

\* Only a relative movement whose parameter or sum has overflowed takes the cursor off
\* the screen (it is clamped on one side only), and placing it absolutely brings it back;
\* the region may be set anywhere around it.  One column past the last is a wrap that is
\* pending.
CursorOnScreen == ~astray => cur.x \in 0..Width /\ cur.y \in Rows

\* Nothing outside the screen is written, unless the cursor was taken off it by an
\* overflow, or a line is erased up to a cursor whose wrap is pending (the loops of
\* parse_csi include the cursor's column, which is then one past the line).
WritesOnScreen ==
  [][cur'.bad => astray \/ (cur.x = Width /\ parser_state = "CSI")]_vars

\* The scroll region is never empty, so that the copy of its lines stays inside the
\* screen; one line is left only of a screen of one line.
RegionOrdered ==
  /\ 0 <= scroll_top /\ scroll_bottom < Height
  /\ scroll_top < scroll_bottom \/ (scroll_top = 0 /\ scroll_bottom = Height - 1)

\* The scrollback is a ring filled from its start: until it is full its position is
\* its number of lines, and it never claims more lines than it has.
ScrollbackRing ==
  /\ cur.pos \in 0..ScrollbackSize-1 /\ cur.lines \in 0..ScrollbackSize
  /\ cur.lines < ScrollbackSize => cur.pos = cur.lines

\* Inside a character there are bytes to come; the count never passes zero, where
\* the character would never end.
Utf8Pending == parser_state = "UTF8" => utf8_remaining \in 1..3

\* On the screen, the cursor jumps upwards on a line feed only to the bottom of the
\* region, with a scroll: text that was written is not written over by what follows it.
LineFeedsScroll ==
  [][~astray /\ parser_state = "NORMAL" /\ Process("lf") /\ cur'.y <= cur.y
       => cur'.y = scroll_bottom /\ cur'.pos = (cur.pos + 1) % ScrollbackSize]_vars
=============================================================================
