--------------------------- MODULE ConsoleProofs ---------------------------
(***************************************************************************)
(* Every glyph the console draws lies on the screen, for every screen,     *)
(* font and set of cursors that ConsoleAssumption allows.                  *)
(***************************************************************************)
EXTENDS Console, TLAPS

(* All cursors have one scale, so every glyph has one width and one height. *)
Width  == ASCII_FONT_WIDTH * Start.scale
Height == ASCII_FONT_HEIGHT * Start.scale

(* A column text may start in; its number may also serve as a row. *)
Column(x) == x \in Nat /\ x + Width <= FB_WIDTH /\ x + Height <= FB_HEIGHT
Row(y)    == y \in Nat /\ y + Height <= FB_HEIGHT

(* What the constants say. *)
LEMMA CursorsFit ==
  /\ FB_WIDTH \in Nat /\ FB_HEIGHT \in Nat
  /\ Width \in Nat \ {0} /\ Height \in Nat \ {0} /\ Start.scale \in Nat \ {0}
  /\ \A c \in Cursors : Column(c.x) /\ Row(c.y) /\ c.scale = Start.scale
<1>1. Start \in Cursors
  BY DEF Cursors
<1>2. /\ FB_WIDTH \in Nat /\ FB_HEIGHT \in Nat
      /\ ASCII_FONT_WIDTH \in Nat \ {0} /\ ASCII_FONT_HEIGHT \in Nat \ {0}
      /\ Start.scale \in Nat \ {0}
  BY <1>1, ConsoleAssumption
<1>3. Width \in Nat \ {0} /\ Height \in Nat \ {0}
  BY <1>2, SMT DEF Width, Height
<1>4. ASSUME NEW c \in Cursors
      PROVE  Column(c.x) /\ Row(c.y) /\ c.scale = Start.scale
  BY ConsoleAssumption DEF Column, Row, Width, Height
<1> QED
  BY <1>2, <1>3, <1>4

(***************************************************************************)
(* The cursor is at a row of the screen whatever the stores of             *)
(* fkprintf_set_cursor have got to: each of them alone keeps its part.     *)
(***************************************************************************)
CursorInside ==
  /\ term_cx \in 0 .. FB_WIDTH
  /\ Row(term_cy)
  /\ term_start_x \in {c.x : c \in Cursors} /\ Column(term_start_x)
  /\ term_scale = Start.scale

GlyphsInside ==
  \A g \in drawn :
    /\ g = [x |-> g.x, y |-> g.y, scale |-> Start.scale]
    /\ g.x \in Nat /\ g.x + Width <= FB_WIDTH /\ Row(g.y)

Control ==
  /\ printing \in Threads \cup {NoThread}
  /\ call \in Cursors
  /\ next_store \in {"none", "cy", "start_x", "scale"}

IInv == CursorInside /\ GlyphsInside /\ Control

LEMMA InitInside == Init => IInv
<1> SUFFICES ASSUME Init PROVE IInv
  OBVIOUS
<1>1. Start \in Cursors
  BY DEF Cursors
<1>2. Column(Start.x) /\ Row(Start.y)
  BY <1>1, CursorsFit
<1>3. CursorInside
  BY <1>1, <1>2, CursorsFit DEF Init, CursorInside, Column
<1>4. GlyphsInside /\ Control
  BY <1>1 DEF Init, GlyphsInside, Control
<1> QED
  BY <1>3, <1>4 DEF IInv

(* Where a line feed leads is a row: it is checked, or it is start_x. *)
LEMMA LowerIsRow ==
  ASSUME CursorInside, char_h = Height, NEW y \in Nat
  PROVE  Row(Lower(y))
<1>1. CASE y + char_h >= FB_HEIGHT
  BY <1>1 DEF Lower, CursorInside, Column, Row
<1>2. CASE ~(y + char_h >= FB_HEIGHT)
  BY <1>2, CursorsFit DEF Lower, Row
<1> QED
  BY <1>1, <1>2

LEMMA NextLineIsRow ==
  ASSUME CursorInside
  PROVE  Row(NextLine) /\ char_w = Width /\ char_h = Height
<1>1. char_w = Width /\ char_h = Height
  BY DEF CursorInside, char_w, char_h, Width, Height
<1>2. term_cy + char_h + 4 * term_scale \in Nat
  BY <1>1, CursorsFit DEF CursorInside, Row
<1> QED
  BY <1>1, <1>2, LowerIsRow DEF NextLine

LEMMA StepInside == IInv /\ [Next]_vars => IInv'
<1> SUFFICES ASSUME IInv, [Next]_vars PROVE IInv'
  OBVIOUS
<1> USE DEF IInv
<1>1. ASSUME NEW t \in Threads, fkprintf(t) PROVE IInv'
  BY <1>1 DEF fkprintf, cursor, setter, CursorInside, GlyphsInside, Control,
              Column, Row
<1>2. CASE fkprintf_return
  BY <1>2 DEF fkprintf_return, cursor, setter, CursorInside, GlyphsInside,
              Control, Column, Row
<1>3. CASE line_feed
  <2>1. Row(NextLine)
    BY NextLineIsRow
  <2>2. CursorInside'
    BY <1>3, <2>1, CursorsFit DEF line_feed, Prints, CursorInside, Column, Row
  <2>3. GlyphsInside' /\ Control'
    BY <1>3 DEF line_feed, Prints, setter, GlyphsInside, Control
  <2> QED
    BY <2>2, <2>3
<1>4. CASE carriage_return
  <2>1. CursorInside'
    BY <1>4, CursorsFit DEF carriage_return, Prints, CursorInside, Column, Row
  <2>2. GlyphsInside' /\ Control'
    BY <1>4 DEF carriage_return, Prints, setter, GlyphsInside, Control
  <2> QED
    BY <2>1, <2>2
<1>5. CASE glyph
  <2> DEFINE wraps == term_cx + char_w >= FB_WIDTH
             x == IF wraps THEN term_start_x ELSE term_cx
             y == IF wraps THEN NextLine ELSE term_cy
  <2>1. /\ term_cx' = x + Width /\ term_cy' = y
        /\ drawn' = {[x |-> x, y |-> y, scale |-> Start.scale]}
        /\ UNCHANGED <<printing, call, next_store, term_start_x, term_scale>>
    BY <1>5, NextLineIsRow DEF glyph, Prints, setter, CursorInside
  <2>2. x \in Nat /\ x + Width <= FB_WIDTH
    BY NextLineIsRow, CursorsFit DEF CursorInside, Column
  <2>3. Row(y)
    BY NextLineIsRow DEF CursorInside
  <2> HIDE DEF x, y, wraps
  <2>4. CursorInside'
    BY <2>1, <2>2, <2>3, CursorsFit DEF CursorInside, Column, Row
  <2>5. GlyphsInside'
    BY <2>1, <2>2, <2>3, CursorsFit DEF GlyphsInside, Row
  <2>6. Control'
    BY <2>1 DEF Control
  <2> QED
    BY <2>4, <2>5, <2>6
<1>6. ASSUME NEW c \in Calls, set_cx(c) PROVE IInv'
  <2>1. c \in Cursors
    BY DEF Cursors
  <2>2. CursorInside'
    BY <1>6, <2>1, CursorsFit DEF set_cx, CursorInside, Column, Row
  <2>3. GlyphsInside' /\ Control'
    BY <1>6, <2>1 DEF set_cx, Stores, GlyphsInside, Control
  <2> QED
    BY <2>2, <2>3
<1>7. CASE set_cy
  <2>1. CursorInside'
    BY <1>7, CursorsFit DEF set_cy, CursorInside, Control, Column, Row
  <2>2. GlyphsInside' /\ Control'
    BY <1>7 DEF set_cy, Stores, GlyphsInside, Control
  <2> QED
    BY <2>1, <2>2
<1>8. CASE set_start_x
  <2>1. CursorInside'
    BY <1>8, CursorsFit DEF set_start_x, CursorInside, Control, Column, Row
  <2>2. GlyphsInside' /\ Control'
    BY <1>8 DEF set_start_x, Stores, GlyphsInside, Control
  <2> QED
    BY <2>1, <2>2
<1>9. CASE set_scale
  <2>1. CursorInside'
    BY <1>9, CursorsFit DEF set_scale, CursorInside, Control, Column, Row
  <2>2. GlyphsInside' /\ Control'
    BY <1>9 DEF set_scale, Stores, GlyphsInside, Control
  <2> QED
    BY <2>1, <2>2
<1>10. CASE UNCHANGED vars
  BY <1>10 DEF vars, cursor, setter, CursorInside, GlyphsInside, Control,
               Column, Row
<1> QED
  BY <1>1, <1>2, <1>3, <1>4, <1>5, <1>6, <1>7, <1>8, <1>9, <1>10
     DEF Next, fkputc, fkprintf_set_cursor

LEMMA InsideInvariant == Spec => []IInv
  BY InitInside, StepInside, PTL DEF Spec

(* The variables hold what TypeOK says: the cursor never leaves the screen. *)
THEOREM TypeCorrect == Spec => []TypeOK
<1>1. ASSUME IInv PROVE TypeOK
  <2>1. term_scale \in {c.scale : c \in Cursors}
    BY <1>1 DEF IInv, CursorInside, Cursors
  <2>2. term_cy \in 0 .. FB_HEIGHT
    BY <1>1, CursorsFit DEF IInv, CursorInside, Row
  <2>3. drawn \subseteq [x : 0 .. FB_WIDTH, y : 0 .. FB_HEIGHT,
                         scale : {c.scale : c \in Cursors}]
    <3> SUFFICES ASSUME NEW g \in drawn
                 PROVE  g \in [x : 0 .. FB_WIDTH, y : 0 .. FB_HEIGHT,
                               scale : {c.scale : c \in Cursors}]
      OBVIOUS
    <3>1. Start.scale \in {c.scale : c \in Cursors}
      BY DEF Cursors
    <3>2. g.x \in 0 .. FB_WIDTH /\ g.y \in 0 .. FB_HEIGHT
      BY <1>1, CursorsFit DEF IInv, GlyphsInside, Row
    <3> QED
      BY <1>1, <3>1, <3>2 DEF IInv, GlyphsInside
  <2> QED
    BY <1>1, <2>1, <2>2, <2>3 DEF IInv, CursorInside, Control, TypeOK
<1> QED
  BY <1>1, InsideInvariant, PTL

(* Whatever fkputc draws, whoever is between which stores, is on the screen. *)
THEOREM GlyphsStayOnScreen == Spec => []GlyphsOnScreen
<1>1. ASSUME IInv PROVE GlyphsOnScreen
  <2> SUFFICES ASSUME NEW g \in drawn
               PROVE  /\ g.x + ASCII_FONT_WIDTH * g.scale <= FB_WIDTH
                      /\ g.y + ASCII_FONT_HEIGHT * g.scale <= FB_HEIGHT
    BY DEF GlyphsOnScreen
  <2>1. g.scale = Start.scale /\ g.x + Width <= FB_WIDTH /\ g.y + Height <= FB_HEIGHT
    BY <1>1 DEF IInv, GlyphsInside, Row
  <2> QED
    BY <2>1 DEF Width, Height
<1> QED
  BY <1>1, InsideInvariant, PTL

=============================================================================
