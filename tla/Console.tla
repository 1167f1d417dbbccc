------------------------------ MODULE Console ------------------------------
(***************************************************************************)
(* The text console of src/fb.c: a cursor that fkputc moves over the       *)
(* screen, and fkprintf_set_cursor, which moves it with four stores.       *)
(*                                                                         *)
(* fkprintf masks interrupts: while a thread prints, no other runs.        *)
(* fkprintf_set_cursor does not, so others may print between its stores.   *)
(* Only the boot thread calls it.                                          *)
(*                                                                         *)
(* A text is a series of glyphs, line feeds and carriage returns of any    *)
(* length; which glyphs, and what the format makes of the arguments, does  *)
(* not move the cursor differently.                                        *)
(***************************************************************************)
EXTENDS Integers

CONSTANTS
  FB_WIDTH, FB_HEIGHT,
  ASCII_FONT_WIDTH, ASCII_FONT_HEIGHT,
  Start,      \* the cursor the console starts with: x, y, scale
  Calls,      \* arguments fkprintf_set_cursor is called with
  Threads,
  Main        \* the boot thread

Cursors  == {Start} \cup Calls
NoThread == "nobody"

(***************************************************************************)
(* Every cursor leaves room for a glyph, also below row x, to which the    *)
(* console restarts; and nobody changes the scale.                         *)
(***************************************************************************)
ASSUME ConsoleAssumption ==
  /\ FB_WIDTH \in Nat /\ FB_HEIGHT \in Nat
  /\ ASCII_FONT_WIDTH \in Nat \ {0} /\ ASCII_FONT_HEIGHT \in Nat \ {0}
  /\ Main \in Threads /\ NoThread \notin Threads
  /\ \A c \in Cursors :
       /\ DOMAIN c = {"x", "y", "scale"}
       /\ c.x \in Nat /\ c.y \in Nat /\ c.scale \in Nat \ {0}
       /\ c.scale = Start.scale
       /\ c.x + ASCII_FONT_WIDTH * c.scale <= FB_WIDTH
       /\ c.x + ASCII_FONT_HEIGHT * c.scale <= FB_HEIGHT
       /\ c.y + ASCII_FONT_HEIGHT * c.scale <= FB_HEIGHT

VARIABLES
  term_cx, term_cy, term_start_x, term_scale,
  printing,   \* the thread inside fkprintf, if any
  call,       \* the arguments of the last fkprintf_set_cursor
  next_store, \* the store fkprintf_set_cursor does next, or "none"
  drawn       \* the glyphs the last step drew, by the cursor they were drawn at

cursor == <<term_cx, term_cy, term_start_x, term_scale>>
setter == <<call, next_store>>
vars   == <<cursor, setter, printing, drawn>>

Init ==
  /\ term_cx = Start.x /\ term_cy = Start.y
  /\ term_start_x = Start.x /\ term_scale = Start.scale
  /\ printing = NoThread
  /\ call = Start /\ next_store = "none"
  /\ drawn = {}

-----------------------------------------------------------------------------
(* disable_interrupts: nobody else runs until the text is out. *)
fkprintf(t) ==
  /\ printing = NoThread
  /\ t = Main => next_store = "none"
  /\ printing' = t
  /\ drawn' = {}
  /\ UNCHANGED <<cursor, setter>>

fkprintf_return ==
  /\ printing # NoThread
  /\ printing' = NoThread
  /\ drawn' = {}
  /\ UNCHANGED <<cursor, setter>>

char_w == ASCII_FONT_WIDTH * term_scale
char_h == ASCII_FONT_HEIGHT * term_scale

LowerUnchecked(y) == y                                \* mutant: never restarts
LowerByTop(y) == IF y >= FB_HEIGHT THEN term_start_x ELSE y   \* mutant: top edge

(* A line that would not fit restarts the console, at the row of start_x. *)
Lower(y) == IF y + char_h >= FB_HEIGHT THEN term_start_x ELSE y

NextLine == Lower(term_cy + char_h + 4 * term_scale)

Prints == printing # NoThread /\ UNCHANGED <<printing, setter, term_start_x, term_scale>>

line_feed ==
  /\ Prints
  /\ term_cx' = term_start_x
  /\ term_cy' = NextLine
  /\ drawn' = {}

carriage_return ==
  /\ Prints
  /\ term_cx' = term_start_x
  /\ drawn' = {}
  /\ UNCHANGED term_cy

(* Any other character, at the cursor or, past the right edge, a line on. *)
glyph ==
  LET wraps == term_cx + char_w >= FB_WIDTH
      x     == IF wraps THEN term_start_x ELSE term_cx
      y     == IF wraps THEN NextLine ELSE term_cy
  IN /\ Prints
     /\ term_cx' = x + char_w
     /\ term_cy' = y
     /\ drawn' = {[x |-> x, y |-> y, scale |-> term_scale]}

fkputc == line_feed \/ carriage_return \/ glyph

-----------------------------------------------------------------------------
(* The stores of fkprintf_set_cursor, in their order. *)
Stores(now, later) ==
  /\ printing = NoThread
  /\ next_store = now /\ next_store' = later
  /\ drawn' = {}
  /\ UNCHANGED printing

set_cx(c) ==
  /\ Stores("none", "cy")
  /\ call' = c /\ term_cx' = c.x
  /\ UNCHANGED <<term_cy, term_start_x, term_scale>>

set_cy ==
  /\ Stores("cy", "start_x")
  /\ term_cy' = call.y
  /\ UNCHANGED <<call, term_cx, term_start_x, term_scale>>

set_start_x ==
  /\ Stores("start_x", "scale")
  /\ term_start_x' = call.x
  /\ UNCHANGED <<call, term_cx, term_cy, term_scale>>

set_scale ==
  /\ Stores("scale", "none")
  /\ term_scale' = call.scale
  /\ UNCHANGED <<call, term_cx, term_cy, term_start_x>>

fkprintf_set_cursor ==
  (\E c \in Calls : set_cx(c)) \/ set_cy \/ set_start_x \/ set_scale

Next ==
  \/ \E t \in Threads : fkprintf(t)
  \/ fkputc \/ fkprintf_return \/ fkprintf_set_cursor

Spec == Init /\ [][Next]_vars

-----------------------------------------------------------------------------
(* Properties *)

(* The cursor is at most one glyph past a place where one may be drawn. *)
TypeOK ==
  /\ term_cx \in 0 .. FB_WIDTH /\ term_cy \in 0 .. FB_HEIGHT
  /\ term_start_x \in {c.x : c \in Cursors}
  /\ term_scale \in {c.scale : c \in Cursors}
  /\ printing \in Threads \cup {NoThread}
  /\ call \in Cursors
  /\ next_store \in {"none", "cy", "start_x", "scale"}
  /\ drawn \subseteq [x : 0 .. FB_WIDTH, y : 0 .. FB_HEIGHT,
                      scale : {c.scale : c \in Cursors}]

(***************************************************************************)
(* draw_font_char writes the back buffer without looking at the screen's   *)
(* edges: whatever fkputc draws, also between the stores of                *)
(* fkprintf_set_cursor, lies on the screen.                                *)
(***************************************************************************)
GlyphsOnScreen ==
  \A g \in drawn : /\ g.x + ASCII_FONT_WIDTH * g.scale <= FB_WIDTH
                   /\ g.y + ASCII_FONT_HEIGHT * g.scale <= FB_HEIGHT

=============================================================================
