------------------------------- MODULE Paint -------------------------------
(***************************************************************************)
(* What kernel_main paints into back_buffer (src/fb.c): the wallpaper that *)
(* the decoder of Qoi has unpacked, by display_qoi_image, then a           *)
(* translucent rectangle over it, by fill_rect.  Both run with interrupts  *)
(* on, so a thread may print in between, even after fill_rect has read a   *)
(* pixel and before it writes it back.  draw_font_char, inside fkprintf,   *)
(* is not preempted and is one step.                                       *)
(*                                                                         *)
(* A pixel on the screen is its four bytes from the highest, XRGB; the     *)
(* decoder's are in the order of memory.                                   *)
(***************************************************************************)
EXTENDS Qoi

CONSTANTS
  FB_WIDTH, FB_HEIGHT,
  Wallpapers,   \* the Images that are painted
  Rects,        \* arguments of fill_rect: x, y, width, height, color, alpha
  Glyphs,       \* characters as printed: a function from places to alpha
  TextColor

VARIABLES
  back_buffer,
  rect,
  drawing,    \* "no" (not yet), "image", "painted", "rect", "blend" (a pixel has
              \* been read) or "done"
  x, y,       \* the loop indices
  bg_color,   \* the pixel fill_rect has read
  texts       \* place -> what became of the glyph drawn there (history)

screen == <<back_buffer, rect, drawing, x, y, bg_color, texts>>
paint_vars == <<vars, screen>>

Pixel  == Byte \X Byte \X Byte \X Byte
Places == (0 .. FB_WIDTH - 1) \X (0 .. FB_HEIGHT - 1)
Black  == <<0, 0, 0, 0>>
NoRect == [x |-> 0, y |-> 0, width |-> 0, height |-> 0, color |-> Black, alpha |-> 0]

(***************************************************************************)
(* An image may be wider than the screen, which display_qoi_image looks    *)
(* at, but not higher, which it does not.  Glyphs lie on the screen (the   *)
(* console sees to that).                                                  *)
(***************************************************************************)
ASSUME PaintAssumption ==
  /\ FB_WIDTH \in Nat \ {0} /\ FB_HEIGHT \in Nat \ {0}
  /\ Wallpapers \subseteq Images
  /\ \A w \in Wallpapers : w.desc.height <= FB_HEIGHT
  /\ \A r \in Rects : /\ {r.x, r.y, r.width, r.height} \subseteq Int
                      /\ r.color \in Pixel /\ r.alpha \in Byte
  /\ \A g \in Glyphs : DOMAIN g \subseteq Places /\ \A q \in DOMAIN g : g[q] \in Byte
  /\ TextColor \in Pixel

Smaller(a, b) == IF a < b THEN a ELSE b
Larger(a, b)  == IF a < b THEN b ELSE a

-----------------------------------------------------------------------------
BlendUnweighted(t, alpha, b) == (t * alpha + b * 255) \div 255   \* mutant: too bright

(* One channel of a color laid over another. *)
Blend(t, alpha, b) == (t * alpha + b * (255 - alpha)) \div 255

(* A color laid over a pixel; the highest byte becomes 0xFF. *)
Overlay(color, alpha, bg) ==
  [k \in 1 .. 4 |-> IF k = 1 THEN 255 ELSE Blend(color[k], alpha, bg[k])]

Index(col, row) == row * FB_WIDTH + col

get_pixel(col, row) ==
  IF col < 0 \/ col >= FB_WIDTH \/ row < 0 \/ row >= FB_HEIGHT THEN Black
  ELSE back_buffer[Index(col, row)]

(* A place behind the buffer appears in its domain. *)
put_pixel(col, row, color) ==
  back_buffer' = [k \in DOMAIN back_buffer \cup {Index(col, row)} |->
                    IF k = Index(col, row) THEN color ELSE back_buffer[k]]

PaintInit ==
  /\ Init
  /\ rect = NoRect
  /\ back_buffer = [k \in 0 .. FB_WIDTH * FB_HEIGHT - 1 |-> Black]
  /\ drawing = "no" /\ x = 0 /\ y = 0
  /\ bg_color = Black
  /\ texts = [q \in {} |-> "under"]

-----------------------------------------------------------------------------
(* display_qoi_image *)

(* The decoder has returned, which the kernel gives all the data and asks *)
(* for four bytes a pixel.  Without an image there is nothing to do.      *)
display_qoi_image ==
  /\ drawing = "no" /\ pc \in {"return", "null"}
  /\ image \in Wallpapers /\ channels = 4 /\ size = Len(bytes)
  /\ rect' \in Rects
  /\ drawing' = IF pc = "return" THEN "image" ELSE "painted"
  /\ UNCHANGED <<back_buffer, x, y, bg_color, texts>>

draw_width_image == header.width                \* mutant: not cut off

draw_width == Smaller(header.width, FB_WIDTH)

(* From red in the lowest byte to blue in the lowest. *)
XRGB(rgba) == <<rgba[4], rgba[1], rgba[2], rgba[3]>>

(* An iteration of the inner loop; what text there was is painted over. *)
image_pixel ==
  /\ drawing = "image" /\ y < header.height /\ x < draw_width
  /\ put_pixel(x, y, XRGB(pixels[y * header.width + x + 1]))
  /\ texts' = [q \in DOMAIN texts \ {<<x, y>>} |-> texts[q]]
  /\ x' = x + 1
  /\ UNCHANGED <<rect, drawing, y, bg_color>>

image_row ==
  /\ drawing = "image" /\ y < header.height /\ x >= draw_width
  /\ x' = 0 /\ y' = y + 1
  /\ UNCHANGED <<back_buffer, rect, drawing, bg_color, texts>>

image_return ==
  /\ drawing = "image" /\ y >= header.height
  /\ drawing' = "painted"
  /\ UNCHANGED <<back_buffer, rect, x, y, bg_color, texts>>

-----------------------------------------------------------------------------
(* fill_rect *)

start_x == Larger(rect.x, 0)
start_y == Larger(rect.y, 0)
end_x   == Smaller(rect.x + rect.width, FB_WIDTH)
end_y   == Smaller(rect.y + rect.height, FB_HEIGHT)

(* It starts, or returns at once. *)
fill_rect ==
  /\ drawing = "painted"
  /\ drawing' = IF rect.alpha = 0 THEN "done" ELSE "rect"
  /\ x' = start_x /\ y' = start_y
  /\ UNCHANGED <<back_buffer, rect, bg_color, texts>>

(* A solid color is written at once, otherwise the pixel is read first. *)
rect_solid ==
  /\ drawing = "rect" /\ y < end_y /\ x < end_x
  /\ rect.alpha = 255
  /\ put_pixel(x, y, rect.color)
  /\ texts' = [q \in DOMAIN texts \ {<<x, y>>} |-> texts[q]]
  /\ x' = x + 1
  /\ UNCHANGED <<rect, drawing, y, bg_color>>

rect_read ==
  /\ drawing = "rect" /\ y < end_y /\ x < end_x
  /\ rect.alpha # 255
  /\ bg_color' = get_pixel(x, y)
  /\ drawing' = "blend"
  /\ UNCHANGED <<back_buffer, rect, x, y, texts>>

(* mutant: the pixel read for the last place is used again *)
rect_blend_stale ==
  /\ drawing = "blend"
  /\ put_pixel(x, y, Overlay(rect.color, rect.alpha, get_pixel(x - 1, y)))
  /\ x' = x + 1
  /\ drawing' = "rect"
  /\ bg_color' = Black
  /\ UNCHANGED <<rect, y, texts>>

rect_blend ==
  /\ drawing = "blend"
  /\ put_pixel(x, y, Overlay(rect.color, rect.alpha, bg_color))
  /\ x' = x + 1
  /\ drawing' = "rect"
  /\ bg_color' = Black
  /\ UNCHANGED <<rect, y, texts>>

rect_row ==
  /\ drawing = "rect" /\ y < end_y /\ x >= end_x
  /\ x' = start_x /\ y' = y + 1
  /\ UNCHANGED <<back_buffer, rect, drawing, bg_color, texts>>

rect_return ==
  /\ drawing = "rect" /\ y >= end_y
  /\ drawing' = "done"
  /\ UNCHANGED <<back_buffer, rect, x, y, bg_color, texts>>

-----------------------------------------------------------------------------
InRect(q) == start_x <= q[1] /\ q[1] < end_x /\ start_y <= q[2] /\ q[2] < end_y

(* fill_rect comes to place q only later, is at it, or has been there. *)
Ahead(q) ==
  \/ drawing \in {"image", "painted"}
  \/ q[2] > y
  \/ q[2] = y /\ (q[1] > x \/ (q[1] = x /\ drawing = "rect"))

Fate(q) == IF ~InRect(q) \/ rect.alpha = 0 THEN "over"
           ELSE IF drawing = "blend" /\ q = <<x, y>> THEN "lost"
           ELSE IF Ahead(q) THEN "under" ELSE "over"

Solidly(alpha, bg) == IF alpha = 255 THEN TextColor ELSE Overlay(TextColor, alpha, bg)

(* A thread prints a character (at most one, to bound the model). *)
draw_font_char(g) ==
  LET drawn == {q \in DOMAIN g : g[q] # 0}
  IN /\ drawing # "no" /\ DOMAIN texts = {}
     /\ back_buffer' = [k \in DOMAIN back_buffer |->
                          LET q == <<k % FB_WIDTH, k \div FB_WIDTH>>
                          IN IF q \in drawn THEN Solidly(g[q], back_buffer[k])
                             ELSE back_buffer[k]]
     /\ texts' = [q \in drawn |-> <<Fate(q), g[q]>>]
     /\ UNCHANGED <<rect, drawing, x, y, bg_color>>

Done == drawing = "done" /\ UNCHANGED screen

Paint ==
  \/ display_qoi_image \/ image_pixel \/ image_row \/ image_return
  \/ fill_rect \/ rect_solid \/ rect_read \/ rect_blend \/ rect_row \/ rect_return
  \/ \E g \in Glyphs : draw_font_char(g)
  \/ Done

PaintNext ==
  \/ Next /\ UNCHANGED screen
  \/ Paint /\ UNCHANGED vars

PaintSpec == PaintInit /\ [][PaintNext]_paint_vars

-----------------------------------------------------------------------------
(* The variables hold values of their types; no blend leaves a byte. *)
PaintTypeOK ==
  /\ TypeOK
  /\ rect \in Rects \cup {NoRect}
  /\ back_buffer \in [DOMAIN back_buffer -> Pixel]
  /\ drawing \in {"no", "image", "painted", "rect", "blend", "done"}
  /\ x \in Int /\ y \in Int
  /\ bg_color \in Pixel
  /\ DOMAIN texts \subseteq Places

(* No pixel is written outside the buffer of FB_WIDTH * FB_HEIGHT, be the  *)
(* image wider than the screen or the rectangle half outside of it: the    *)
(* width of the image and the four edges of the rectangle are cut off.     *)
InsideBuffer == DOMAIN back_buffer = 0 .. FB_WIDTH * FB_HEIGHT - 1

(* What a color laid over a pixel should be: the mean, weighted by alpha   *)
(* of 255 and rounded down, of each channel.                               *)
Mean(t, alpha, b) ==
  CHOOSE v \in Byte : \E rest \in 0 .. 254 : 255 * v + rest = t * alpha + b * (255 - alpha)

Layer(color, alpha, below) ==
  IF alpha = 0 THEN below ELSE IF alpha = 255 THEN color
  ELSE [k \in 1 .. 4 |-> IF k = 1 THEN 255 ELSE Mean(color[k], alpha, below[k])]

(* The image that was encoded, where there is one. *)
ImageAt(q) ==
  IF pc = "null" \/ q[1] >= image.desc.width \/ q[2] >= image.desc.height THEN Black
  ELSE LET c == image.pixels[q[2] * image.desc.width + q[1] + 1]
       IN <<c.a, c.r, c.g, c.b>>

Shade(q, below) ==
  IF q[1] - rect.x \in 0 .. rect.width - 1 /\ q[2] - rect.y \in 0 .. rect.height - 1
  THEN Layer(rect.color, rect.alpha, below) ELSE below

Picture(q) ==
  IF q \notin DOMAIN texts THEN Shade(q, ImageAt(q))
  ELSE LET fate == texts[q][1]
           alpha == texts[q][2]
       IN CASE fate = "under" -> Shade(q, Layer(TextColor, alpha, ImageAt(q)))
            [] fate = "over"  -> Layer(TextColor, alpha, Shade(q, ImageAt(q)))
            [] fate = "lost"  -> Shade(q, ImageAt(q))

(* When fill_rect has returned, every place of the screen shows the image  *)
(* that went into the encoder, the rectangle blended over it exactly once  *)
(* where it lies, and what was printed meanwhile: under the rectangle or   *)
(* over it, depending on where the loop was.  Only the one pixel that      *)
(* fill_rect had read but not yet written may lose its text.               *)
PictureIsRight ==
  drawing = "done" => \A q \in Places : back_buffer[Index(q[1], q[2])] = Picture(q)
=============================================================================
