------------------------------ MODULE MCPaint ------------------------------
(***************************************************************************)
(* Qoi on images of four pixels and on long runs: between the colours lie  *)
(* every kind of chunk, differences that wrap, and two that share a hash.  *)
(* Three of the images are painted on a screen of 3 by 2, one narrower,    *)
(* one wider and one lower than it; rectangles that stick out on either    *)
(* side, solid, translucent (140, as kernel_main's) and invisible; a       *)
(* character of three places.                                              *)
(***************************************************************************)
EXTENDS Paint

RGBA(r, g, b, a) == [r |-> r, g |-> g, b |-> b, a |-> a]

Solid  == {RGBA(0, 0, 0, 255),          \* what the decoder starts with
           RGBA(255, 1, 0, 255),        \* a small difference that wraps
           RGBA(7, 9, 2, 255),          \* a luma difference
           RGBA(200, 90, 20, 255),
           RGBA(199, 94, 22, 255),      \* small in red, luma in the others
           RGBA(205, 87, 20, 255)}       \* the hash of 200, 90, 20
Clear  == {Zero, RGBA(200, 90, 20, 64)}

Image(w, h, ch, s) ==
  [desc |-> [width |-> w, height |-> h, channels |-> ch, colorspace |-> 0], pixels |-> s]

Small == {Image(2, 2, 4, <<c, d, e, c2>>) : c, d, e \in Solid \cup Clear, c2 \in {Zero} \cup Solid}
Three == {Image(3, 1, 3, <<c, d, e>>) : c, d, e \in Solid}

Repeat(c, n) == [k \in 1 .. n |-> c]
Long  == {Image(n + 1, 1, 4, Repeat(c, n) \o <<d>>) :
            c, d \in {Opaque, RGBA(7, 9, 2, 255)}, n \in {61, 62, 63, 64, 125}}

Bad   == {Image(0, 1, 4, <<>>), Image(1, 0, 3, <<>>), Image(1, 1, 5, <<Opaque>>),
          [Image(1, 1, 4, <<Opaque>>) EXCEPT !.desc.colorspace = 2]}

Colors == [k \in 1 .. 8 |-> RGBA(7 * k, 90 + 10 * k, 200 - 20 * k, 255 - k)]

MCWallpapers == {Image(2, 2, 4, SubSeq(Colors, 1, 4)), Image(3, 1, 4, SubSeq(Colors, 2, 4)),
                 Image(4, 2, 4, Colors)}

MCImages == Small \cup Three \cup Long \cup Bad \cup MCWallpapers

Rectangle(rx, ry, w, h, alpha) ==
  [x |-> rx, y |-> ry, width |-> w, height |-> h, color |-> <<0, 250, 3, 100>>, alpha |-> alpha]

MCRects ==
  {Rectangle(0, 0, 3, 2, alpha) : alpha \in {0, 140, 255}}
    \cup {Rectangle(-1, -1, 3, 2, 140), Rectangle(1, 0, 3, 4, 140), Rectangle(1, 1, 4, 1, 255),
          Rectangle(3, 0, 1, 1, 140), Rectangle(-4, 0, 2, 2, 1)}
MCGlyphs ==
  {[q \in {<<gx, 0>>, <<gx, 1>>, <<gx + 1, 1>>} |->
      CASE q[2] = 0 -> 0 [] q = <<gx, 1>> -> 100 [] OTHER -> 255] : gx \in {0, 1}}
MCTextColor == <<0, 255, 255, 255>>
=============================================================================
