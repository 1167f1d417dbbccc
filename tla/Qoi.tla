-------------------------------- MODULE Qoi --------------------------------
(***************************************************************************)
(* The QOI codec of include/qoi.h, which fb.c compiles into the kernel and *)
(* whose decoder unpacks the wallpaper: an image is encoded and the bytes, *)
(* or the first of them, are decoded again.                                *)
(*                                                                         *)
(* Bytes are 0 .. 255 and their arithmetic wraps.  Encoder and decoder     *)
(* never run at the same time, so they share the variables they both call  *)
(* index, px, run and px_pos.                                              *)
(***************************************************************************)
EXTENDS Integers, Sequences

CONSTANTS
  Images,     \* what is encoded: [desc, pixels]
  Channels,   \* what qoi_decode is called with: 0, 3 or 4 (display_qoi_image: 4)
  Cuts        \* how many bytes may be missing at the end of what is decoded

QOI_OP_INDEX == 0
QOI_OP_DIFF  == 64
QOI_OP_LUMA  == 128
QOI_OP_RUN   == 192
QOI_OP_RGB   == 254
QOI_OP_RGBA  == 255

QOI_MAGIC       == 1903126886      \* "qoif"
QOI_HEADER_SIZE == 14
QOI_PIXELS_MAX  == 400000000
qoi_padding     == <<0, 0, 0, 0, 0, 0, 0, 1>>

Byte == 0 .. 255
qoi_rgba_t == [r : Byte, g : Byte, b : Byte, a : Byte]
Zero   == [r |-> 0, g |-> 0, b |-> 0, a |-> 0]
Opaque == [Zero EXCEPT !.a = 255]

QOI_COLOR_HASH(c) == c.r * 3 + c.g * 5 + c.b * 7 + c.a * 11

(* Converted to unsigned char, and to signed char. *)
U8(n) == n % 256
S8(n) == ((n + 128) % 256) - 128

(* An image has the pixels its description says, opaque ones if it has three channels. *)
ASSUME ImageAssumption ==
  /\ \A m \in Images :
       /\ m.desc.width \in Nat /\ m.desc.height \in Nat
       /\ {m.desc.channels, m.desc.colorspace} \subseteq Byte
       /\ m.pixels \in Seq(qoi_rgba_t)
       /\ Len(m.pixels) = m.desc.width * m.desc.height
       /\ m.desc.channels = 3 => \A k \in DOMAIN m.pixels : m.pixels[k].a = 255
  /\ Channels \subseteq {0, 3, 4} /\ Cuts \subseteq Nat

VARIABLES
  pc,        \* "call", "encode", "encoded", "decode", "return" or "null"
  image,     \* the image
  bytes,     \* the encoder's output; its p is Len(bytes)
  index, px, run,
  px_pos,    \* pixels done (px_pos / channels in the code)
  size,      \* how much of bytes the decoder is given
  p,         \* the decoder's position in bytes
  channels,  \* of the decoder's output
  pixels,    \* the decoder's output
  starved    \* whether the decoder has run out of chunks (history)

vars == <<pc, image, bytes, index, px, run, px_pos, size, p, channels, pixels,
          starved>>

decoder == <<size, p, channels, pixels, starved>>

Init ==
  /\ pc = "call"
  /\ image \in Images
  /\ bytes = <<>>
  /\ index = [h \in 0 .. 63 |-> Zero] /\ px = Opaque /\ run = 0 /\ px_pos = 0
  /\ size = 0 /\ p = 0 /\ channels = 0 /\ pixels = <<>> /\ starved = FALSE

-----------------------------------------------------------------------------
(* What both reject: an empty or too large image, or a form QOI lacks. *)
Rejected(desc) ==
  \/ desc.width = 0 \/ desc.height = 0
  \/ desc.channels \notin {3, 4}
  \/ desc.colorspace > 1
  \/ desc.height >= QOI_PIXELS_MAX \div desc.width

qoi_write_32(v) ==
  <<v \div 16777216, (v \div 65536) % 256, (v \div 256) % 256, v % 256>>

(* Up to the loop over the pixels; QOI_MALLOC may fail. *)
qoi_encode ==
  /\ pc = "call"
  /\ \/ /\ ~Rejected(image.desc)
        /\ pc' = "encode"
        /\ bytes' = qoi_write_32(QOI_MAGIC) \o qoi_write_32(image.desc.width)
                      \o qoi_write_32(image.desc.height)
                      \o <<image.desc.channels, image.desc.colorspace>>
     \/ /\ pc' = "null"
        /\ UNCHANGED bytes
  /\ UNCHANGED <<image, index, px, run, px_pos, decoder>>

max_size ==
  image.desc.width * image.desc.height * (image.desc.channels + 1)
    + QOI_HEADER_SIZE + Len(qoi_padding)

(* The chunk for a pixel that is in the index at h, or is not. *)
IndexChunk(h) == <<QOI_OP_INDEX + h>>

IsDiff(vr, vg, vb)     == {vr, vg, vb} \subseteq -2 .. 1
IsLuma(vg_r, vg, vg_b) == vg \in -32 .. 31 /\ {vg_r, vg_b} \subseteq -8 .. 7

NewChunk(c, prev) ==
  LET vr   == S8(c.r - prev.r)
      vg   == S8(c.g - prev.g)
      vb   == S8(c.b - prev.b)
      vg_r == S8(vr - vg)
      vg_b == S8(vb - vg)
  IN CASE c.a # prev.a -> <<QOI_OP_RGBA, c.r, c.g, c.b, c.a>>
       [] c.a = prev.a /\ IsDiff(vr, vg, vb) ->
            <<QOI_OP_DIFF + (vr + 2) * 16 + (vg + 2) * 4 + (vb + 2)>>
       [] c.a = prev.a /\ ~IsDiff(vr, vg, vb) /\ IsLuma(vg_r, vg, vg_b) ->
            <<QOI_OP_LUMA + (vg + 32), (vg_r + 8) * 16 + (vg_b + 8)>>
       [] OTHER -> <<QOI_OP_RGB, c.r, c.g, c.b>>

RunChunk(n) == <<QOI_OP_RUN + (n - 1)>>

RunEnds(n, last) == n = 62 \/ last

(* The loop body when the pixel repeats. *)
encode_run ==
  LET n    == run + 1
      ends == RunEnds(n, px_pos + 1 = Len(image.pixels))
  IN /\ pc = "encode" /\ px_pos < Len(image.pixels)
     /\ image.pixels[px_pos + 1] = px
     /\ bytes' = IF ends THEN bytes \o RunChunk(n) ELSE bytes
     /\ run' = IF ends THEN 0 ELSE n
     /\ px_pos' = px_pos + 1
     /\ UNCHANGED <<pc, image, index, px, decoder>>

(* The loop body when it differs from the one before. *)
encode_new ==
  LET c == image.pixels[px_pos + 1]
      h == QOI_COLOR_HASH(c) % 64
  IN /\ pc = "encode" /\ px_pos < Len(image.pixels)
     /\ c # px
     /\ bytes' = bytes \o (IF run > 0 THEN RunChunk(run) ELSE <<>>)
                       \o (IF index[h] = c THEN IndexChunk(h) ELSE NewChunk(c, px))
     /\ index' = [index EXCEPT ![h] = c]
     /\ run' = 0
     /\ px' = c
     /\ px_pos' = px_pos + 1
     /\ UNCHANGED <<pc, image, decoder>>

encode_return ==
  /\ pc = "encode" /\ px_pos = Len(image.pixels)
  /\ pc' = "encoded"
  /\ bytes' = bytes \o qoi_padding
  /\ UNCHANGED <<image, index, px, run, px_pos, decoder>>

-----------------------------------------------------------------------------
(* The byte at an offset; nothing is known of those behind the data. *)
At(k) == IF k < size THEN bytes[k + 1] ELSE 0

qoi_read_32(k) == At(k) * 16777216 + At(k + 1) * 65536 + At(k + 2) * 256 + At(k + 3)

header == [width |-> qoi_read_32(4), height |-> qoi_read_32(8),
           channels |-> At(12), colorspace |-> At(13)]

(* Somebody has the image, or less than all of it. *)
Handed ==
  /\ pc = "encoded"
  /\ pc' = "given"
  /\ \E cut \in Cuts : cut <= Len(bytes) /\ size' = Len(bytes) - cut
  /\ \E ch \in Channels : channels' = ch
  /\ UNCHANGED <<image, bytes, index, px, run, px_pos, p, pixels, starved>>

(* Up to the loop over the pixels; QOI_MALLOC may fail here too. *)
qoi_decode ==
  /\ pc = "given"
  /\ \/ /\ size >= QOI_HEADER_SIZE + Len(qoi_padding)
        /\ qoi_read_32(0) = QOI_MAGIC /\ ~Rejected(header)
        /\ pc' = "decode"
        /\ p' = QOI_HEADER_SIZE
        /\ channels' = IF channels = 0 THEN header.channels ELSE channels
     \/ /\ pc' = "null"
        /\ UNCHANGED <<p, channels>>
  /\ index' = [h \in 0 .. 63 |-> Zero] /\ px' = Opaque /\ run' = 0 /\ px_pos' = 0
  /\ UNCHANGED <<image, bytes, size, pixels, starved>>

(* What the chunk at p makes of the pixel before; it occupies Length(At(p)) bytes. *)
Decoded(c) ==
  LET b1 == At(p)
      b2 == At(p + 1)
      vg == (b1 % 64) - 32
  IN CASE b1 = QOI_OP_RGB  -> [r |-> At(p + 1), g |-> At(p + 2), b |-> At(p + 3), a |-> c.a]
       [] b1 = QOI_OP_RGBA -> [r |-> At(p + 1), g |-> At(p + 2), b |-> At(p + 3), a |-> At(p + 4)]
       [] b1 < QOI_OP_DIFF -> index[b1]
       [] b1 \in QOI_OP_DIFF .. QOI_OP_LUMA - 1 ->
            [r |-> U8(c.r + ((b1 \div 16) % 4) - 2), g |-> U8(c.g + ((b1 \div 4) % 4) - 2),
             b |-> U8(c.b + (b1 % 4) - 2), a |-> c.a]
       [] b1 \in QOI_OP_LUMA .. QOI_OP_RUN - 1 ->
            [r |-> U8(c.r + vg - 8 + (b2 \div 16)), g |-> U8(c.g + vg),
             b |-> U8(c.b + vg - 8 + (b2 % 16)), a |-> c.a]
       [] OTHER -> c

Length(b1) == CASE b1 = QOI_OP_RGB -> 4 [] b1 = QOI_OP_RGBA -> 5
                [] b1 \in QOI_OP_LUMA .. QOI_OP_RUN - 1 -> 2 [] OTHER -> 1

RunOf(b1) == IF b1 \in QOI_OP_RUN .. QOI_OP_RGB - 1 THEN b1 - QOI_OP_RUN ELSE 0

(* What is stored of a pixel. *)
Stored(c) == IF channels = 4 THEN <<c.r, c.g, c.b, c.a>> ELSE <<c.r, c.g, c.b>>

ToTheEnd == p < size                                \* mutant: padding is data

HasChunk == p < size - Len(qoi_padding)

px_len == header.width * header.height

Store(c) == pixels' = Append(pixels, Stored(c)) /\ px_pos' = px_pos + 1

(* The loop body within a run. *)
decode_run ==
  /\ pc = "decode" /\ px_pos < px_len
  /\ run > 0
  /\ run' = run - 1
  /\ Store(px)
  /\ UNCHANGED <<pc, image, bytes, index, px, size, p, channels, starved>>

(* mutant: runs and differences do not enter the index *)
decode_chunk_unindexed ==
  /\ pc = "decode" /\ px_pos < px_len
  /\ run = 0 /\ HasChunk
  /\ px' = Decoded(px)
  /\ index' = IF At(p) >= QOI_OP_RGB
              THEN [index EXCEPT ![QOI_COLOR_HASH(px') % 64] = px'] ELSE index
  /\ run' = RunOf(At(p))
  /\ p' = p + Length(At(p))
  /\ Store(px')
  /\ UNCHANGED <<pc, image, bytes, size, channels, starved>>

(* The loop body with a chunk. *)
decode_chunk ==
  /\ pc = "decode" /\ px_pos < px_len
  /\ run = 0 /\ HasChunk
  /\ px' = Decoded(px)
  /\ index' = [index EXCEPT ![QOI_COLOR_HASH(px') % 64] = px']
  /\ run' = RunOf(At(p))
  /\ p' = p + Length(At(p))
  /\ Store(px')
  /\ UNCHANGED <<pc, image, bytes, size, channels, starved>>

(* The loop body when there are no more. *)
decode_starved ==
  /\ pc = "decode" /\ px_pos < px_len
  /\ run = 0 /\ ~HasChunk
  /\ starved' = TRUE
  /\ Store(px)
  /\ UNCHANGED <<pc, image, bytes, index, px, run, size, p, channels>>

decode_return ==
  /\ pc = "decode" /\ px_pos = px_len
  /\ pc' = "return"
  /\ UNCHANGED <<image, bytes, index, px, run, px_pos, decoder>>

Over == pc \in {"return", "null"} /\ UNCHANGED vars

Next ==
  \/ qoi_encode \/ encode_run \/ encode_new \/ encode_return
  \/ Handed
  \/ qoi_decode \/ decode_run \/ decode_chunk \/ decode_starved \/ decode_return
  \/ Over

Spec == Init /\ [][Next]_vars

-----------------------------------------------------------------------------
(* Properties *)

(* The variables hold values of their types: bytes do not overflow, runs are *)
(* within the tag, and a stored pixel has as many bytes as asked for. *)
TypeOK ==
  /\ pc \in {"call", "encode", "encoded", "given", "decode", "return", "null"}
  /\ \A k \in DOMAIN bytes : bytes[k] \in Byte
  /\ index \in [0 .. 63 -> qoi_rgba_t] /\ px \in qoi_rgba_t
  /\ run \in 0 .. 62
  /\ \A k \in DOMAIN pixels : pixels[k] \in [1 .. channels -> Byte]

(***************************************************************************)
(* Nobody leaves the memory it has: the encoder stays within the max_size  *)
(* bytes it asked for (lines 373-378), and the decoder reads nothing       *)
(* behind its data, wherever that is cut off, as the padding is as long as *)
(* the longest chunk needs (line 538).                                     *)
(***************************************************************************)
StaysInside ==
  /\ pc \in {"encode", "encoded"} => Len(bytes) <= max_size
  /\ p <= size

(***************************************************************************)
(* The decoder reproduces the image pixel by pixel, although its index is  *)
(* filled in other places than the encoder's; from data that has been cut  *)
(* off it reproduces it up to the last chunk it has, and from whole data   *)
(* all of it.                                                              *)
(***************************************************************************)
RoundTrip ==
  /\ ~starved => \A k \in DOMAIN pixels : pixels[k] = Stored(image.pixels[k])
  /\ pc = "return" /\ size = Len(bytes) =>
       ~starved /\ Len(pixels) = Len(image.pixels)

=============================================================================
