---------------------------- MODULE PaintProofs ----------------------------
(***************************************************************************)
(* Proofs about Paint and the codec it shows an image of.                  *)
(*                                                                         *)
(* The first part is about Qoi, for all images and however much of the     *)
(* data is lost: encoder and decoder stay in the memory they have, and     *)
(* every chunk the encoder writes for a pixel is decoded to that pixel.    *)
(*                                                                         *)
(* The second: what is painted stays inside the buffer and is what it      *)
(* should be, for every image, rectangle, glyph and size of the screen.    *)
(* PaintInv holds the loop indices to the part of the image or rectangle   *)
(* that is on the screen.  PictureInv says of every place, at every step,  *)
(* what it shows: what the wallpaper has reached, what fill_rect has been  *)
(* at, and the text that a thread has drawn below, above or in between.    *)
(***************************************************************************)
EXTENDS Paint, TLAPS

-----------------------------------------------------------------------------
(* Bytes and chunks. *)

LEMMA Wraps ==
  ASSUME NEW n \in Int
  PROVE  U8(n) \in Byte /\ S8(n) \in -128 .. 127
BY DEF U8, S8, Byte

(* Adding a difference in eight bits restores what it was taken from. *)
LEMMA DifferenceRestores ==
  ASSUME NEW a \in Byte, NEW b \in Byte
  PROVE  U8(b + S8(a - b)) = a
BY DEF U8, S8, Byte

(* Red and blue differ from green's difference by what is stored. *)
LEMMA LumaRestores ==
  ASSUME NEW a \in Byte, NEW b \in Byte, NEW vg \in -32 .. 31,
         S8(S8(a - b) - vg) \in -8 .. 7
  PROVE  U8(b + vg - 8 + (S8(S8(a - b) - vg) + 8)) = a
BY DEF U8, S8, Byte

(* The bits of a difference come out of its byte again. *)
LEMMA DiffBits ==
  \A vr, vg, vb \in -2 .. 1 : \A n \in Int :
    n = QOI_OP_DIFF + (vr + 2) * 16 + (vg + 2) * 4 + (vb + 2) =>
      /\ n \in QOI_OP_DIFF .. QOI_OP_LUMA - 1
      /\ ((n \div 16) % 4) - 2 = vr /\ ((n \div 4) % 4) - 2 = vg /\ (n % 4) - 2 = vb
BY DEF QOI_OP_DIFF, QOI_OP_LUMA

LEMMA LumaBits ==
  \A vg \in -32 .. 31 : \A u, v \in -8 .. 7 : \A n, m \in Int :
    n = QOI_OP_LUMA + (vg + 32) /\ m = (u + 8) * 16 + (v + 8) =>
      /\ n \in QOI_OP_LUMA .. QOI_OP_RUN - 1 /\ m \in Byte
      /\ (n % 64) - 32 = vg /\ m \div 16 = u + 8 /\ m % 16 = v + 8
BY DEF QOI_OP_LUMA, QOI_OP_RUN, Byte

LEMMA PixelBytes ==
  ASSUME NEW c \in qoi_rgba_t
  PROVE  /\ c.r \in Byte /\ c.g \in Byte /\ c.b \in Byte /\ c.a \in Byte
         /\ c = [r |-> c.r, g |-> c.g, b |-> c.b, a |-> c.a]
BY DEF qoi_rgba_t

(* Which bytes are which tags. *)
LEMMA DiffTag ==
  ASSUME NEW n \in QOI_OP_DIFF .. QOI_OP_LUMA - 1
  PROVE  /\ n \in Int /\ n # QOI_OP_RGB /\ n # QOI_OP_RGBA /\ ~(n < QOI_OP_DIFF)
         /\ n \notin QOI_OP_LUMA .. QOI_OP_RUN - 1
         /\ Length(n) = 1 /\ RunOf(n) = 0
BY DEF QOI_OP_RGB, QOI_OP_RGBA, QOI_OP_DIFF, QOI_OP_LUMA, QOI_OP_RUN, Length, RunOf

LEMMA LumaTag ==
  ASSUME NEW n \in QOI_OP_LUMA .. QOI_OP_RUN - 1
  PROVE  /\ n \in Int /\ n # QOI_OP_RGB /\ n # QOI_OP_RGBA /\ ~(n < QOI_OP_DIFF)
         /\ n \notin QOI_OP_DIFF .. QOI_OP_LUMA - 1
         /\ Length(n) = 2 /\ RunOf(n) = 0
BY DEF QOI_OP_RGB, QOI_OP_RGBA, QOI_OP_DIFF, QOI_OP_LUMA, QOI_OP_RUN, Length, RunOf

(* What is found at the decoder's position. *)
Found(chunk) == \A k \in 1 .. Len(chunk) : At(p + (k - 1)) = chunk[k]

DecodesTo(chunk, c, prev) ==
  Decoded(prev) = c /\ Length(At(p)) = Len(chunk) /\ RunOf(At(p)) = 0

LEMMA RGBAChunk ==
  ASSUME p \in Nat, NEW c \in qoi_rgba_t, NEW prev \in qoi_rgba_t,
         NEW chunk, chunk = <<QOI_OP_RGBA, c.r, c.g, c.b, c.a>>, Found(chunk)
  PROVE  DecodesTo(chunk, c, prev)
<1>1. /\ At(p) = 255 /\ At(p + 1) = c.r /\ At(p + 2) = c.g
      /\ At(p + 3) = c.b /\ At(p + 4) = c.a /\ Len(chunk) = 5
  <2>1. /\ Len(chunk) = 5 /\ chunk[1] = 255 /\ chunk[2] = c.r /\ chunk[3] = c.g
        /\ chunk[4] = c.b /\ chunk[5] = c.a
    BY DEF QOI_OP_RGBA
  <2>2. /\ At(p + (1 - 1)) = 255 /\ At(p + (2 - 1)) = c.r /\ At(p + (3 - 1)) = c.g
        /\ At(p + (4 - 1)) = c.b /\ At(p + (5 - 1)) = c.a
    BY <2>1 DEF Found
  <2>3. p + (1 - 1) = p /\ 2 - 1 = 1 /\ 3 - 1 = 2 /\ 4 - 1 = 3 /\ 5 - 1 = 4
    OBVIOUS
  <2> QED  BY <2>1, <2>2, <2>3
<1>2. Length(At(p)) = 5 /\ RunOf(At(p)) = 0
  BY <1>1 DEF Length, RunOf, QOI_OP_RGB, QOI_OP_RGBA, QOI_OP_LUMA, QOI_OP_RUN
<1>3. Decoded(prev) = [r |-> At(p + 1), g |-> At(p + 2), b |-> At(p + 3), a |-> At(p + 4)]
  <2>1. /\ At(p) = QOI_OP_RGBA /\ At(p) # QOI_OP_RGB /\ ~(At(p) < QOI_OP_DIFF)
        /\ At(p) \notin QOI_OP_DIFF .. QOI_OP_LUMA - 1
        /\ At(p) \notin QOI_OP_LUMA .. QOI_OP_RUN - 1
    BY <1>1 DEF QOI_OP_RGB, QOI_OP_RGBA, QOI_OP_DIFF, QOI_OP_LUMA, QOI_OP_RUN
  <2> QED  BY <2>1, Zenon DEF Decoded
<1> QED  BY <1>1, <1>2, <1>3, PixelBytes DEF DecodesTo

LEMMA RGBChunk ==
  ASSUME p \in Nat, NEW c \in qoi_rgba_t, NEW prev \in qoi_rgba_t, c.a = prev.a,
         NEW chunk, chunk = <<QOI_OP_RGB, c.r, c.g, c.b>>, Found(chunk)
  PROVE  DecodesTo(chunk, c, prev)
<1>1. /\ At(p) = 254 /\ At(p + 1) = c.r /\ At(p + 2) = c.g
      /\ At(p + 3) = c.b /\ Len(chunk) = 4
  <2>1. /\ Len(chunk) = 4 /\ chunk[1] = 254 /\ chunk[2] = c.r /\ chunk[3] = c.g
        /\ chunk[4] = c.b
    BY DEF QOI_OP_RGB
  <2>2. /\ At(p + (1 - 1)) = 254 /\ At(p + (2 - 1)) = c.r /\ At(p + (3 - 1)) = c.g
        /\ At(p + (4 - 1)) = c.b
    BY <2>1 DEF Found
  <2>3. p + (1 - 1) = p /\ 2 - 1 = 1 /\ 3 - 1 = 2 /\ 4 - 1 = 3
    OBVIOUS
  <2> QED  BY <2>1, <2>2, <2>3
<1>2. Length(At(p)) = 4 /\ RunOf(At(p)) = 0
  BY <1>1 DEF Length, RunOf, QOI_OP_RGB, QOI_OP_RGBA, QOI_OP_LUMA, QOI_OP_RUN
<1>3. Decoded(prev) = [r |-> At(p + 1), g |-> At(p + 2), b |-> At(p + 3), a |-> prev.a]
  <2>1. /\ At(p) = QOI_OP_RGB /\ At(p) # QOI_OP_RGBA /\ ~(At(p) < QOI_OP_DIFF)
        /\ At(p) \notin QOI_OP_DIFF .. QOI_OP_LUMA - 1
        /\ At(p) \notin QOI_OP_LUMA .. QOI_OP_RUN - 1
    BY <1>1 DEF QOI_OP_RGB, QOI_OP_RGBA, QOI_OP_DIFF, QOI_OP_LUMA, QOI_OP_RUN
  <2> QED  BY <2>1 DEF Decoded
<1> QED  BY <1>1, <1>2, <1>3, PixelBytes DEF DecodesTo

(* The bytes of a difference, and what the decoder makes of them. *)
DiffByte(vr, vg, vb) == QOI_OP_DIFF + (vr + 2) * 16 + (vg + 2) * 4 + (vb + 2)
LumaByte(vg)         == QOI_OP_LUMA + (vg + 32)
RestByte(u, v)       == (u + 8) * 16 + (v + 8)

LEMMA DiffDecoded ==
  ASSUME NEW prev \in qoi_rgba_t, NEW vr \in -2 .. 1, NEW vg \in -2 .. 1, NEW vb \in -2 .. 1,
         At(p) = DiffByte(vr, vg, vb)
  PROVE  /\ Decoded(prev) = [r |-> U8(prev.r + vr), g |-> U8(prev.g + vg),
                             b |-> U8(prev.b + vb), a |-> prev.a]
         /\ Length(At(p)) = 1 /\ RunOf(At(p)) = 0
<1> DEFINE n == At(p)
<1> HIDE DEF n
<1>1. n \in Int
  BY DEF n, DiffByte, QOI_OP_DIFF
<1>2. /\ n \in QOI_OP_DIFF .. QOI_OP_LUMA - 1
      /\ ((n \div 16) % 4) - 2 = vr /\ ((n \div 4) % 4) - 2 = vg /\ (n % 4) - 2 = vb
  BY <1>1, DiffBits DEF n, DiffByte
<1>3. /\ n # QOI_OP_RGB /\ n # QOI_OP_RGBA /\ ~(n < QOI_OP_DIFF)
      /\ n \notin QOI_OP_LUMA .. QOI_OP_RUN - 1
      /\ Length(n) = 1 /\ RunOf(n) = 0
  BY <1>2, DiffTag
<1>4. Decoded(prev) = [r |-> U8(prev.r + ((n \div 16) % 4) - 2),
                       g |-> U8(prev.g + ((n \div 4) % 4) - 2),
                       b |-> U8(prev.b + (n % 4) - 2), a |-> prev.a]
  BY <1>2, <1>3, Zenon DEF Decoded, n
<1>5. /\ prev.r + ((n \div 16) % 4) - 2 = prev.r + vr
      /\ prev.g + ((n \div 4) % 4) - 2 = prev.g + vg
      /\ prev.b + (n % 4) - 2 = prev.b + vb
  BY <1>1, <1>2, PixelBytes DEF Byte
<1> QED  BY <1>3, <1>4, <1>5 DEF n

LEMMA LumaDecoded ==
  ASSUME NEW prev \in qoi_rgba_t, NEW vg \in -32 .. 31, NEW u \in -8 .. 7, NEW v \in -8 .. 7,
         At(p) = LumaByte(vg), At(p + 1) = RestByte(u, v)
  PROVE  /\ Decoded(prev) = [r |-> U8(prev.r + vg - 8 + (u + 8)), g |-> U8(prev.g + vg),
                             b |-> U8(prev.b + vg - 8 + (v + 8)), a |-> prev.a]
         /\ Length(At(p)) = 2 /\ RunOf(At(p)) = 0
<1> DEFINE n == At(p)
           m == At(p + 1)
<1> HIDE DEF n, m
<1>1. n \in Int /\ m \in Int
  BY DEF n, m, LumaByte, RestByte, QOI_OP_LUMA
<1>2. /\ n \in QOI_OP_LUMA .. QOI_OP_RUN - 1
      /\ (n % 64) - 32 = vg /\ m \div 16 = u + 8 /\ m % 16 = v + 8
  BY DEF n, m, LumaByte, RestByte, QOI_OP_LUMA, QOI_OP_RUN
<1>3. /\ n # QOI_OP_RGB /\ n # QOI_OP_RGBA /\ ~(n < QOI_OP_DIFF)
      /\ n \notin QOI_OP_DIFF .. QOI_OP_LUMA - 1
      /\ Length(n) = 2 /\ RunOf(n) = 0
  BY <1>2, LumaTag
<1>4. Decoded(prev) = [r |-> U8(prev.r + ((n % 64) - 32) - 8 + (m \div 16)),
                       g |-> U8(prev.g + ((n % 64) - 32)),
                       b |-> U8(prev.b + ((n % 64) - 32) - 8 + (m % 16)), a |-> prev.a]
  BY <1>2, <1>3, Zenon DEF Decoded, n, m
<1> QED  BY <1>2, <1>3, <1>4 DEF n

LEMMA DiffChunk ==
  ASSUME p \in Nat, NEW c \in qoi_rgba_t, NEW prev \in qoi_rgba_t, c.a = prev.a,
         NEW vr \in -2 .. 1, NEW vg \in -2 .. 1, NEW vb \in -2 .. 1,
         vr = S8(c.r - prev.r), vg = S8(c.g - prev.g), vb = S8(c.b - prev.b),
         NEW chunk, chunk = <<DiffByte(vr, vg, vb)>>,
         Found(chunk)
  PROVE  DecodesTo(chunk, c, prev)
<1>1. At(p) = DiffByte(vr, vg, vb) /\ Len(chunk) = 1
  <2>1. Len(chunk) = 1 /\ chunk[1] = DiffByte(vr, vg, vb)
    OBVIOUS
  <2>2. At(p + (1 - 1)) = DiffByte(vr, vg, vb)
    BY <2>1 DEF Found
  <2>3. p + (1 - 1) = p
    OBVIOUS
  <2> QED  BY <2>1, <2>2, <2>3
<1>2. /\ Decoded(prev) = [r |-> U8(prev.r + vr), g |-> U8(prev.g + vg),
                          b |-> U8(prev.b + vb), a |-> prev.a]
      /\ Length(At(p)) = 1 /\ RunOf(At(p)) = 0
  BY <1>1, DiffDecoded, ZenonT(60)
<1>3. U8(prev.r + vr) = c.r /\ U8(prev.g + vg) = c.g /\ U8(prev.b + vb) = c.b
  BY PixelBytes, DifferenceRestores
<1> QED  BY <1>1, <1>2, <1>3, PixelBytes DEF DecodesTo

LEMMA LumaChunk ==
  ASSUME p \in Nat, NEW c \in qoi_rgba_t, NEW prev \in qoi_rgba_t, c.a = prev.a,
         NEW vg \in -32 .. 31, vg = S8(c.g - prev.g),
         NEW u \in -8 .. 7, u = S8(S8(c.r - prev.r) - vg),
         NEW v \in -8 .. 7, v = S8(S8(c.b - prev.b) - vg),
         NEW chunk, chunk = <<LumaByte(vg), RestByte(u, v)>>,
         Found(chunk)
  PROVE  DecodesTo(chunk, c, prev)
<1>1. /\ At(p) = LumaByte(vg) /\ At(p + 1) = RestByte(u, v)
      /\ Len(chunk) = 2
  <2>1. /\ Len(chunk) = 2 /\ chunk[1] = LumaByte(vg)
        /\ chunk[2] = RestByte(u, v)
    OBVIOUS
  <2>2. /\ At(p + (1 - 1)) = LumaByte(vg)
        /\ At(p + (2 - 1)) = RestByte(u, v)
    BY <2>1 DEF Found
  <2>3. p + (1 - 1) = p /\ 2 - 1 = 1
    OBVIOUS
  <2> QED  BY <2>1, <2>2, <2>3
<1>2. /\ Decoded(prev) = [r |-> U8(prev.r + vg - 8 + (u + 8)), g |-> U8(prev.g + vg),
                          b |-> U8(prev.b + vg - 8 + (v + 8)), a |-> prev.a]
      /\ Length(At(p)) = 2 /\ RunOf(At(p)) = 0
  BY <1>1, LumaDecoded, ZenonT(60)
<1>3. /\ U8(prev.r + vg - 8 + (u + 8)) = c.r
      /\ U8(prev.g + vg) = c.g
      /\ U8(prev.b + vg - 8 + (v + 8)) = c.b
  <2>1. /\ c.r \in Byte /\ c.g \in Byte /\ c.b \in Byte
        /\ prev.r \in Byte /\ prev.g \in Byte /\ prev.b \in Byte
    BY PixelBytes
  <2>2. U8(prev.r + vg - 8 + (S8(S8(c.r - prev.r) - vg) + 8)) = c.r
    BY <2>1, LumaRestores
  <2>3. U8(prev.g + S8(c.g - prev.g)) = c.g
    BY <2>1, DifferenceRestores
  <2>4. U8(prev.b + vg - 8 + (S8(S8(c.b - prev.b) - vg) + 8)) = c.b
    BY <2>1, LumaRestores
  <2> QED  BY <2>2, <2>3, <2>4
<1> QED  BY <1>1, <1>2, <1>3, PixelBytes DEF DecodesTo

(***************************************************************************)
(* Whatever pixel the encoder had before, and whatever it has now, the     *)
(* chunk it writes for it (lines 425-478) is decoded to that very pixel by *)
(* a decoder that had the same one before (lines 542-571), which goes on   *)
(* behind the chunk and starts no run: no tag is taken for another, and    *)
(* the differences wrap around in eight bits both ways.                    *)
(***************************************************************************)
THEOREM ChunkIsDecoded ==
  ASSUME p \in Nat, NEW c \in qoi_rgba_t, NEW prev \in qoi_rgba_t,
         Found(NewChunk(c, prev))
  PROVE  DecodesTo(NewChunk(c, prev), c, prev)
<1> DEFINE vr   == S8(c.r - prev.r)
           vg   == S8(c.g - prev.g)
           vb   == S8(c.b - prev.b)
           vg_r == S8(vr - vg)
           vg_b == S8(vb - vg)
           chunk == NewChunk(c, prev)
<1>1. CASE c.a # prev.a
  <2>1. chunk = <<QOI_OP_RGBA, c.r, c.g, c.b, c.a>>
    BY <1>1, Zenon DEF NewChunk
  <2> QED  BY <2>1, RGBAChunk
<1>2. CASE c.a = prev.a /\ IsDiff(vr, vg, vb)
  <2>1. chunk = <<DiffByte(vr, vg, vb)>>
    BY <1>2, Zenon DEF NewChunk, DiffByte
  <2>2. vr \in -2 .. 1 /\ vg \in -2 .. 1 /\ vb \in -2 .. 1
    BY <1>2, Zenon DEF IsDiff
  <2> QED  BY <1>2, <2>1, <2>2, DiffChunk
<1>3. CASE c.a = prev.a /\ ~IsDiff(vr, vg, vb) /\ IsLuma(vg_r, vg, vg_b)
  <2>1. chunk = <<LumaByte(vg), RestByte(vg_r, vg_b)>>
    BY <1>3, Zenon DEF NewChunk, LumaByte, RestByte
  <2>2. vg \in -32 .. 31 /\ vg_r \in -8 .. 7 /\ vg_b \in -8 .. 7
    BY <1>3, Zenon DEF IsLuma
  <2> QED  BY <1>3, <2>1, <2>2, LumaChunk
<1>4. CASE c.a = prev.a /\ ~IsDiff(vr, vg, vb) /\ ~IsLuma(vg_r, vg, vg_b)
  <2>1. chunk = <<QOI_OP_RGB, c.r, c.g, c.b>>
    BY <1>4, Zenon DEF NewChunk
  <2> QED  BY <1>4, <2>1, RGBChunk
<1> QED  BY <1>1, <1>2, <1>3, <1>4

-----------------------------------------------------------------------------
(* Chunks as sequences of bytes. *)

LEMMA NewChunkBytes ==
  ASSUME NEW c \in qoi_rgba_t, NEW prev \in qoi_rgba_t
  PROVE  /\ NewChunk(c, prev) \in Seq(Byte)
         /\ Len(NewChunk(c, prev)) \in 1 .. 5
         /\ c.a = prev.a => Len(NewChunk(c, prev)) \in 1 .. 4
<1> DEFINE vr   == S8(c.r - prev.r)
           vg   == S8(c.g - prev.g)
           vb   == S8(c.b - prev.b)
           vg_r == S8(vr - vg)
           vg_b == S8(vb - vg)
           chunk == NewChunk(c, prev)
<1>0. {c.r, c.g, c.b, c.a} \subseteq Byte /\ {QOI_OP_RGB, QOI_OP_RGBA} \subseteq Byte
  BY PixelBytes DEF Byte, QOI_OP_RGB, QOI_OP_RGBA
<1>1. CASE c.a # prev.a
  <2>1. chunk = <<QOI_OP_RGBA, c.r, c.g, c.b, c.a>>
    BY <1>1, Zenon DEF NewChunk
  <2> HIDE DEF chunk
  <2>2. chunk \in Seq(Byte) /\ Len(chunk) = 5
    BY <1>0, <2>1
  <2> QED  BY <1>1, <2>2 DEF chunk
<1>2. CASE c.a = prev.a /\ IsDiff(vr, vg, vb)
  <2>1. chunk = <<DiffByte(vr, vg, vb)>>
    BY <1>2, Zenon DEF NewChunk, DiffByte
  <2>2. vr \in -2 .. 1 /\ vg \in -2 .. 1 /\ vb \in -2 .. 1
    BY <1>2, Zenon DEF IsDiff
  <2> HIDE DEF chunk, vr, vg, vb
  <2>3. DiffByte(vr, vg, vb) \in Byte
    BY <2>2 DEF DiffByte, Byte, QOI_OP_DIFF
  <2>4. chunk \in Seq(Byte) /\ Len(chunk) = 1
    BY <2>1, <2>3
  <2> QED  BY <2>4 DEF chunk
<1>3. CASE c.a = prev.a /\ ~IsDiff(vr, vg, vb) /\ IsLuma(vg_r, vg, vg_b)
  <2>1. chunk = <<LumaByte(vg), RestByte(vg_r, vg_b)>>
    BY <1>3, Zenon DEF NewChunk, LumaByte, RestByte
  <2>2. vg \in -32 .. 31 /\ vg_r \in -8 .. 7 /\ vg_b \in -8 .. 7
    BY <1>3, Zenon DEF IsLuma
  <2> HIDE DEF chunk, vg, vg_r, vg_b
  <2>3. LumaByte(vg) \in Byte /\ RestByte(vg_r, vg_b) \in Byte
    BY <2>2 DEF LumaByte, RestByte, Byte, QOI_OP_LUMA
  <2>4. chunk \in Seq(Byte) /\ Len(chunk) = 2
    BY <2>1, <2>3
  <2> QED  BY <2>4 DEF chunk
<1>4. CASE c.a = prev.a /\ ~IsDiff(vr, vg, vb) /\ ~IsLuma(vg_r, vg, vg_b)
  <2>1. chunk = <<QOI_OP_RGB, c.r, c.g, c.b>>
    BY <1>4, Zenon DEF NewChunk
  <2> HIDE DEF chunk
  <2>2. chunk \in Seq(Byte) /\ Len(chunk) = 4
    BY <1>0, <2>1
  <2> QED  BY <2>2 DEF chunk
<1> QED  BY <1>1, <1>2, <1>3, <1>4

(* A run decodes to itself, and goes on for one pixel less. *)
LEMMA RunIsDecoded ==
  ASSUME NEW n \in 1 .. 62, NEW prev, Found(RunChunk(n)), p \in Nat
  PROVE  Decoded(prev) = prev /\ Length(At(p)) = 1 /\ RunOf(At(p)) = n - 1
<1>1. At(p) = 191 + n
  <2>1. Len(RunChunk(n)) = 1 /\ RunChunk(n)[1] = 191 + n
    BY DEF RunChunk, QOI_OP_RUN
  <2>2. At(p + (1 - 1)) = 191 + n
    BY <2>1 DEF Found
  <2> QED  BY <2>2
<1>2. /\ At(p) # QOI_OP_RGB /\ At(p) # QOI_OP_RGBA /\ ~(At(p) < QOI_OP_DIFF)
      /\ At(p) \notin QOI_OP_DIFF .. QOI_OP_LUMA - 1
      /\ At(p) \notin QOI_OP_LUMA .. QOI_OP_RUN - 1
  BY <1>1 DEF QOI_OP_RGB, QOI_OP_RGBA, QOI_OP_DIFF, QOI_OP_LUMA, QOI_OP_RUN
<1>3. Decoded(prev) = prev
  BY <1>2, Zenon DEF Decoded
<1>4. Length(At(p)) = 1
  BY <1>2, Zenon DEF Length
<1>5. RunOf(At(p)) = n - 1
  BY <1>1 DEF RunOf, QOI_OP_RUN, QOI_OP_RGB
<1> QED  BY <1>3, <1>4, <1>5

(* A place in the index decodes to what lies there. *)
LEMMA IndexIsDecoded ==
  ASSUME NEW h \in 0 .. 63, NEW prev, Found(IndexChunk(h)), p \in Nat
  PROVE  Decoded(prev) = index[h] /\ Length(At(p)) = 1 /\ RunOf(At(p)) = 0
<1>1. At(p) = h
  <2>1. Len(IndexChunk(h)) = 1 /\ IndexChunk(h)[1] = h
    BY DEF IndexChunk, QOI_OP_INDEX
  <2>2. At(p + (1 - 1)) = h
    BY <2>1 DEF Found
  <2> QED  BY <2>2
<1>2. /\ At(p) # QOI_OP_RGB /\ At(p) # QOI_OP_RGBA /\ At(p) < QOI_OP_DIFF
      /\ At(p) \notin QOI_OP_DIFF .. QOI_OP_LUMA - 1
      /\ At(p) \notin QOI_OP_LUMA .. QOI_OP_RUN - 1
  BY <1>1 DEF QOI_OP_RGB, QOI_OP_RGBA, QOI_OP_DIFF, QOI_OP_LUMA, QOI_OP_RUN
<1>3. Decoded(prev) = index[At(p)]
  BY <1>2, Zenon DEF Decoded
<1>4. Length(At(p)) = 1
  BY <1>2, Zenon DEF Length
<1>5. RunOf(At(p)) = 0
  BY <1>1 DEF RunOf, QOI_OP_RUN, QOI_OP_RGB
<1> QED  BY <1>1, <1>3, <1>4, <1>5

-----------------------------------------------------------------------------
(***************************************************************************)
(* What the encoder has written of image m is a chain of chunks.  A link   *)
(* is what the encoder knew between two of them: how many bytes (at) and   *)
(* pixels (pos) were done, the pixel before and its index.                 *)
(***************************************************************************)
Hash(c) == QOI_COLOR_HASH(c) % 64

Indices == [0 .. 63 -> qoi_rgba_t]
Link == [at : Nat, pos : Nat, px : qoi_rgba_t, index : Indices]

First == [at |-> QOI_HEADER_SIZE, pos |-> 0, px |-> Opaque,
          index |-> [h \in 0 .. 63 |-> Zero]]

(* The pixel before is in the index, or its place there is still empty. *)
Known(f, c) == f[Hash(c)] = c \/ (f[Hash(c)] = Zero /\ Hash(c) # 0)

Sound(m, s) ==
  /\ s \in Link
  /\ Known(s.index, s.px)
  /\ s.pos <= Len(m.pixels)
  /\ m.desc.channels = 3 => s.px.a = 255 /\ s.at <= QOI_HEADER_SIZE + s.pos * 4
  /\ s.at <= QOI_HEADER_SIZE + s.pos * 5

Written(b, at, chunk) ==
  at + Len(chunk) <= Len(b) /\ \A k \in 1 .. Len(chunk) : b[at + k] = chunk[k]

PixelChunk(c, s) ==
  IF s.index[Hash(c)] = c THEN IndexChunk(Hash(c)) ELSE NewChunk(c, s.px)

Fits(m, s, n) == s.pos + n <= Len(m.pixels)

Further(s, n, len, c, f) ==
  [at |-> s.at + len, pos |-> s.pos + n, px |-> c, index |-> f]

RunLink(m, b, s, t) ==
  \E n \in 1 .. 62 :
    /\ Fits(m, s, n)
    /\ \A k \in s.pos + 1 .. s.pos + n : m.pixels[k] = s.px
    /\ Written(b, s.at, RunChunk(n))
    /\ t = Further(s, n, 1, s.px, s.index)

NewLink(m, b, s, t) ==
  LET c == m.pixels[s.pos + 1]
  IN /\ s.pos < Len(m.pixels)
     /\ Written(b, s.at, PixelChunk(c, s))
     /\ t = Further(s, 1, Len(PixelChunk(c, s)), c, [s.index EXCEPT ![Hash(c)] = c])

Linked(m, b, s, t) == RunLink(m, b, s, t) \/ NewLink(m, b, s, t)

Chain(m, b, cs, last) ==
  /\ cs \in Seq(Link) /\ Len(cs) > 0
  /\ cs[1] = First /\ cs[Len(cs)] = last
  /\ \A j \in 1 .. Len(cs) : Sound(m, cs[j])
  /\ \A j \in 1 .. Len(cs) - 1 :
       Linked(m, b, cs[j], cs[j + 1]) /\ cs[j].at < last.at

Coding(m, b, last) == \E cs : Chain(m, b, cs, last)

LEMMA HashInRange ==
  ASSUME NEW c \in qoi_rgba_t
  PROVE  Hash(c) \in 0 .. 63
<1>1. \A r, g, b, a \in Byte : (r * 3 + g * 5 + b * 7 + a * 11) % 64 \in 0 .. 63
  BY DEF Byte
<1>2. c.r \in Byte /\ c.g \in Byte /\ c.b \in Byte /\ c.a \in Byte
  BY PixelBytes
<1> QED  BY <1>1, <1>2, Zenon DEF Hash, QOI_COLOR_HASH

LEMMA Colours ==
  Zero \in qoi_rgba_t /\ Opaque \in qoi_rgba_t /\ Hash(Zero) = 0 /\ Hash(Opaque) = 53
    /\ Opaque.a = 255
<1>1. Zero \in qoi_rgba_t /\ Opaque = [r |-> 0, g |-> 0, b |-> 0, a |-> 255]
  BY DEF Zero, Opaque, qoi_rgba_t, Byte
<1>2. Opaque \in qoi_rgba_t /\ Opaque.a = 255
  BY <1>1 DEF qoi_rgba_t, Byte
<1>3. /\ Zero.r = 0 /\ Zero.g = 0 /\ Zero.b = 0 /\ Zero.a = 0
      /\ Opaque.r = 0 /\ Opaque.g = 0 /\ Opaque.b = 0 /\ Opaque.a = 255
  BY <1>1 DEF Zero
<1>4. Hash(Zero) = 0 /\ Hash(Opaque) = 53
  BY <1>3 DEF Hash, QOI_COLOR_HASH
<1> QED  BY <1>1, <1>2, <1>4

LEMMA PixelChunkBytes ==
  ASSUME NEW m, NEW s, Sound(m, s), NEW c \in qoi_rgba_t, m.desc.channels = 3 => c.a = 255
  PROVE  /\ PixelChunk(c, s) \in Seq(Byte) /\ Len(PixelChunk(c, s)) \in 1 .. 5
         /\ m.desc.channels = 3 => Len(PixelChunk(c, s)) \in 1 .. 4
<1>1. s.px \in qoi_rgba_t /\ (m.desc.channels = 3 => s.px.a = 255)
  BY DEF Sound, Link
<1>2. CASE s.index[Hash(c)] = c
  <2>1. Hash(c) \in Byte
    BY HashInRange DEF Byte
  <2>2. IndexChunk(Hash(c)) \in Seq(Byte) /\ Len(IndexChunk(Hash(c))) = 1
    BY <2>1 DEF IndexChunk, QOI_OP_INDEX, Byte
  <2> QED  BY <1>2, <2>2 DEF PixelChunk
<1>3. CASE s.index[Hash(c)] # c
  <2>1. PixelChunk(c, s) = NewChunk(c, s.px)
    BY <1>3 DEF PixelChunk
  <2> QED  BY <1>1, <2>1, NewChunkBytes
<1> QED  BY <1>2, <1>3

LEMMA ImageFacts ==
  ASSUME NEW m \in Images
  PROVE  /\ m.desc.width \in Nat /\ m.desc.height \in Nat
         /\ m.desc.channels \in Byte /\ m.desc.colorspace \in Byte
         /\ m.pixels \in Seq(qoi_rgba_t) /\ Len(m.pixels) \in Nat
         /\ Len(m.pixels) = m.desc.width * m.desc.height
         /\ \A k \in 1 .. Len(m.pixels) :
              m.pixels[k] \in qoi_rgba_t /\ (m.desc.channels = 3 => m.pixels[k].a = 255)
BY ImageAssumption

(* An index with one more pixel in it. *)
LEMMA Indexed ==
  ASSUME NEW f \in Indices, NEW h \in 0 .. 63, NEW c \in qoi_rgba_t
  PROVE  /\ [f EXCEPT ![h] = c] \in Indices
         /\ [f EXCEPT ![h] = c][h] = c
         /\ \A g \in 0 .. 63 : g # h => [f EXCEPT ![h] = c][g] = f[g]
BY DEF Indices

(* A link further on, with its index in order, is sound. *)
LEMMA FurtherSound ==
  ASSUME NEW m \in Images, NEW s, NEW n, NEW len, NEW c, NEW f,
         Sound(m, s), n \in 1 .. 62, len \in 1 .. 5,
         m.desc.channels = 3 => len \in 1 .. 4 /\ c.a = 255,
         Fits(m, s, n), c \in qoi_rgba_t, f \in Indices,
         Known(f, c)
  PROVE  Sound(m, Further(s, n, len, c, f)) /\ Further(s, n, len, c, f).at > s.at
<1> DEFINE t == Further(s, n, len, c, f)
<1>1. PICK at, pos, max \in Nat : s.at = at /\ s.pos = pos /\ Len(m.pixels) = max
  BY ImageFacts DEF Sound, Link
<1>2. /\ pos + n <= max /\ at <= 14 + pos * 5
      /\ m.desc.channels = 3 => at <= 14 + pos * 4
  BY <1>1 DEF Sound, QOI_HEADER_SIZE, Fits
<1>3. /\ at + len \in Nat /\ pos + n \in Nat /\ at + len > at
      /\ at + len <= 14 + (pos + n) * 5
  <2>1. at <= 14 + pos * 5
    BY <1>2
  <2> QED  BY <2>1
<1>4. len \in 1 .. 4 /\ at <= 14 + pos * 4 => at + len <= 14 + (pos + n) * 4
  OBVIOUS
<1>5. t.at = at + len /\ t.pos = pos + n /\ t.px = c /\ t.index = f
  BY <1>1 DEF Further
<1>6. t \in Link
  BY <1>1, <1>3, Zenon DEF Link, Further
<1> HIDE DEF t
<1>7. Known(t.index, t.px)
  BY <1>5
<1>8. Sound(m, t) /\ t.at > s.at
  BY <1>1, <1>2, <1>3, <1>4, <1>5, <1>6, <1>7, Zenon DEF Sound, QOI_HEADER_SIZE
<1> QED  BY <1>8 DEF t

(* A chunk more leads from a sound link to a sound link. *)
LEMMA LinkedSound ==
  ASSUME NEW m \in Images, NEW b, NEW s, NEW t, Sound(m, s), Linked(m, b, s, t)
  PROVE  Sound(m, t) /\ t.at > s.at /\ t.at <= Len(b)
<1>0. s.px \in qoi_rgba_t /\ s.index \in Indices
      /\ (m.desc.channels = 3 => s.px.a = 255)
  BY DEF Sound, Link
<1>1. CASE RunLink(m, b, s, t)
  <2>1. PICK n, len :
          /\ n \in 1 .. 62 /\ len = 1
          /\ Fits(m, s, n)
          /\ Written(b, s.at, RunChunk(n))
          /\ t = Further(s, n, len, s.px, s.index)
    BY <1>1 DEF RunLink
  <2>2. /\ n \in 1 .. 62 /\ len \in 1 .. 5
        /\ m.desc.channels = 3 => len \in 1 .. 4 /\ s.px.a = 255
    BY <1>0, <2>1
  <2>3. Known(s.index, s.px)
    BY DEF Sound
  <2>4. s.at + 1 <= Len(b)
    <3>1. Len(RunChunk(n)) = 1
      BY DEF RunChunk
    <3> QED  BY <2>1, <3>1, Zenon DEF Written
  <2>5. t.at <= Len(b)
    BY <2>1, <2>4 DEF Further
  <2>6. Sound(m, t) /\ t.at > s.at
    <3>1. /\ Sound(m, Further(s, n, len, s.px, s.index))
          /\ Further(s, n, len, s.px, s.index).at > s.at
      BY <1>0, <2>1, <2>2, <2>3, FurtherSound
    <3> QED  BY <2>1, <3>1
  <2> QED  BY <2>5, <2>6
<1>2. CASE NewLink(m, b, s, t)
  <2> DEFINE c == m.pixels[s.pos + 1]
             len == Len(PixelChunk(c, s))
             f == [s.index EXCEPT ![Hash(c)] = c]
  <2>1. /\ s.pos < Len(m.pixels)
        /\ Written(b, s.at, PixelChunk(c, s))
        /\ t = Further(s, 1, len, c, f)
    BY <1>2, Zenon DEF NewLink
  <2>2. s.pos + 1 \in 1 .. Len(m.pixels) /\ Fits(m, s, 1)
    <3>1. PICK pos, max \in Nat : s.pos = pos /\ Len(m.pixels) = max
      BY ImageFacts DEF Sound, Link
    <3>2. pos < max
      BY <2>1, <3>1
    <3>3. pos + 1 \in 1 .. max /\ pos + 1 <= max
      BY <3>2
    <3> QED  BY <3>1, <3>3, Zenon DEF Fits
  <2>3. c \in qoi_rgba_t /\ (m.desc.channels = 3 => c.a = 255)
    BY <2>2, ImageFacts
  <2>4. len \in 1 .. 5 /\ (m.desc.channels = 3 => len \in 1 .. 4)
    BY <2>3, PixelChunkBytes
  <2>5. Hash(c) \in 0 .. 63
    BY <2>3, HashInRange
  <2> HIDE DEF len, c
  <2>6. f \in Indices /\ Known(f, c)
    BY <1>0, <2>3, <2>5, Indexed DEF Known
  <2>7. t.at <= Len(b)
    <3>1. s.at + len <= Len(b)
      BY <2>1, Zenon DEF Written, len
    <3> HIDE DEF f
    <3> QED  BY <2>1, <3>1 DEF Further
  <2>8. 1 \in 1 .. 62
    OBVIOUS
  <2> HIDE DEF f
  <2>9. Sound(m, t) /\ t.at > s.at
    <3>1. Sound(m, Further(s, 1, len, c, f)) /\ Further(s, 1, len, c, f).at > s.at
      BY <2>1, <2>2, <2>3, <2>4, <2>6, <2>8, FurtherSound
    <3> QED  BY <2>1, <3>1
  <2> QED  BY <2>7, <2>9
<1> QED  BY <1>1, <1>2 DEF Linked

(* Bytes behind a chunk leave it alone, and a chunk put at the end is there. *)
LEMMA WrittenGrows ==
  ASSUME NEW b \in Seq(Byte), NEW more \in Seq(Byte), NEW at \in Nat, NEW chunk \in Seq(Byte),
         Written(b, at, chunk)
  PROVE  Written(b \o more, at, chunk)
<1>1. at + Len(chunk) <= Len(b) /\ \A k \in 1 .. Len(chunk) : b[at + k] = chunk[k]
  BY DEF Written
<1>2. Len(b \o more) = Len(b) + Len(more) /\ \A k \in 1 .. Len(b) : (b \o more)[k] = b[k]
  OBVIOUS
<1>3. ASSUME NEW k \in 1 .. Len(chunk) PROVE (b \o more)[at + k] = chunk[k]
  <2>1. at + k \in 1 .. Len(b)
    BY <1>1
  <2> QED  BY <1>1, <1>2, <2>1
<1>4. at + Len(chunk) <= Len(b \o more)
  BY <1>1, <1>2
<1> QED  BY <1>3, <1>4 DEF Written

LEMMA WrittenAtEnd ==
  ASSUME NEW b \in Seq(Byte), NEW chunk \in Seq(Byte)
  PROVE  Written(b \o chunk, Len(b), chunk)
BY DEF Written

LEMMA RunBytes ==
  ASSUME NEW n \in 1 .. 62
  PROVE  RunChunk(n) \in Seq(Byte) /\ Len(RunChunk(n)) = 1
<1>1. PICK v : v = QOI_OP_RUN + (n - 1)
  OBVIOUS
<1>2. v \in Byte
  BY <1>1 DEF QOI_OP_RUN, Byte
<1>3. <<v>> \in Seq(Byte) /\ Len(<<v>>) = 1
  BY <1>2
<1> QED  BY <1>1, <1>3 DEF RunChunk

LEMMA LinkedGrows ==
  ASSUME NEW m \in Images, NEW b \in Seq(Byte), NEW more \in Seq(Byte), NEW s, NEW t,
         Sound(m, s), Linked(m, b, s, t)
  PROVE  Linked(m, b \o more, s, t)
<1>0. s.at \in Nat
  BY DEF Sound, Link
<1>1. CASE RunLink(m, b, s, t)
  <2>1. \A n \in 1 .. 62 : RunChunk(n) \in Seq(Byte)
    BY RunBytes
  <2>2. \A n \in 1 .. 62 :
          Written(b, s.at, RunChunk(n)) => Written(b \o more, s.at, RunChunk(n))
    BY <1>0, <2>1, WrittenGrows
  <2> QED  BY <1>1, <2>2 DEF Linked, RunLink
<1>2. CASE NewLink(m, b, s, t)
  <2> DEFINE c == m.pixels[s.pos + 1]
  <2>1. s.pos + 1 \in 1 .. Len(m.pixels)
    <3>1. PICK pos, max \in Nat : s.pos = pos /\ Len(m.pixels) = max
      BY ImageFacts DEF Sound, Link
    <3>2. pos < max
      BY <1>2, <3>1 DEF NewLink
    <3>3. pos + 1 \in 1 .. max
      BY <3>2
    <3> QED  BY <3>1, <3>3, Zenon
  <2>2. c \in qoi_rgba_t /\ (m.desc.channels = 3 => c.a = 255)
    BY <2>1, ImageFacts
  <2>3. PixelChunk(c, s) \in Seq(Byte)
    BY <2>2, PixelChunkBytes
  <2>4. Written(b, s.at, PixelChunk(c, s)) => Written(b \o more, s.at, PixelChunk(c, s))
    BY <1>0, <2>3, WrittenGrows
  <2> QED  BY <1>2, <2>4, Zenon DEF Linked, NewLink
<1> QED  BY <1>1, <1>2 DEF Linked

(* Before the first chunk, and with one more. *)
LEMMA CodingStarts ==
  ASSUME NEW m \in Images, NEW b
  PROVE  Coding(m, b, First)
<1> DEFINE none == [h \in 0 .. 63 |-> Zero]
<1>1. none \in Indices /\ none[53] = Zero
  BY Colours DEF Indices
<1>2. /\ First.at = 14 /\ First.pos = 0 /\ First.px = Opaque /\ First.index = none
      /\ First = [at |-> 14, pos |-> 0, px |-> Opaque, index |-> none]
  BY DEF First, QOI_HEADER_SIZE
<1> HIDE DEF none
<1>3. First \in Link
  BY <1>1, <1>2, Colours DEF Link
<1>4. Known(First.index, First.px)
  BY <1>1, <1>2, Colours DEF Known
<1>5. Sound(m, First)
  <2>1. Len(m.pixels) \in Nat
    BY ImageFacts
  <2>2. 0 <= Len(m.pixels)
    BY <2>1
  <2> QED  BY <1>2, <1>3, <1>4, <2>2, Colours DEF Sound, QOI_HEADER_SIZE
<1>6. Chain(m, b, <<First>>, First)
  BY <1>3, <1>5 DEF Chain
<1> QED  BY <1>6 DEF Coding

LEMMA CodingGrows ==
  ASSUME NEW m \in Images, NEW b \in Seq(Byte), NEW more \in Seq(Byte), NEW s, Coding(m, b, s)
  PROVE  Coding(m, b \o more, s)
<1>1. PICK cs : Chain(m, b, cs, s)
  BY DEF Coding
<1>2. \A j \in 1 .. Len(cs) - 1 : Linked(m, b \o more, cs[j], cs[j + 1])
  <2> TAKE j \in 1 .. Len(cs) - 1
  <2>1. Len(cs) \in Nat
    BY <1>1 DEF Chain
  <2>2. j \in 1 .. Len(cs)
    BY <2>1
  <2>3. Sound(m, cs[j]) /\ Linked(m, b, cs[j], cs[j + 1])
    BY <1>1, <2>2 DEF Chain
  <2> QED  BY <2>3, LinkedGrows
<1>3. Chain(m, b \o more, cs, s)
  BY <1>1, <1>2, Zenon DEF Chain
<1> QED  BY <1>3 DEF Coding

LEMMA CodingAppends ==
  ASSUME NEW m \in Images, NEW b, NEW s, NEW t, Coding(m, b, s), Linked(m, b, s, t)
  PROVE  Coding(m, b, t)
<1>1. PICK cs : Chain(m, b, cs, s)
  BY DEF Coding
<1> DEFINE ds == Append(cs, t)
<1>2. /\ cs \in Seq(Link) /\ Len(cs) \in Nat /\ Len(cs) > 0
      /\ cs[1] = First /\ cs[Len(cs)] = s
      /\ \A j \in 1 .. Len(cs) : Sound(m, cs[j])
      /\ \A j \in 1 .. Len(cs) - 1 : Linked(m, b, cs[j], cs[j + 1])
  BY <1>1 DEF Chain
<1>3. Sound(m, s)
  BY <1>2
<1>4. Sound(m, t) /\ t \in Link /\ s.at < t.at
  <2>1. Sound(m, t) /\ t.at > s.at
    BY <1>3, LinkedSound
  <2> QED  BY <2>1 DEF Sound
<1>5. /\ ds \in Seq(Link) /\ Len(ds) = Len(cs) + 1 /\ ds[Len(cs) + 1] = t
      /\ \A j \in 1 .. Len(cs) : ds[j] = cs[j]
  BY <1>2, <1>4
<1> HIDE DEF ds
<1>6. \A j \in 1 .. Len(ds) : Sound(m, ds[j])
  <2> TAKE j \in 1 .. Len(ds)
  <2>1. j \in 1 .. Len(cs) \/ j = Len(cs) + 1
    BY <1>2, <1>5
  <2> QED  BY <1>2, <1>4, <1>5, <2>1
<1>7. \A j \in 1 .. Len(ds) - 1 : Linked(m, b, ds[j], ds[j + 1])
  <2> TAKE j \in 1 .. Len(ds) - 1
  <2>1. j \in 1 .. Len(cs)
    BY <1>2, <1>5
  <2>2. CASE j = Len(cs)
    BY <1>2, <1>5, <2>1, <2>2
  <2>3. CASE j # Len(cs)
    <3>1. j \in 1 .. Len(cs) - 1 /\ j + 1 \in 1 .. Len(cs)
      BY <1>2, <2>1, <2>3
    <3> QED  BY <1>2, <1>5, <2>1, <3>1
  <2> QED  BY <2>2, <2>3
<1>8. ds[1] = First /\ ds[Len(ds)] = t /\ Len(ds) > 0
  <2>1. 1 \in 1 .. Len(cs)
    BY <1>2
  <2>2. Len(cs) + 1 > 0
    BY <1>2
  <2> QED  BY <1>2, <1>5, <2>1, <2>2
<1>9. ASSUME NEW j \in 1 .. Len(ds) - 1 PROVE ds[j].at < t.at
  <2>1. j \in 1 .. Len(cs)
    BY <1>2, <1>5
  <2>2. CASE j = Len(cs)
    BY <1>2, <1>4, <1>5, <2>1, <2>2
  <2>3. CASE j # Len(cs)
    <3>1. j \in 1 .. Len(cs) - 1
      BY <1>2, <2>1, <2>3
    <3>2. cs[j].at < s.at
      BY <1>1, <3>1 DEF Chain
    <3>3. cs[j] \in Link /\ s \in Link
      BY <1>2, <1>3, <2>1 DEF Sound
    <3>4. PICK g, d, e \in Nat : cs[j].at = g /\ s.at = d /\ t.at = e
      BY <1>4, <3>3 DEF Link
    <3>5. g < d /\ d < e
      BY <1>4, <3>2, <3>4
    <3>6. g < e
      BY <3>5
    <3> QED  BY <1>5, <2>1, <3>4, <3>6
  <2> QED  BY <2>2, <2>3
<1>10. Chain(m, b, ds, t)
  BY <1>5, <1>6, <1>7, <1>8, <1>9 DEF Chain
<1> QED  BY <1>10 DEF Coding

-----------------------------------------------------------------------------
(***************************************************************************)
(* The inductive invariant.  While it encodes, the encoder has written a   *)
(* chain of chunks for all pixels but those of the run it is counting.     *)
(***************************************************************************)
State == [at |-> Len(bytes), pos |-> px_pos - run, px |-> px, index |-> index]

(* What qoi_encode writes before the chunks. *)
Header(m) == qoi_write_32(QOI_MAGIC) \o qoi_write_32(m.desc.width)
               \o qoi_write_32(m.desc.height) \o <<m.desc.channels, m.desc.colorspace>>

Encoding ==
  /\ ~Rejected(image.desc)
  /\ px_pos <= Len(image.pixels) /\ run <= px_pos
  /\ px_pos = Len(image.pixels) => run = 0
  /\ \A k \in px_pos - run + 1 .. px_pos : image.pixels[k] = px
  /\ Written(bytes, 0, Header(image))
  /\ Coding(image, bytes, State)

(* All of it is there, and padding behind it. *)
Whole(m, b, s) == Coding(m, b, s) /\ s.pos = Len(m.pixels) /\ s.at + 8 = Len(b)

Coded ==
  /\ ~Rejected(image.desc)
  /\ Written(bytes, 0, Header(image))
  /\ \E s : Whole(image, bytes, s)

(***************************************************************************)
(* As long as it has chunks, the decoder is at one of the encoder's links, *)
(* or within the run before it; its index differs only in what the encoder *)
(* has not set, which no chunk refers to, as only Zero has the hash 0.     *)
(***************************************************************************)
Agree(f, g) == \A h \in 0 .. 63 : f[h] = g[h] \/ (g[h] = Zero /\ h # 0)

Follows(s) ==
  /\ p = s.at /\ px_pos + run = s.pos /\ px = s.px
  /\ \A k \in px_pos + 1 .. s.pos : image.pixels[k] = px
  /\ Agree(index, s.index)

OnTheWay ==
  \E cs, s : /\ Chain(image, bytes, cs, s) /\ s.pos = Len(image.pixels) /\ s.at + 8 = Len(bytes)
             /\ \E j \in 1 .. Len(cs) : Follows(cs[j])

Decoding ==
  /\ channels \in {3, 4}
  /\ px_pos <= Len(image.pixels) /\ Len(pixels) = px_pos
  /\ 22 <= size /\ p <= size
  /\ starved => run = 0 /\ ~HasChunk /\ size < Len(bytes)
  /\ ~starved => OnTheWay /\ \A k \in 1 .. Len(pixels) : pixels[k] = Stored(image.pixels[k])

Output(ch) == [1 .. ch -> Byte]

Typed ==
  /\ pc \in {"call", "encode", "encoded", "given", "decode", "return", "null"}
  /\ image \in Images /\ bytes \in Seq(Byte) /\ index \in Indices /\ px \in qoi_rgba_t
  /\ run \in 0 .. 61 /\ px_pos \in Nat /\ size \in Nat /\ p \in Nat
  /\ channels \in {0, 3, 4} /\ pixels \in Seq(Output(channels)) /\ starved \in BOOLEAN

Fresh == bytes = <<>> /\ index = First.index /\ px = Opaque /\ run = 0 /\ px_pos = 0

IInv ==
  /\ Typed
  /\ pc = "call" => Fresh
  /\ pc \notin {"decode", "return"} => p = 0 /\ pixels = <<>> /\ starved = FALSE
  /\ pc = "encode" => Encoding
  /\ pc \in {"encoded", "given", "decode", "return"} => Coded
  /\ pc \in {"given", "decode", "return"} => size <= Len(bytes)
  /\ pc \in {"decode", "return"} => Decoding
  /\ pc = "return" => px_pos = Len(image.pixels)

LEMMA Growing ==
  ASSUME NEW m \in Images, NEW b \in Seq(Byte), NEW s, NEW t, NEW chunk \in Seq(Byte),
         Coding(m, b, s), Linked(m, b \o chunk, s, t)
  PROVE  Coding(m, b \o chunk, t)
BY CodingGrows, CodingAppends

(* What qoi_write_32 is called with, and that qoi_read_32 gets it back. *)
Word == {v \in Nat : v \div 16777216 < 128}

(* What qoi_read_32 makes of four bytes. *)
WordOf(w) == w[1] * 16777216 + w[2] * 65536 + w[3] * 256 + w[4]

LEMMA WordBytes ==
  ASSUME NEW v \in Word, NEW w, w = qoi_write_32(v)
  PROVE  w \in Seq(Byte) /\ Len(w) = 4 /\ WordOf(w) = v
<1>1. PICK v1, v2, v3, v4 : /\ v1 = v \div 16777216 /\ v2 = (v \div 65536) % 256
                           /\ v3 = (v \div 256) % 256 /\ v4 = v % 256
  BY SMT
<1>2. v1 \in Byte /\ v2 \in Byte /\ v3 \in Byte /\ v4 \in Byte
  BY <1>1, SMT DEF Byte, Word
<1>3. v1 * 16777216 + v2 * 65536 + v3 * 256 + v4 = v
  BY <1>1, SMT DEF Word
<1>4. <<v1, v2, v3, v4>> \in Seq(Byte) /\ Len(<<v1, v2, v3, v4>>) = 4
  BY <1>2, SMT
<1>5. w = <<v1, v2, v3, v4>>
  BY <1>1, SMT DEF qoi_write_32
<1>6. w[1] = v1 /\ w[2] = v2 /\ w[3] = v3 /\ w[4] = v4
  BY <1>5, SMT
<1> QED  BY <1>3, <1>4, <1>5, <1>6, SMT DEF WordOf

LEMMA Joined ==
  ASSUME NEW v \in Seq(Byte), NEW w \in Seq(Byte)
  PROVE  /\ v \o w \in Seq(Byte) /\ Len(v \o w) = Len(v) + Len(w)
         /\ \A k \in 1 .. Len(v) : (v \o w)[k] = v[k]
         /\ \A k \in 1 .. Len(w) : (v \o w)[Len(v) + k] = w[k]
OBVIOUS

LEMMA HeaderBytes ==
  ASSUME NEW m \in Images, ~Rejected(m.desc)
  PROVE  /\ Header(m) \in Seq(Byte) /\ Len(Header(m)) = 14
         /\ m.desc.width \in Word /\ m.desc.height \in Word
         /\ \A k \in 1 .. 4 : /\ Header(m)[4 + k] = qoi_write_32(m.desc.width)[k]
                              /\ Header(m)[8 + k] = qoi_write_32(m.desc.height)[k]
<1>1. PICK w, h, c, o :
        /\ w = m.desc.width /\ h = m.desc.height
        /\ c = m.desc.channels /\ o = m.desc.colorspace
  OBVIOUS
<1>2. w \in Nat /\ h \in Nat /\ c \in Byte /\ o \in Byte
  BY <1>1, ImageFacts
<1>3. w < 400000000 /\ h < 400000000
  <2>1. w # 0 /\ h # 0 /\ ~(h >= 400000000 \div w)
    BY <1>1, SMT DEF Rejected, QOI_PIXELS_MAX
  <2> QED  BY <1>2, <2>1, SMT
<1>4. w \in Word /\ h \in Word /\ QOI_MAGIC \in Word
  BY <1>2, <1>3, SMT DEF QOI_MAGIC, Word
<1>5. PICK q, r, t, u :
        /\ q = qoi_write_32(QOI_MAGIC) /\ r = qoi_write_32(w)
        /\ t = qoi_write_32(h) /\ u = <<c, o>>
  OBVIOUS
<1>6. /\ q \in Seq(Byte) /\ r \in Seq(Byte) /\ t \in Seq(Byte)
      /\ Len(q) = 4 /\ Len(r) = 4 /\ Len(t) = 4
  BY <1>4, <1>5, WordBytes
<1>7. u \in Seq(Byte) /\ Len(u) = 2
  BY <1>2, <1>5
<1>8. /\ q \o r \o t \o u \in Seq(Byte) /\ Len(q \o r \o t \o u) = 14
      /\ \A k \in 1 .. 4 : /\ (q \o r \o t \o u)[4 + k] = r[k]
                           /\ (q \o r \o t \o u)[8 + k] = t[k]
  <2>1. PICK v, z : v = q \o r /\ z = v \o t
    OBVIOUS
  <2>2. /\ v \in Seq(Byte) /\ Len(v) = 8
        /\ \A k \in 1 .. 4 : v[4 + k] = r[k]
    <3>1. /\ q \o r \in Seq(Byte) /\ Len(q \o r) = Len(q) + Len(r)
          /\ \A k \in 1 .. Len(r) : (q \o r)[Len(q) + k] = r[k]
      BY <1>6, Joined
    <3> QED  BY <1>6, <2>1, <3>1
  <2>3. /\ z \in Seq(Byte) /\ Len(z) = 12
        /\ \A k \in 1 .. 8 : z[k] = v[k]
        /\ \A k \in 1 .. 4 : z[8 + k] = t[k]
    BY <1>6, <2>1, <2>2, Joined
  <2>4. /\ z \o u \in Seq(Byte) /\ Len(z \o u) = 14
        /\ \A k \in 1 .. 12 : (z \o u)[k] = z[k]
    <3>1. /\ z \o u \in Seq(Byte) /\ Len(z \o u) = Len(z) + Len(u)
          /\ \A k \in 1 .. Len(z) : (z \o u)[k] = z[k]
      BY <1>7, <2>3, Joined
    <3> QED  BY <1>7, <2>3, <3>1, SMTT(60)
  <2>5. ASSUME NEW k \in 1 .. 4
        PROVE  (z \o u)[4 + k] = r[k] /\ (z \o u)[8 + k] = t[k]
    <3>1. 4 + k \in 1 .. 8 /\ 4 + k \in 1 .. 12 /\ 8 + k \in 1 .. 12
      OBVIOUS
    <3> QED  BY <2>2, <2>3, <2>4, <3>1
  <2> QED  BY <2>1, <2>4, <2>5
<1>9. Header(m) = q \o r \o t \o u
  BY <1>1, <1>5, Zenon DEF Header
<1> QED  BY <1>1, <1>4, <1>5, <1>8, <1>9

(* What the decoder is given is the size of the image. *)
LEMMA HeaderIsRead ==
  ASSUME NEW m \in Images, ~Rejected(m.desc), bytes \in Seq(Byte), size \in Nat,
         Written(bytes, 0, Header(m)), 22 <= size
  PROVE  /\ header.width = m.desc.width /\ header.height = m.desc.height
         /\ px_len = Len(m.pixels)
<1>1. \A k \in 1 .. 14 : At(k - 1) = Header(m)[k]
  <2>1. Len(Header(m)) = 14
    BY HeaderBytes
  <2> TAKE k \in 1 .. 14
  <2>2. bytes[0 + k] = Header(m)[k]
    BY <2>1 DEF Written
  <2>3. At(k - 1) = bytes[(k - 1) + 1]
    BY DEF At
  <2>4. (k - 1) + 1 = 0 + k
    OBVIOUS
  <2> QED  BY <2>2, <2>3, <2>4
<1>2. PICK w, h : w = qoi_write_32(m.desc.width) /\ h = qoi_write_32(m.desc.height)
  OBVIOUS
<1>3. /\ At(4) = w[1] /\ At(5) = w[2] /\ At(6) = w[3] /\ At(7) = w[4]
      /\ At(8) = h[1] /\ At(9) = h[2] /\ At(10) = h[3] /\ At(11) = h[4]
  <2>1. \A k \in 1 .. 4 : Header(m)[4 + k] = w[k] /\ Header(m)[8 + k] = h[k]
    BY <1>2, HeaderBytes
  <2>2. \A k \in 1 .. 4 : At(3 + k) = w[k] /\ At(7 + k) = h[k]
    BY <1>1, <2>1
  <2> QED  BY <2>2
<1>4. qoi_read_32(4) = m.desc.width /\ qoi_read_32(8) = m.desc.height
  <2>1. m.desc.width \in Word /\ m.desc.height \in Word
    BY HeaderBytes
  <2>2. WordOf(w) = m.desc.width
    BY <1>2, <2>1, WordBytes
  <2>3. WordOf(h) = m.desc.height
    BY <1>2, <2>1, WordBytes
  <2>4. qoi_read_32(4) = WordOf(w) /\ qoi_read_32(8) = WordOf(h)
    BY <1>3, SMT DEF qoi_read_32, WordOf
  <2> QED  BY <2>2, <2>3, <2>4
<1>5. header.width = m.desc.width /\ header.height = m.desc.height
  BY <1>4 DEF header
<1> QED  BY <1>5, ImageFacts DEF px_len

-----------------------------------------------------------------------------
(* The steps of the encoder. *)

LEMMA EncodeStarts ==
  ASSUME IInv, qoi_encode
  PROVE  IInv'
<1>1. /\ pc = "call" /\ Fresh /\ Typed
      /\ p = 0 /\ pixels = <<>> /\ starved = FALSE
      /\ UNCHANGED <<image, index, px, run, px_pos, size, p, channels, pixels, starved>>
  BY DEF IInv, qoi_encode, decoder
<1>2. image \in Images
  BY <1>1 DEF Typed
<1>3. CASE pc' = "null" /\ UNCHANGED bytes
  <2>1. Typed'
    BY <1>1, <1>3 DEF Typed
  <2> QED  BY <1>1, <1>3, <2>1 DEF IInv
<1>4. CASE ~Rejected(image.desc) /\ pc' = "encode" /\ bytes' = Header(image)
  <2>1. Header(image) \in Seq(Byte) /\ Len(Header(image)) = 14
    BY <1>2, <1>4, HeaderBytes
  <2>2. Typed'
    BY <1>1, <1>4, <2>1 DEF Typed
  <2>3. Len(image.pixels) > 0
    <3>1. PICK w, h : w = image.desc.width /\ h = image.desc.height
      OBVIOUS
    <3>2. w \in Nat /\ h \in Nat /\ w # 0 /\ h # 0 /\ Len(image.pixels) = w * h
      BY <1>2, <1>4, <3>1, ImageFacts DEF Rejected
    <3>3. w * h > 0
      BY <3>2
    <3> QED  BY <3>2, <3>3
  <2>4. Written(Header(image), 0, Header(image))
    BY <2>1 DEF Written
  <2>5. State' = First
    <3>1. Len(bytes') = QOI_HEADER_SIZE
      BY <1>4, <2>1 DEF QOI_HEADER_SIZE
    <3>2. (px_pos - run)' = 0 /\ px' = Opaque /\ index' = First.index
      BY <1>1 DEF Fresh
    <3> QED  BY <3>1, <3>2 DEF State, First
  <2>6. Coding(image, bytes', First)
    BY <1>2, CodingStarts
  <2>7. Encoding'
    <3>1. image' = image /\ bytes' = Header(image) /\ px_pos' = 0 /\ run' = 0
      BY <1>1, <1>4 DEF Fresh
    <3>2. ~Rejected(image'.desc) /\ Written(bytes', 0, Header(image')) /\ Coding(image', bytes', State')
      BY <1>4, <2>4, <2>5, <2>6, <3>1
    <3> QED  BY <2>3, <3>1, <3>2 DEF Encoding
  <2> QED  BY <1>1, <1>4, <2>2, <2>7 DEF IInv
<1> QED  BY <1>3, <1>4, Zenon DEF qoi_encode, Header

LEMMA EncodeRuns ==
  ASSUME IInv, encode_run
  PROVE  IInv'
<1> DEFINE n == run + 1
           ends == RunEnds(n, px_pos + 1 = Len(image.pixels))
<1>1. /\ pc = "encode" /\ Encoding /\ Typed
      /\ p = 0 /\ pixels = <<>> /\ starved = FALSE
      /\ px_pos < Len(image.pixels) /\ image.pixels[px_pos + 1] = px
      /\ px_pos' = px_pos + 1
      /\ UNCHANGED <<pc, image, index, px, size, p, channels, pixels, starved>>
  BY DEF IInv, encode_run, decoder
<1>2. bytes' = (IF ends THEN bytes \o RunChunk(n) ELSE bytes) /\ run' = (IF ends THEN 0 ELSE n)
  BY DEF encode_run
<1>3. /\ image \in Images /\ bytes \in Seq(Byte) /\ run \in 0 .. 61 /\ px_pos \in Nat
      /\ run <= px_pos /\ Len(image.pixels) \in Nat
  BY <1>1, ImageFacts DEF Typed, Encoding
<1>4. \A k \in px_pos - run + 1 .. px_pos + 1 : image.pixels[k] = px
  <2> TAKE k \in px_pos - run + 1 .. px_pos + 1
  <2>1. k \in px_pos - run + 1 .. px_pos \/ k = px_pos + 1
    BY <1>3
  <2> QED  BY <1>1, <2>1 DEF Encoding
<1>5. Written(bytes, 0, Header(image)) /\ ~Rejected(image.desc) /\ Coding(image, bytes, State)
  BY <1>1 DEF Encoding
<1>6. CASE ~ends
  <2>1. bytes' = bytes /\ run' = n
    BY <1>2, <1>6
  <2>2. n # 62 /\ px_pos + 1 # Len(image.pixels)
    BY <1>6 DEF RunEnds
  <2>3. State' = State
    <3>1. (px_pos + 1) - n = px_pos - run
      BY <1>3
    <3> QED  BY <1>1, <2>1, <3>1 DEF State
  <2>4. Typed'
    <3>1. n \in 0 .. 61 /\ px_pos + 1 \in Nat
      BY <1>3, <2>2
    <3> QED  BY <1>1, <2>1, <3>1 DEF Typed
  <2>5. Encoding'
    <3>1. /\ px_pos + 1 <= Len(image.pixels) /\ n <= px_pos + 1
          /\ (px_pos + 1) - n + 1 = px_pos - run + 1
      BY <1>1, <1>3
    <3> QED  BY <1>1, <1>4, <1>5, <2>1, <2>2, <2>3, <3>1 DEF Encoding
  <2> QED  BY <1>1, <2>4, <2>5 DEF IInv
<1>7. CASE ends
  <2>1. bytes' = bytes \o RunChunk(n) /\ run' = 0
    BY <1>2, <1>7
  <2>2. n \in 1 .. 62 /\ px_pos + 1 \in Nat /\ n <= px_pos + 1
    BY <1>3
  <2>3. RunChunk(n) \in Seq(Byte) /\ Len(RunChunk(n)) = 1
    BY <2>2, RunBytes
  <2>4. State' = Further(State, n, 1, px, index)
    <3>1. Len(bytes') = Len(bytes) + 1
      <4>1. Len(bytes \o RunChunk(n)) = Len(bytes) + Len(RunChunk(n))
        BY <1>3, <2>3, Joined
      <4> QED  BY <2>1, <2>3, <4>1
    <3>2. (px_pos + 1) - 0 = (px_pos - run) + n
      BY <1>3
    <3> QED  BY <1>1, <2>1, <3>1, <3>2 DEF State, Further
  <2>5. RunLink(image, bytes', State, State')
    <3>1. State.pos = px_pos - run /\ State.at = Len(bytes) /\ State.px = px /\ State.index = index
      BY DEF State
    <3>2. Fits(image, State, n)
      BY <1>1, <1>3, <3>1 DEF Fits
    <3>3. \A k \in State.pos + 1 .. State.pos + n : image.pixels[k] = State.px
      <4>1. (px_pos - run) + n = px_pos + 1
        BY <1>3
      <4> QED  BY <1>4, <3>1, <4>1
    <3>4. Written(bytes', State.at, RunChunk(n))
      BY <1>3, <2>1, <2>3, <3>1, WrittenAtEnd
    <3> HIDE DEF n
    <3> QED  BY <2>2, <2>4, <3>1, <3>2, <3>3, <3>4 DEF RunLink
  <2>6. Coding(image, bytes', State')
    BY <1>3, <1>5, <2>1, <2>3, <2>5, Growing DEF Linked
  <2>7. Written(bytes', 0, Header(image))
    BY <1>3, <1>5, <2>1, <2>3, WrittenGrows, HeaderBytes
  <2>8. bytes' \in Seq(Byte)
    BY <1>3, <2>1, <2>3
  <2>9. Typed'
    BY <1>1, <2>1, <2>2, <2>8 DEF Typed
  <2>10. Encoding'
    <3>1. px_pos + 1 <= Len(image.pixels) /\ 0 <= px_pos + 1
      BY <1>1, <1>3
    <3>2. \A k \in (px_pos + 1) - 0 + 1 .. px_pos + 1 : image.pixels[k] = px
      BY <1>3
    <3> QED  BY <1>1, <1>5, <2>1, <2>6, <2>7, <3>1, <3>2 DEF Encoding
  <2> QED  BY <1>1, <2>9, <2>10 DEF IInv
<1> QED  BY <1>6, <1>7

LEMMA EncodeNews ==
  ASSUME IInv, encode_new
  PROVE  IInv'
<1> DEFINE c == image.pixels[px_pos + 1]
           h == QOI_COLOR_HASH(c) % 64
           before == IF run > 0 THEN RunChunk(run) ELSE <<>>
           chunk == IF index[h] = c THEN IndexChunk(h) ELSE NewChunk(c, px)
           b1 == bytes \o before
           s1 == [at |-> Len(b1), pos |-> px_pos, px |-> px, index |-> index]
<1>1. /\ pc = "encode" /\ Encoding /\ Typed
      /\ p = 0 /\ pixels = <<>> /\ starved = FALSE
      /\ px_pos < Len(image.pixels)
      /\ px_pos' = px_pos + 1 /\ run' = 0
      /\ UNCHANGED <<pc, image, size, p, channels, pixels, starved>>
  BY DEF IInv, encode_new, decoder
<1>2. bytes' = b1 \o chunk /\ index' = [index EXCEPT ![Hash(c)] = c] /\ px' = c
  BY DEF encode_new, Hash
<1>3. /\ image \in Images /\ bytes \in Seq(Byte) /\ run \in 0 .. 61 /\ px_pos \in Nat
      /\ run <= px_pos /\ Len(image.pixels) \in Nat /\ index \in Indices
  BY <1>1, ImageFacts DEF Typed, Encoding
<1>4. c \in qoi_rgba_t /\ (image.desc.channels = 3 => c.a = 255)
  <2>1. px_pos + 1 \in 1 .. Len(image.pixels)
    BY <1>1, <1>3
  <2> QED  BY <1>3, <2>1, ImageFacts
<1>5. Written(bytes, 0, Header(image)) /\ ~Rejected(image.desc) /\ Coding(image, bytes, State)
  BY <1>1 DEF Encoding
<1>6. before \in Seq(Byte) /\ b1 \in Seq(Byte)
  <2>1. CASE run > 0
    <3>1. run \in 1 .. 62
      BY <1>3, <2>1
    <3>2. before = RunChunk(run)
      BY <2>1
    <3> QED  BY <1>3, <3>1, <3>2, RunBytes, Joined
  <2>2. CASE ~(run > 0)
    BY <1>3, <2>2
  <2> QED  BY <2>1, <2>2
<1>7. Coding(image, b1, s1)
  <2>1. CASE run > 0
    <3>1. run \in 1 .. 62
      BY <1>3, <2>1
    <3>2. RunChunk(run) \in Seq(Byte) /\ Len(RunChunk(run)) = 1
      BY <3>1, RunBytes
    <3>3. b1 = bytes \o RunChunk(run)
      BY <2>1
    <3>4. s1 = Further(State, run, 1, px, index)
      <4>1. Len(b1) = Len(bytes) + 1
        BY <1>3, <3>2, <3>3, Joined
      <4>2. px_pos = (px_pos - run) + run
        BY <1>3
      <4> QED  BY <4>1, <4>2 DEF State, Further
    <3>5. RunLink(image, b1, State, s1)
      <4>1. /\ State.pos = px_pos - run /\ State.at = Len(bytes)
            /\ State.px = px /\ State.index = index
        BY DEF State
      <4>2. (px_pos - run) + run = px_pos
        BY <1>3
      <4>3. Fits(image, State, run)
        BY <1>1, <1>3, <4>1, <4>2 DEF Fits
      <4>4. \A k \in State.pos + 1 .. State.pos + run : image.pixels[k] = State.px
        BY <1>1, <4>1, <4>2 DEF Encoding
      <4>5. Written(b1, State.at, RunChunk(run))
        BY <1>3, <3>2, <3>3, <4>1, WrittenAtEnd
      <4> HIDE DEF b1, s1
      <4> QED  BY <3>1, <3>4, <4>1, <4>3, <4>4, <4>5 DEF RunLink
    <3> HIDE DEF s1, b1
    <3> QED  BY <1>3, <1>5, <3>2, <3>3, <3>5, Growing DEF Linked
  <2>2. CASE ~(run > 0)
    <3>1. b1 = bytes /\ run = 0
      BY <1>3, <2>2
    <3>2. px_pos - 0 = px_pos
      BY <1>3
    <3>3. s1 = State
      BY <3>1, <3>2 DEF State
    <3> HIDE DEF s1, b1
    <3> QED  BY <1>5, <3>1, <3>3
  <2> QED  BY <2>1, <2>2
<1>8. /\ s1.at = Len(b1) /\ s1.pos = px_pos /\ s1.px = px /\ s1.index = index
  OBVIOUS
<1>9. chunk = PixelChunk(c, s1)
  <2> HIDE DEF s1, c
  <2> QED  BY <1>8, Zenon DEF PixelChunk, Hash
<1> HIDE DEF before, b1, s1
<1>10. Sound(image, s1)
  <2>1. PICK cs : Chain(image, b1, cs, s1)
    BY <1>7 DEF Coding
  <2>2. Len(cs) \in 1 .. Len(cs) /\ cs[Len(cs)] = s1
    BY <2>1 DEF Chain
  <2> QED  BY <2>1, <2>2 DEF Chain
<1>11. chunk \in Seq(Byte)
  BY <1>4, <1>9, <1>10, PixelChunkBytes
<1> HIDE DEF chunk
<1>12. State' = Further(s1, 1, Len(chunk), c, [index EXCEPT ![Hash(c)] = c])
  <2>1. Len(bytes') = Len(b1) + Len(chunk)
    BY <1>2, <1>6, <1>11, Joined
  <2>2. (px_pos + 1) - 0 = px_pos + 1
    BY <1>3
  <2> QED  BY <1>1, <1>2, <1>8, <2>1, <2>2 DEF State, Further
<1>13. NewLink(image, bytes', s1, State')
  <2>1. Written(bytes', Len(b1), chunk)
    BY <1>2, <1>6, <1>11, WrittenAtEnd
  <2> HIDE DEF c
  <2>2. image.pixels[s1.pos + 1] = c
    BY <1>8 DEF c
  <2> QED  BY <1>1, <1>8, <1>9, <1>12, <2>1, <2>2 DEF NewLink
<1>14. Coding(image, bytes', State')
  BY <1>2, <1>3, <1>6, <1>7, <1>11, <1>13, Growing DEF Linked
<1>15. Written(bytes', 0, Header(image)) /\ bytes' \in Seq(Byte)
  <2>1. Written(b1, 0, Header(image))
    BY <1>3, <1>5, <1>6, WrittenGrows, HeaderBytes DEF b1
  <2> QED  BY <1>2, <1>3, <1>5, <1>6, <1>11, <2>1, WrittenGrows, HeaderBytes, Joined
<1>16. Typed'
  <2>1. index' \in Indices
    <3>1. Hash(c) \in 0 .. 63
      BY <1>4, HashInRange
    <3> HIDE DEF c
    <3>2. [index EXCEPT ![Hash(c)] = c] \in Indices
      BY <1>3, <1>4, <3>1 DEF Indices
    <3> QED  BY <1>2, <3>2
  <2>2. px_pos + 1 \in Nat /\ 0 \in 0 .. 61
    BY <1>3
  <2> HIDE DEF c
  <2> QED  BY <1>1, <1>2, <1>4, <1>15, <2>1, <2>2 DEF Typed
<1>17. Encoding'
  <2>1. px_pos + 1 <= Len(image.pixels) /\ 0 <= px_pos + 1
    BY <1>1, <1>3
  <2>2. \A k \in (px_pos + 1) - 0 + 1 .. px_pos + 1 : image.pixels[k] = c
    BY <1>3
  <2> HIDE DEF c
  <2> QED  BY <1>1, <1>2, <1>5, <1>14, <1>15, <2>1, <2>2 DEF Encoding
<1> QED  BY <1>1, <1>16, <1>17 DEF IInv

LEMMA EncodeReturns ==
  ASSUME IInv, encode_return
  PROVE  IInv'
<1>1. /\ pc = "encode" /\ Encoding /\ Typed
      /\ p = 0 /\ pixels = <<>> /\ starved = FALSE
      /\ px_pos = Len(image.pixels) /\ pc' = "encoded" /\ bytes' = bytes \o qoi_padding
      /\ UNCHANGED <<image, index, px, run, px_pos, size, p, channels, pixels, starved>>
  BY DEF IInv, encode_return, decoder
<1>2. image \in Images /\ bytes \in Seq(Byte)
  BY <1>1 DEF Typed
<1>3. qoi_padding \in Seq(Byte) /\ Len(qoi_padding) = 8
  <2>1. 0 \in Byte /\ 1 \in Byte
    BY DEF Byte
  <2> QED  BY <2>1 DEF qoi_padding
<1>4. bytes' \in Seq(Byte) /\ Len(bytes') = Len(bytes) + 8
  <2>1. /\ bytes \o qoi_padding \in Seq(Byte)
        /\ Len(bytes \o qoi_padding) = Len(bytes) + Len(qoi_padding)
    BY <1>2, <1>3, Joined
  <2> QED  BY <1>1, <1>3, <2>1
<1>5. Whole(image, bytes', State)
  <2>1. Coding(image, bytes', State)
    BY <1>1, <1>2, <1>3, CodingGrows DEF Encoding
  <2>2. State.pos = Len(image.pixels) /\ State.at = Len(bytes)
    <3>1. run = 0 /\ Len(image.pixels) \in Nat
      BY <1>1, <1>2, ImageFacts DEF Encoding
    <3>2. px_pos - 0 = px_pos
      BY <1>1, <3>1
    <3> QED  BY <1>1, <3>1, <3>2 DEF State
  <2> QED  BY <1>4, <2>1, <2>2 DEF Whole
<1>6. Written(bytes', 0, Header(image)) /\ ~Rejected(image.desc)
  BY <1>1, <1>2, <1>3, WrittenGrows, HeaderBytes DEF Encoding
<1>7. Coded'
  BY <1>1, <1>5, <1>6 DEF Coded
<1>8. Typed'
  BY <1>1, <1>4 DEF Typed
<1> QED  BY <1>1, <1>7, <1>8 DEF IInv

-----------------------------------------------------------------------------
(* The steps of the decoder. *)

(* What is written at p, and in what the decoder is given, is found there. *)
LEMMA WrittenIsFound ==
  ASSUME bytes \in Seq(Byte), p \in Nat, size \in Nat, HasChunk,
         NEW chunk \in Seq(Byte), Len(chunk) \in 1 .. 5, Written(bytes, p, chunk)
  PROVE  Found(chunk)
<1>1. Len(qoi_padding) = 8
  BY DEF qoi_padding
<1>2. p < size - 8
  BY <1>1 DEF HasChunk
<1>3. ASSUME NEW k \in 1 .. Len(chunk) PROVE At(p + (k - 1)) = chunk[k]
  <2>1. p + (k - 1) < size /\ (p + (k - 1)) + 1 = p + k
    <3>1. k \in 1 .. 5
      <4>1. PICK len : len = Len(chunk)
        OBVIOUS
      <4>2. len \in 1 .. 5 /\ k \in 1 .. len
        BY <4>1
      <4> QED  BY <4>2
    <3> QED  BY <1>2, <3>1
  <2>2. bytes[p + k] = chunk[k]
    BY DEF Written
  <2> QED  BY <2>1, <2>2 DEF At
<1> QED  BY <1>3 DEF Found

Put(f, c) == [f EXCEPT ![Hash(c)] = c]

(* The decoder's index gets the pixel that the encoder's has got, or has already. *)
LEMMA AgreeAfterRun ==
  ASSUME NEW f \in Indices, NEW g \in Indices, NEW c \in qoi_rgba_t, Agree(f, g), Known(g, c)
  PROVE  Agree(Put(f, c), g)
<1>1. PICK h : h = Hash(c)
  OBVIOUS
<1>2. h \in 0 .. 63
  BY <1>1, HashInRange
<1>3. ASSUME NEW i \in 0 .. 63
      PROVE  [f EXCEPT ![h] = c][i] = g[i] \/ (g[i] = Zero /\ i # 0)
  <2>1. CASE i = h
    <3>1. [f EXCEPT ![h] = c][h] = c
      BY <1>2 DEF Indices
    <3> QED  BY <1>1, <2>1, <3>1 DEF Known
  <2>2. CASE i # h
    <3>1. [f EXCEPT ![h] = c][i] = f[i]
      BY <1>2, <2>2 DEF Indices
    <3> QED  BY <3>1 DEF Agree
  <2> QED  BY <2>1, <2>2
<1> QED  BY <1>1, <1>3 DEF Agree, Put

LEMMA AgreeAfterNew ==
  ASSUME NEW f \in Indices, NEW g \in Indices, NEW c \in qoi_rgba_t, Agree(f, g)
  PROVE  Agree(Put(f, c), Put(g, c))
<1>1. PICK h : h = Hash(c)
  OBVIOUS
<1>2. h \in 0 .. 63
  BY <1>1, HashInRange
<1>3. ASSUME NEW i \in 0 .. 63
      PROVE  \/ [f EXCEPT ![h] = c][i] = [g EXCEPT ![h] = c][i]
             \/ ([g EXCEPT ![h] = c][i] = Zero /\ i # 0)
  <2>1. CASE i = h
    <3>1. [f EXCEPT ![h] = c][h] = c /\ [g EXCEPT ![h] = c][h] = c
      BY <1>2 DEF Indices
    <3> QED  BY <2>1, <3>1
  <2>2. CASE i # h
    <3>1. [f EXCEPT ![h] = c][i] = f[i] /\ [g EXCEPT ![h] = c][i] = g[i]
      BY <1>2, <2>2 DEF Indices
    <3> QED  BY <3>1 DEF Agree
  <2> QED  BY <2>1, <2>2
<1> QED  BY <1>1, <1>3 DEF Agree, Put

(* A pixel that the encoder found in its index is in the decoder's. *)
LEMMA IndexIsSame ==
  ASSUME NEW f, NEW g, NEW c \in qoi_rgba_t, Agree(f, g), g[Hash(c)] = c
  PROVE  f[Hash(c)] = c
<1>1. Hash(c) \in 0 .. 63
  BY HashInRange
<1>2. f[Hash(c)] = g[Hash(c)] \/ (g[Hash(c)] = Zero /\ Hash(c) # 0)
  BY <1>1 DEF Agree
<1> QED  BY <1>2, Colours

(* From a link the decoder's next chunk leads to the next link. *)
LEMMA ChunkFollows ==
  ASSUME image \in Images, bytes \in Seq(Byte), size \in Nat, p \in Nat, px_pos \in Nat,
         index \in Indices, px \in qoi_rgba_t, HasChunk, run = 0,
         NEW s, NEW t, Sound(image, s), Follows(s), Linked(image, bytes, s, t)
  PROVE  /\ Decoded(px) \in qoi_rgba_t /\ Decoded(px) = t.px
         /\ p + Length(At(p)) = t.at /\ Length(At(p)) \in 1 .. 5
         /\ (px_pos + 1) + RunOf(At(p)) = t.pos /\ RunOf(At(p)) \in 0 .. 61
         /\ \A k \in px_pos + 1 .. t.pos : image.pixels[k] = Decoded(px)
         /\ Agree(Put(index, Decoded(px)), t.index)
<1>1. /\ s.at = p /\ s.pos = px_pos /\ s.px = px /\ s.index \in Indices
      /\ Agree(index, s.index) /\ Known(s.index, px)
  <2>1. s.pos = px_pos + 0
    BY DEF Follows
  <2>2. px_pos + 0 = px_pos
    OBVIOUS
  <2> QED  BY <2>1, <2>2 DEF Follows, Sound, Link
<1>2. CASE RunLink(image, bytes, s, t)
  <2>1. PICK n \in 1 .. 62 :
          /\ \A k \in px_pos + 1 .. px_pos + n : image.pixels[k] = px
          /\ Written(bytes, p, RunChunk(n))
          /\ t = Further(s, n, 1, px, s.index)
    BY <1>1, <1>2 DEF RunLink
  <2>2. t.at = p + 1 /\ t.pos = px_pos + n /\ t.px = px /\ t.index = s.index
    BY <1>1, <2>1 DEF Further
  <2>3. Found(RunChunk(n))
    <3>1. RunChunk(n) \in Seq(Byte) /\ Len(RunChunk(n)) = 1
      BY RunBytes
    <3>2. Len(RunChunk(n)) \in 1 .. 5
      BY <3>1
    <3> QED  BY <2>1, <3>1, <3>2, WrittenIsFound
  <2>4. Decoded(px) = px /\ Length(At(p)) = 1 /\ RunOf(At(p)) = n - 1
    BY <2>3, RunIsDecoded
  <2>5. Agree(Put(index, px), s.index)
    BY <1>1, AgreeAfterRun
  <2>6. (px_pos + 1) + (n - 1) = px_pos + n /\ n - 1 \in 0 .. 61 /\ 1 \in 1 .. 5
    OBVIOUS
  <2> QED  BY <2>1, <2>2, <2>4, <2>5, <2>6
<1>3. CASE NewLink(image, bytes, s, t)
  <2> DEFINE c == image.pixels[s.pos + 1]
             chunk == PixelChunk(c, s)
  <2>1. /\ s.pos < Len(image.pixels)
        /\ Written(bytes, s.at, chunk)
        /\ t = Further(s, 1, Len(chunk), c, [s.index EXCEPT ![Hash(c)] = c])
    BY <1>3, Zenon DEF NewLink
  <2>2. c \in qoi_rgba_t /\ (image.desc.channels = 3 => c.a = 255)
    <3>1. px_pos + 1 \in 1 .. Len(image.pixels)
      <4>1. px_pos < Len(image.pixels) /\ Len(image.pixels) \in Nat
        BY <1>1, <2>1, ImageFacts
      <4> QED  BY <4>1
    <3> QED  BY <1>1, <3>1, ImageFacts
  <2>3. chunk \in Seq(Byte) /\ Len(chunk) \in 1 .. 5
    BY <2>2, PixelChunkBytes
  <2>4. Found(chunk)
    <3> HIDE DEF chunk
    <3> QED  BY <1>1, <2>1, <2>3, WrittenIsFound
  <2>5. DecodesTo(chunk, c, px)
    <3>1. CASE s.index[Hash(c)] = c
      <4>1. chunk = IndexChunk(Hash(c)) /\ Hash(c) \in 0 .. 63 /\ index[Hash(c)] = c
        <5>1. chunk = IndexChunk(Hash(c))
          BY <3>1 DEF PixelChunk
        <5> HIDE DEF chunk, c
        <5>2. Hash(c) \in 0 .. 63
          BY <2>2, HashInRange
        <5>3. index[Hash(c)] = c
          <6>1. PICK g : g = s.index
            OBVIOUS
          <6>2. Agree(index, g) /\ g[Hash(c)] = c /\ c \in qoi_rgba_t
            BY <1>1, <2>2, <3>1, <6>1
          <6> QED  BY <6>2, IndexIsSame
        <5> QED  BY <5>1, <5>2, <5>3
      <4>2. Decoded(px) = index[Hash(c)] /\ Length(At(p)) = 1 /\ RunOf(At(p)) = 0
        BY <2>4, <4>1, IndexIsDecoded
      <4>3. Len(IndexChunk(Hash(c))) = 1
        BY DEF IndexChunk
      <4> QED  BY <4>1, <4>2, <4>3 DEF DecodesTo
    <3>2. CASE s.index[Hash(c)] # c
      <4>1. chunk = NewChunk(c, px)
        BY <1>1, <3>2 DEF PixelChunk
      <4> QED  BY <2>2, <2>4, <4>1, ChunkIsDecoded
    <3> QED  BY <3>1, <3>2
  <2> HIDE DEF chunk
  <2>6. Decoded(px) = c /\ Length(At(p)) = Len(chunk) /\ RunOf(At(p)) = 0
    BY <2>5 DEF DecodesTo
  <2>7. /\ t.at = p + Len(chunk) /\ t.pos = px_pos + 1 /\ t.px = c
        /\ t.index = Put(s.index, c)
    BY <1>1, <2>1 DEF Further, Put
  <2>8. Agree(Put(index, c), Put(s.index, c))
    BY <1>1, <2>2, AgreeAfterNew
  <2>9. \A k \in px_pos + 1 .. px_pos + 1 : image.pixels[k] = c
    BY <1>1
  <2>10. (px_pos + 1) + 0 = px_pos + 1 /\ 0 \in 0 .. 61
    OBVIOUS
  <2> HIDE DEF c
  <2> QED  BY <2>2, <2>3, <2>6, <2>7, <2>8, <2>9, <2>10, SMTT(60)
<1> QED  BY <1>2, <1>3 DEF Linked

(* What is stored of a pixel is as long as asked for. *)
LEMMA StoredTyped ==
  ASSUME channels \in {3, 4}, NEW c \in qoi_rgba_t
  PROVE  Stored(c) \in Output(channels)
<1>1. PICK r, g, b, a : r = c.r /\ g = c.g /\ b = c.b /\ a = c.a
  OBVIOUS
<1>2. r \in Byte /\ g \in Byte /\ b \in Byte /\ a \in Byte
  BY <1>1, PixelBytes
<1>3. CASE channels = 4
  <2>1. Stored(c) = <<r, g, b, a>>
    BY <1>1, <1>3 DEF Stored
  <2>2. <<r, g, b, a>> \in [1 .. 4 -> Byte]
    BY <1>2
  <2> QED  BY <1>3, <2>1, <2>2 DEF Output
<1>4. CASE channels = 3
  <2>1. Stored(c) = <<r, g, b>>
    BY <1>1, <1>4 DEF Stored
  <2>2. <<r, g, b>> \in [1 .. 3 -> Byte]
    BY <1>2
  <2> QED  BY <1>4, <2>1, <2>2 DEF Output
<1> QED  BY <1>3, <1>4

(* A pixel more in the output. *)
LEMMA OneStored ==
  ASSUME Typed, channels \in {3, 4}, px_pos < Len(image.pixels), Len(pixels) = px_pos,
         NEW c \in qoi_rgba_t, Store(c), channels' = channels, image' = image
  PROVE  /\ pixels' \in Seq(Output(channels')) /\ Len(pixels') = px_pos'
         /\ px_pos' \in Nat /\ px_pos' = px_pos + 1 /\ px_pos' <= Len(image.pixels)
         /\ (\A k \in 1 .. Len(pixels) : pixels[k] = Stored(image.pixels[k]))
              /\ c = image.pixels[px_pos + 1]
            => \A k \in 1 .. Len(pixels') : pixels'[k] = Stored(image.pixels[k])
<1>1. pixels \in Seq(Output(channels)) /\ px_pos \in Nat /\ Len(image.pixels) \in Nat
  BY ImageFacts DEF Typed
<1>2. pixels' = Append(pixels, Stored(c)) /\ px_pos' = px_pos + 1
  BY DEF Store
<1>3. Stored(c) \in Output(channels)
  BY StoredTyped
<1>4. /\ pixels' \in Seq(Output(channels)) /\ Len(pixels') = px_pos + 1
      /\ pixels'[px_pos + 1] = Stored(c)
      /\ \A k \in 1 .. px_pos : pixels'[k] = pixels[k]
  <2>1. PICK S, v : S = Output(channels) /\ v = Stored(c)
    OBVIOUS
  <2>2. pixels \in Seq(S) /\ v \in S
    BY <1>1, <1>3, <2>1
  <2>3. /\ Append(pixels, v) \in Seq(S) /\ Len(Append(pixels, v)) = Len(pixels) + 1
        /\ Append(pixels, v)[Len(pixels) + 1] = v
        /\ \A k \in 1 .. Len(pixels) : Append(pixels, v)[k] = pixels[k]
    BY <2>2
  <2> QED  BY <1>2, <2>1, <2>3
<1>5. px_pos + 1 \in Nat /\ px_pos + 1 <= Len(image.pixels)
  BY <1>1
<1>6. ASSUME \A k \in 1 .. Len(pixels) : pixels[k] = Stored(image.pixels[k]),
             c = image.pixels[px_pos + 1]
      PROVE  \A k \in 1 .. px_pos + 1 : pixels'[k] = Stored(image.pixels[k])
  <2> TAKE k \in 1 .. px_pos + 1
  <2>1. k \in 1 .. px_pos \/ k = px_pos + 1
    BY <1>1
  <2> QED  BY <1>4, <1>6, <2>1
<1> QED  BY <1>2, <1>4, <1>5, <1>6

LEMMA HandedKeeps ==
  ASSUME IInv, Handed
  PROVE  IInv'
<1>1. /\ pc = "encoded" /\ Coded /\ Typed /\ p = 0 /\ pixels = <<>> /\ starved = FALSE
      /\ pc' = "given"
      /\ UNCHANGED <<image, bytes, index, px, run, px_pos, p, pixels, starved>>
  BY DEF IInv, Handed
<1>2. channels' \in {0, 3, 4}
  BY ImageAssumption DEF Handed
<1>3. size' \in Nat /\ size' <= Len(bytes)
  <2>1. PICK cut \in Cuts : cut <= Len(bytes) /\ size' = Len(bytes) - cut
    BY DEF Handed
  <2>2. cut \in Nat /\ Len(bytes) \in Nat
    BY <1>1, ImageAssumption DEF Typed
  <2> QED  BY <2>1, <2>2
<1>4. Typed'
  <2>1. pixels' \in Seq(Output(channels'))
    BY <1>1
  <2> QED  BY <1>1, <1>2, <1>3, <2>1 DEF Typed
<1>5. Coded'
  BY <1>1 DEF Coded
<1> QED  BY <1>1, <1>3, <1>4, <1>5 DEF IInv

LEMMA DecodeStarts ==
  ASSUME IInv, qoi_decode
  PROVE  IInv'
<1>1. /\ pc = "given" /\ Coded /\ Typed /\ size <= Len(bytes)
      /\ p = 0 /\ pixels = <<>> /\ starved = FALSE
      /\ index' = First.index /\ px' = Opaque /\ run' = 0 /\ px_pos' = 0
      /\ UNCHANGED <<image, bytes, size, pixels, starved>>
  BY DEF IInv, qoi_decode, First
<1>2. First.index \in Indices
  BY Colours DEF First, Indices
<1>3. CASE pc' = "null" /\ UNCHANGED <<p, channels>>
  <2>1. Typed'
    BY <1>1, <1>2, <1>3, Colours DEF Typed
  <2> QED  BY <1>1, <1>3, <2>1 DEF IInv
<1>4. CASE /\ size >= QOI_HEADER_SIZE + Len(qoi_padding)
           /\ ~Rejected(header)
           /\ pc' = "decode" /\ p' = QOI_HEADER_SIZE
           /\ channels' = IF channels = 0 THEN header.channels ELSE channels
  <2>1. 22 <= size /\ p' = 14
    <3>1. Len(qoi_padding) = 8
      BY DEF qoi_padding
    <3> QED  BY <1>1, <1>4, <3>1 DEF QOI_HEADER_SIZE, Typed
  <2>2. channels' \in {3, 4}
    <3>1. header.channels \in {3, 4}
      BY <1>4 DEF Rejected
    <3> QED  BY <1>1, <1>4, <3>1 DEF Typed
  <2>3. Typed'
    <3>1. pixels' \in Seq(Output(channels'))
      BY <1>1
    <3>2. channels' \in {0, 3, 4} /\ p' \in Nat
      BY <2>1, <2>2
    <3> QED  BY <1>1, <1>2, <1>4, <3>1, <3>2, Colours DEF Typed
  <2>4. Coded'
    BY <1>1 DEF Coded
  <2>5. OnTheWay'
    <3>1. PICK s : Whole(image, bytes, s)
      BY <1>1 DEF Coded
    <3>2. PICK cs : Chain(image, bytes, cs, s)
      BY <3>1 DEF Whole, Coding
    <3>3. cs[1] = First /\ 1 \in 1 .. Len(cs)
      BY <3>2 DEF Chain
    <3>4. First.at = 14 /\ First.pos = 0 /\ First.px = Opaque
      BY DEF First, QOI_HEADER_SIZE
    <3>5. Agree(index', First.index)
      BY <1>1 DEF Agree
    <3>6. Follows(First)'
      <4>1. \A k \in 0 + 1 .. 0 : FALSE
        OBVIOUS
      <4>2. px_pos' + run' = 0
        BY <1>1
      <4>3. \A k \in px_pos' + 1 .. First.pos : FALSE
        BY <1>1, <3>4, <4>1
      <4> QED  BY <1>1, <2>1, <3>4, <3>5, <4>2, <4>3 DEF Follows
    <3>7. Follows(cs[1])'
      BY <3>3, <3>6
    <3>8. s.pos = Len(image.pixels) /\ s.at + 8 = Len(bytes)
      BY <3>1 DEF Whole
    <3> QED  BY <1>1, <3>2, <3>3, <3>7, <3>8 DEF OnTheWay
  <2>6. Decoding'
    <3>1. Len(image.pixels) \in Nat
      BY <1>1, ImageFacts DEF Typed
    <3>2. 0 <= Len(image.pixels) /\ Len(pixels') = 0 /\ 14 <= size
      BY <1>1, <2>1, <3>1 DEF Typed
    <3>3. \A k \in 1 .. Len(pixels') : FALSE
      BY <3>2
    <3> QED  BY <1>1, <2>1, <2>2, <2>5, <3>2, <3>3 DEF Decoding
  <2> QED  BY <1>1, <1>4, <2>3, <2>4, <2>6 DEF IInv
<1> QED  BY <1>3, <1>4 DEF qoi_decode

(* What the steps of the decoder's loop have in common. *)
LEMMA InTheLoop ==
  ASSUME IInv, pc = "decode", px_pos < px_len
  PROVE  /\ Typed /\ Coded /\ Decoding /\ image \in Images /\ size <= Len(bytes)
         /\ px_pos < Len(image.pixels) /\ Len(image.pixels) \in Nat /\ Len(bytes) \in Nat
<1>1. Typed /\ Coded /\ Decoding /\ size <= Len(bytes)
  BY DEF IInv
<1>2. /\ image \in Images /\ bytes \in Seq(Byte) /\ size \in Nat /\ 22 <= size
      /\ ~Rejected(image.desc) /\ Written(bytes, 0, Header(image))
  BY <1>1 DEF Typed, Coded, Decoding
<1>3. px_len = Len(image.pixels)
  BY <1>2, HeaderIsRead
<1> QED  BY <1>1, <1>2, <1>3, ImageFacts

LEMMA DecodeRuns ==
  ASSUME IInv, decode_run
  PROVE  IInv'
<1>1. /\ pc = "decode" /\ px_pos < px_len /\ run > 0 /\ run' = run - 1 /\ Store(px)
      /\ UNCHANGED <<pc, image, bytes, index, px, size, p, channels, starved>>
  BY DEF decode_run
<1>2. /\ Typed /\ Coded /\ Decoding /\ size <= Len(bytes)
      /\ px_pos < Len(image.pixels) /\ Len(image.pixels) \in Nat
  BY <1>1, InTheLoop
<1>3. /\ px \in qoi_rgba_t /\ run \in 0 .. 61 /\ px_pos \in Nat
      /\ channels \in {3, 4} /\ Len(pixels) = px_pos
  BY <1>2 DEF Typed, Decoding
<1>4. /\ pixels' \in Seq(Output(channels')) /\ Len(pixels') = px_pos'
      /\ px_pos' \in Nat /\ px_pos' = px_pos + 1 /\ px_pos' <= Len(image.pixels)
      /\ (\A k \in 1 .. Len(pixels) : pixels[k] = Stored(image.pixels[k]))
           /\ px = image.pixels[px_pos + 1]
         => \A k \in 1 .. Len(pixels') : pixels'[k] = Stored(image.pixels[k])
  BY <1>1, <1>2, <1>3, OneStored
<1>5. ~starved
  BY <1>1, <1>2, <1>3 DEF Decoding
<1>6. PICK cs, s : /\ Chain(image, bytes, cs, s) /\ s.pos = Len(image.pixels)
                   /\ s.at + 8 = Len(bytes)
                   /\ \E j \in 1 .. Len(cs) : Follows(cs[j])
  BY <1>2, <1>5 DEF Decoding, OnTheWay
<1>7. PICK j \in 1 .. Len(cs) : Follows(cs[j])
  BY <1>6
<1>8. cs[j].pos = px_pos + run /\ \A k \in px_pos + 1 .. px_pos + run : image.pixels[k] = px
  BY <1>7 DEF Follows
<1>9. px = image.pixels[px_pos + 1]
  <2>1. px_pos + 1 \in px_pos + 1 .. px_pos + run
    BY <1>1, <1>3
  <2> QED  BY <1>8, <2>1
<1>10. Follows(cs[j])'
  <2>1. (px_pos + 1) + (run - 1) = px_pos + run
    BY <1>3
  <2>2. \A k \in (px_pos + 1) + 1 .. px_pos + run : k \in px_pos + 1 .. px_pos + run
    BY <1>3
  <2> QED  BY <1>1, <1>4, <1>7, <1>8, <2>1, <2>2 DEF Follows
<1>11. OnTheWay'
  BY <1>1, <1>6, <1>10 DEF OnTheWay
<1>12. Typed'
  <2>1. run - 1 \in 0 .. 61
    BY <1>1, <1>3
  <2> QED  BY <1>1, <1>2, <1>4, <2>1 DEF Typed
<1>13. Decoding'
  <2>1. \A k \in 1 .. Len(pixels') : pixels'[k] = Stored(image.pixels[k])
    BY <1>2, <1>4, <1>5, <1>9 DEF Decoding
  <2>2. \A k \in 1 .. Len(pixels') : (pixels[k] = Stored(image.pixels[k]))'
    BY <1>1, <2>1 DEF Stored
  <2> QED  BY <1>1, <1>2, <1>4, <1>5, <1>11, <2>2 DEF Decoding
<1>14. Coded'
  BY <1>1, <1>2 DEF Coded
<1> QED  BY <1>1, <1>2, <1>12, <1>13, <1>14 DEF IInv

LEMMA DecodeChunks ==
  ASSUME IInv, decode_chunk
  PROVE  IInv'
<1> DEFINE c == Decoded(px)
<1>1. /\ pc = "decode" /\ px_pos < px_len /\ run = 0 /\ HasChunk
      /\ px' = c /\ index' = [index EXCEPT ![QOI_COLOR_HASH(px') % 64] = px']
      /\ run' = RunOf(At(p)) /\ p' = p + Length(At(p)) /\ Store(px')
      /\ UNCHANGED <<pc, image, bytes, size, channels, starved>>
  BY DEF decode_chunk
<1>2. /\ Typed /\ Coded /\ Decoding /\ size <= Len(bytes) /\ image \in Images
      /\ px_pos < Len(image.pixels) /\ Len(image.pixels) \in Nat /\ Len(bytes) \in Nat
  BY <1>1, InTheLoop
<1>3. /\ bytes \in Seq(Byte) /\ size \in Nat /\ p \in Nat /\ px_pos \in Nat
      /\ index \in Indices /\ px \in qoi_rgba_t
      /\ channels \in {3, 4} /\ Len(pixels) = px_pos /\ ~starved
  BY <1>1, <1>2 DEF Typed, Decoding
<1>4. PICK cs, s : /\ Chain(image, bytes, cs, s) /\ s.pos = Len(image.pixels)
                   /\ s.at + 8 = Len(bytes)
                   /\ \E j \in 1 .. Len(cs) : Follows(cs[j])
  BY <1>2, <1>3 DEF Decoding, OnTheWay
<1>5. PICK j \in 1 .. Len(cs) : Follows(cs[j])
  BY <1>4
<1>6. p < size - 8
  <2>1. Len(qoi_padding) = 8
    BY DEF qoi_padding
  <2> QED  BY <1>1, <2>1 DEF HasChunk
<1>7. /\ Len(cs) \in Nat /\ cs[Len(cs)] = s
      /\ \A i \in 1 .. Len(cs) : Sound(image, cs[i])
      /\ \A i \in 1 .. Len(cs) - 1 : Linked(image, bytes, cs[i], cs[i + 1])
  BY <1>4 DEF Chain
<1>8. j \in 1 .. Len(cs) - 1 /\ j + 1 \in 1 .. Len(cs)
  <2>1. j # Len(cs)
    <3>1. SUFFICES ASSUME j = Len(cs) PROVE FALSE
      OBVIOUS
    <3>2. p = s.at
      BY <1>5, <1>7, <3>1 DEF Follows
    <3> QED  BY <1>2, <1>3, <1>4, <1>6, <3>2
  <2> QED  BY <1>7, <2>1
<1> DEFINE t == cs[j + 1]
<1> HIDE DEF t
<1>9. Sound(image, cs[j]) /\ Linked(image, bytes, cs[j], t)
  BY <1>7, <1>8 DEF t
<1>10. /\ c \in qoi_rgba_t /\ c = t.px
       /\ p + Length(At(p)) = t.at /\ Length(At(p)) \in 1 .. 5
       /\ (px_pos + 1) + RunOf(At(p)) = t.pos /\ RunOf(At(p)) \in 0 .. 61
       /\ \A k \in px_pos + 1 .. t.pos : image.pixels[k] = c
       /\ Agree(Put(index, c), t.index)
  BY <1>1, <1>2, <1>3, <1>5, <1>9, ChunkFollows
<1> HIDE DEF c
<1>11. /\ pixels' \in Seq(Output(channels')) /\ Len(pixels') = px_pos'
       /\ px_pos' \in Nat /\ px_pos' = px_pos + 1 /\ px_pos' <= Len(image.pixels)
       /\ (\A k \in 1 .. Len(pixels) : pixels[k] = Stored(image.pixels[k]))
            /\ c = image.pixels[px_pos + 1]
          => \A k \in 1 .. Len(pixels') : pixels'[k] = Stored(image.pixels[k])
  <2>1. Store(c)
    BY <1>1 DEF Store
  <2> QED  BY <1>1, <1>2, <1>3, <1>10, <2>1, OneStored
<1>12. c = image.pixels[px_pos + 1]
  <2>1. PICK r, pos : r = RunOf(At(p)) /\ pos = t.pos
    OBVIOUS
  <2>2. r \in 0 .. 61 /\ (px_pos + 1) + r = pos
    BY <1>10, <2>1
  <2>3. px_pos + 1 \in px_pos + 1 .. pos
    BY <1>3, <2>2
  <2> QED  BY <1>10, <2>1, <2>3
<1>13. index' = Put(index, c)
  BY <1>1 DEF Put, Hash
<1>14. Follows(t)'
  <2>1. p' = t.at /\ px_pos' + run' = t.pos /\ px' = t.px
    BY <1>1, <1>10, <1>11
  <2>2. \A k \in (px_pos + 1) + 1 .. t.pos : image.pixels[k] = c
    <3>1. PICK r, pos : r = RunOf(At(p)) /\ pos = t.pos
      OBVIOUS
    <3>2. r \in 0 .. 61 /\ (px_pos + 1) + r = pos
      BY <1>10, <3>1
    <3>3. \A k \in (px_pos + 1) + 1 .. pos : k \in px_pos + 1 .. pos
      BY <1>3, <3>2
    <3> QED  BY <1>10, <3>1, <3>3
  <2>3. Agree(index', t.index)
    BY <1>10, <1>13
  <2> QED  BY <1>1, <1>11, <2>1, <2>2, <2>3 DEF Follows, t
<1>15. OnTheWay'
  <2>1. Follows(cs[j + 1])'
    BY <1>14 DEF t
  <2> QED  BY <1>1, <1>4, <1>8, <2>1 DEF OnTheWay
<1>16. p' \in Nat /\ p' <= size
  <2>1. PICK l : l = Length(At(p))
    OBVIOUS
  <2>2. l \in 1 .. 5 /\ p' = p + l
    BY <1>1, <1>10, <2>1
  <2> QED  BY <1>3, <1>6, <2>2
<1>17. Typed'
  <2>1. index' \in Indices
    <3>1. Hash(c) \in 0 .. 63
      BY <1>10, HashInRange
    <3> QED  BY <1>3, <1>10, <1>13, <3>1 DEF Indices, Put
  <2> QED  BY <1>1, <1>2, <1>10, <1>11, <1>16, <2>1 DEF Typed
<1>18. Decoding'
  <2>1. \A k \in 1 .. Len(pixels') : pixels'[k] = Stored(image.pixels[k])
    BY <1>2, <1>3, <1>11, <1>12 DEF Decoding
  <2>2. \A k \in 1 .. Len(pixels') : (pixels[k] = Stored(image.pixels[k]))'
    BY <1>1, <2>1 DEF Stored
  <2> QED  BY <1>1, <1>2, <1>3, <1>11, <1>15, <1>16, <2>2 DEF Decoding
<1>19. Coded'
  BY <1>1, <1>2 DEF Coded
<1> QED  BY <1>1, <1>2, <1>17, <1>18, <1>19 DEF IInv

LEMMA DecodeStarves ==
  ASSUME IInv, decode_starved
  PROVE  IInv'
<1>1. /\ pc = "decode" /\ px_pos < px_len /\ run = 0 /\ ~HasChunk
      /\ starved' = TRUE /\ Store(px)
      /\ UNCHANGED <<pc, image, bytes, index, px, run, size, p, channels>>
  BY DEF decode_starved
<1>2. /\ Typed /\ Coded /\ Decoding /\ size <= Len(bytes) /\ image \in Images
      /\ px_pos < Len(image.pixels) /\ Len(image.pixels) \in Nat /\ Len(bytes) \in Nat
  BY <1>1, InTheLoop
<1>3. /\ size \in Nat /\ p \in Nat /\ px_pos \in Nat /\ px \in qoi_rgba_t
      /\ channels \in {3, 4} /\ Len(pixels) = px_pos
  BY <1>1, <1>2 DEF Typed, Decoding
<1>4. /\ pixels' \in Seq(Output(channels')) /\ Len(pixels') = px_pos'
      /\ px_pos' \in Nat /\ px_pos' = px_pos + 1 /\ px_pos' <= Len(image.pixels)
  BY <1>1, <1>2, <1>3, OneStored
<1>5. ~(p < size - 8)
  <2>1. Len(qoi_padding) = 8
    BY DEF qoi_padding
  <2> QED  BY <1>1, <2>1 DEF HasChunk
<1>6. size < Len(bytes)
  <2>1. CASE starved
    BY <1>2, <2>1 DEF Decoding
  <2>2. CASE ~starved
    <3>1. PICK cs, s : /\ Chain(image, bytes, cs, s) /\ s.pos = Len(image.pixels)
                       /\ s.at + 8 = Len(bytes)
                       /\ \E j \in 1 .. Len(cs) : Follows(cs[j])
      BY <1>2, <2>2 DEF Decoding, OnTheWay
    <3>2. PICK j \in 1 .. Len(cs) : Follows(cs[j])
      BY <3>1
    <3>3. cs[j].pos = px_pos /\ cs[j].at = p
      <4>1. px_pos + 0 = px_pos
        BY <1>3
      <4> QED  BY <1>1, <3>2, <4>1 DEF Follows
    <3>4. Len(cs) \in Nat /\ cs[Len(cs)] = s
      BY <3>1 DEF Chain
    <3>5. p < s.at
      <4>1. j # Len(cs)
        BY <1>2, <1>3, <3>1, <3>3, <3>4
      <4>2. j \in 1 .. Len(cs) - 1
        BY <3>4, <4>1
      <4> QED  BY <3>1, <3>3, <4>2 DEF Chain
    <3>6. s \in Link
      <4>1. Len(cs) \in 1 .. Len(cs)
        BY <3>1, <3>4 DEF Chain
      <4> QED  BY <3>1, <3>4, <4>1 DEF Chain, Sound
    <3>7. PICK at \in Nat : at = s.at
      BY <3>6 DEF Link
    <3>8. at + 8 = Len(bytes) /\ p < at
      BY <3>1, <3>5, <3>7
    <3> QED  BY <1>2, <1>3, <1>5, <3>8
  <2> QED  BY <2>1, <2>2
<1>7. Typed'
  BY <1>1, <1>2, <1>4 DEF Typed
<1>8. Decoding'
  BY <1>1, <1>2, <1>3, <1>4, <1>6 DEF Decoding, HasChunk
<1>9. Coded'
  BY <1>1, <1>2 DEF Coded
<1> QED  BY <1>1, <1>2, <1>7, <1>8, <1>9 DEF IInv

LEMMA DecodeReturns ==
  ASSUME IInv, decode_return
  PROVE  IInv'
<1>1. /\ pc = "decode" /\ px_pos = px_len /\ pc' = "return"
      /\ UNCHANGED <<image, bytes, index, px, run, px_pos, size, p, channels, pixels, starved>>
  BY DEF decode_return, decoder
<1>2. Typed /\ Coded /\ Decoding /\ size <= Len(bytes)
  BY <1>1 DEF IInv
<1>3. px_len = Len(image.pixels)
  <2>1. /\ image \in Images /\ bytes \in Seq(Byte) /\ size \in Nat /\ 22 <= size
        /\ ~Rejected(image.desc) /\ Written(bytes, 0, Header(image))
    BY <1>2 DEF Typed, Coded, Decoding
  <2> QED  BY <2>1, HeaderIsRead
<1>4. Typed'
  BY <1>1, <1>2 DEF Typed
<1>5. Coded'
  BY <1>1, <1>2 DEF Coded
<1>6. Decoding'
  <2>1. OnTheWay => OnTheWay'
    BY <1>1 DEF OnTheWay, Follows
  <2>2. HasChunk' = HasChunk /\ \A c : Stored(c)' = Stored(c)
    BY <1>1 DEF HasChunk, Stored
  <2> QED  BY <1>1, <1>2, <2>1, <2>2 DEF Decoding
<1> QED  BY <1>1, <1>2, <1>3, <1>4, <1>5, <1>6 DEF IInv

LEMMA Stutters ==
  ASSUME IInv, UNCHANGED vars
  PROVE  IInv'
<1>1. UNCHANGED <<pc, image, bytes, index, px, run, px_pos, size, p, channels, pixels, starved>>
  BY DEF vars
<1>2. Typed => Typed'
  BY <1>1 DEF Typed
<1>3. Fresh => Fresh'
  BY <1>1 DEF Fresh
<1>4. Encoding => Encoding'
  BY <1>1 DEF Encoding, State
<1>5. Coded => Coded'
  BY <1>1 DEF Coded
<1>6. Decoding => Decoding'
  <2>1. OnTheWay => OnTheWay'
    BY <1>1 DEF OnTheWay, Follows
  <2>2. HasChunk' = HasChunk /\ \A c : Stored(c)' = Stored(c)
    BY <1>1 DEF HasChunk, Stored
  <2> QED  BY <1>1, <2>1, <2>2 DEF Decoding
<1> QED  BY <1>1, <1>2, <1>3, <1>4, <1>5, <1>6 DEF IInv

LEMMA InitInv == Init => IInv
<1> SUFFICES ASSUME Init PROVE IInv
  OBVIOUS
<1>1. /\ pc = "call" /\ image \in Images /\ bytes = <<>> /\ index = First.index
      /\ px = Opaque /\ run = 0 /\ px_pos = 0
      /\ size = 0 /\ p = 0 /\ channels = 0 /\ pixels = <<>> /\ starved = FALSE
  BY DEF Init, First
<1>2. First.index \in Indices
  BY Colours DEF First, Indices
<1>3. <<>> \in Seq(Byte) /\ <<>> \in Seq(Output(0))
  OBVIOUS
<1>4. bytes \in Seq(Byte) /\ pixels \in Seq(Output(channels))
  BY <1>1, <1>3
<1>5. /\ run \in 0 .. 61 /\ px_pos \in Nat /\ size \in Nat /\ p \in Nat
      /\ channels \in {0, 3, 4} /\ px \in qoi_rgba_t
  BY <1>1, Colours
<1>6. Typed
  BY <1>1, <1>2, <1>4, <1>5 DEF Typed
<1> QED  BY <1>1, <1>6 DEF IInv, Fresh

LEMMA NextInv == IInv /\ [Next]_vars => IInv'
<1> SUFFICES ASSUME IInv, [Next]_vars PROVE IInv'
  OBVIOUS
<1>1. CASE qoi_encode      BY <1>1, EncodeStarts
<1>2. CASE encode_run      BY <1>2, EncodeRuns
<1>3. CASE encode_new      BY <1>3, EncodeNews
<1>4. CASE encode_return   BY <1>4, EncodeReturns
<1>5. CASE Handed          BY <1>5, HandedKeeps
<1>6. CASE qoi_decode      BY <1>6, DecodeStarts
<1>7. CASE decode_run      BY <1>7, DecodeRuns
<1>8. CASE decode_chunk    BY <1>8, DecodeChunks
<1>9. CASE decode_starved  BY <1>9, DecodeStarves
<1>10. CASE decode_return  BY <1>10, DecodeReturns
<1>11. CASE Over           BY <1>11, Stutters DEF Over
<1>12. CASE UNCHANGED vars  BY <1>12, Stutters
<1> QED  BY <1>1, <1>2, <1>3, <1>4, <1>5, <1>6, <1>7, <1>8, <1>9, <1>10, <1>11, <1>12 DEF Next

(* The invariant says what the runs check. *)
LEMMA InvType == IInv => TypeOK
<1> SUFFICES ASSUME IInv PROVE TypeOK
  OBVIOUS
<1>1. Typed
  BY DEF IInv
<1>2. \A k \in DOMAIN bytes : bytes[k] \in Byte
  BY <1>1 DEF Typed
<1>3. \A k \in DOMAIN pixels : pixels[k] \in [1 .. channels -> Byte]
  <2>1. pixels \in Seq(Output(channels))
    BY <1>1 DEF Typed
  <2>2. \A k \in DOMAIN pixels : pixels[k] \in Output(channels)
    BY <2>1
  <2> QED  BY <2>2 DEF Output
<1>4. index \in [0 .. 63 -> qoi_rgba_t]
  BY <1>1 DEF Typed, Indices
<1>5. run \in 0 .. 62
  <2>1. run \in 0 .. 61
    BY <1>1 DEF Typed
  <2> QED  BY <2>1
<1>6. px \in qoi_rgba_t /\ pc \in {"call", "encode", "encoded", "given", "decode", "return", "null"}
  BY <1>1 DEF Typed
<1> QED  BY <1>2, <1>3, <1>4, <1>5, <1>6 DEF TypeOK

(* Chunks for n pixels, and what is around them, fit into max_size bytes. *)
LEMMA MaxSize ==
  ASSUME image \in Images, ~Rejected(image.desc)
  PROVE  \/ image.desc.channels = 3 /\ max_size = Len(image.pixels) * 4 + 22
         \/ image.desc.channels = 4 /\ max_size = Len(image.pixels) * 5 + 22
<1>1. PICK w, h, n \in Nat : /\ w = image.desc.width /\ h = image.desc.height
                             /\ n = Len(image.pixels) /\ n = w * h
  BY ImageFacts
<1>2. image.desc.channels \in {3, 4} /\ Len(qoi_padding) = 8
  BY DEF Rejected, qoi_padding
<1>3. max_size = n * (image.desc.channels + 1) + 14 + 8
  BY <1>1, <1>2 DEF max_size, QOI_HEADER_SIZE
<1>4. n * (3 + 1) + 14 + 8 = n * 4 + 22 /\ n * (4 + 1) + 14 + 8 = n * 5 + 22
  OBVIOUS
<1> QED  BY <1>1, <1>2, <1>3, <1>4

LEMMA ChunksFit ==
  ASSUME image \in Images, ~Rejected(image.desc), NEW s, Sound(image, s)
  PROVE  s.at + 8 <= max_size
<1>1. PICK at, pos, n \in Nat : at = s.at /\ pos = s.pos /\ n = Len(image.pixels)
  BY ImageFacts DEF Sound, Link
<1>2. /\ pos <= n /\ at <= 14 + pos * 5
      /\ image.desc.channels = 3 => at <= 14 + pos * 4
  BY <1>1 DEF Sound, QOI_HEADER_SIZE
<1>3. at + 8 <= n * 5 + 22 /\ (image.desc.channels = 3 => at + 8 <= n * 4 + 22)
  BY <1>2
<1> QED  BY <1>1, <1>3, MaxSize

LEMMA LastSound ==
  ASSUME NEW m, NEW b, NEW s, Coding(m, b, s)
  PROVE  Sound(m, s)
<1>1. PICK cs : Chain(m, b, cs, s)
  BY DEF Coding
<1>2. Len(cs) \in 1 .. Len(cs) /\ cs[Len(cs)] = s
  BY <1>1 DEF Chain
<1> QED  BY <1>1, <1>2 DEF Chain

LEMMA InvInside == IInv => StaysInside
<1> SUFFICES ASSUME IInv PROVE StaysInside
  OBVIOUS
<1>1. Typed /\ image \in Images /\ Len(bytes) \in Nat /\ size \in Nat
  BY DEF IInv, Typed
<1>2. ASSUME pc = "encode" PROVE Len(bytes) <= max_size
  <2>1. Encoding
    BY <1>2 DEF IInv
  <2>2. Sound(image, State)
    BY <2>1, LastSound DEF Encoding
  <2>3. State.at + 8 <= max_size /\ State.at = Len(bytes)
    BY <1>1, <2>1, <2>2, ChunksFit DEF Encoding, State
  <2>4. max_size \in Int
    <3>1. Len(image.pixels) \in Nat
      BY <1>1, ImageFacts
    <3> QED  BY <1>1, <2>1, <3>1, MaxSize DEF Encoding
  <2> QED  BY <1>1, <2>3, <2>4
<1>3. ASSUME pc = "encoded" PROVE Len(bytes) <= max_size
  <2>1. Coded
    BY <1>3 DEF IInv
  <2>2. PICK s : Whole(image, bytes, s)
    BY <2>1 DEF Coded
  <2>3. Sound(image, s) /\ s.at + 8 = Len(bytes)
    BY <2>2, LastSound DEF Whole
  <2> QED  BY <1>1, <2>1, <2>3, ChunksFit DEF Coded
<1>4. p <= size
  <2>1. CASE pc \in {"decode", "return"}
    BY <2>1 DEF IInv, Decoding
  <2>2. CASE pc \notin {"decode", "return"}
    <3>1. p = 0
      BY <2>2 DEF IInv
    <3> QED  BY <1>1, <3>1
  <2> QED  BY <2>1, <2>2
<1> QED  BY <1>2, <1>3, <1>4 DEF StaysInside

LEMMA InvRoundTrip == IInv => RoundTrip
<1> SUFFICES ASSUME IInv PROVE RoundTrip
  OBVIOUS
<1>1. Typed /\ Len(bytes) \in Nat /\ size \in Nat /\ DOMAIN pixels = 1 .. Len(pixels)
  BY DEF IInv, Typed
<1>2. ~starved => \A k \in 1 .. Len(pixels) : pixels[k] = Stored(image.pixels[k])
  <2>1. CASE pc \in {"decode", "return"}
    BY <2>1 DEF IInv, Decoding
  <2>2. CASE pc \notin {"decode", "return"}
    <3>1. pixels = <<>>
      BY <2>2 DEF IInv
    <3>2. \A k \in 1 .. Len(pixels) : FALSE
      BY <3>1
    <3> QED  BY <3>2
  <2> QED  BY <2>1, <2>2
<1>3. ASSUME pc = "return", size = Len(bytes)
      PROVE  ~starved /\ Len(pixels) = Len(image.pixels)
  <2>1. Decoding /\ px_pos = Len(image.pixels)
    BY <1>3 DEF IInv
  <2>2. ~(size < Len(bytes))
    BY <1>1, <1>3
  <2> QED  BY <2>1, <2>2 DEF Decoding
<1> QED  BY <1>1, <1>2, <1>3 DEF RoundTrip

-----------------------------------------------------------------------------
(***************************************************************************)
(* For every image whose pixels are what its description says, every       *)
(* number of channels decoded to and every cut: the variables keep their   *)
(* types, so a byte written never exceeds its tag's room and a run its 62. *)
(***************************************************************************)
THEOREM QoiTyped == Spec => []TypeOK
<1>1. Init => IInv
  BY InitInv
<1>2. IInv /\ [Next]_vars => IInv'
  BY NextInv
<1>3. IInv => TypeOK
  BY InvType
<1> QED  BY <1>1, <1>2, <1>3, PTL DEF Spec

(***************************************************************************)
(* The encoder never writes behind the max_size bytes it has allocated,    *)
(* padding included, and the decoder never reads behind the size it is     *)
(* given, wherever the data is cut off.                                    *)
(***************************************************************************)
THEOREM QoiStaysInside == Spec => []StaysInside
<1>1. Init => IInv
  BY InitInv
<1>2. IInv /\ [Next]_vars => IInv'
  BY NextInv
<1>3. IInv => StaysInside
  BY InvInside
<1> QED  BY <1>1, <1>2, <1>3, PTL DEF Spec

(***************************************************************************)
(* Decoding what was encoded gives the image back, pixel by pixel as long  *)
(* as there are chunks, and all of it if no byte is missing.               *)
(***************************************************************************)
THEOREM QoiRoundTrip == Spec => []RoundTrip
<1>1. Init => IInv
  BY InitInv
<1>2. IInv /\ [Next]_vars => IInv'
  BY NextInv
<1>3. IInv => RoundTrip
  BY InvRoundTrip
<1> QED  BY <1>1, <1>2, <1>3, PTL DEF Spec

-----------------------------------------------------------------------------
(* Pixels. *)

(* Quotient and remainder, as the provers can use them. *)
LEMMA DivMod ==
  ASSUME NEW n \in Nat, NEW w \in Nat, w > 0
  PROVE  \E d, m \in Int : /\ d = n \div w /\ m = n % w
                           /\ n = d * w + m /\ m \in 0 .. w - 1
<1>1. PICK d, m \in Int : d = n \div w /\ m = n % w
  OBVIOUS
<1>2. n = d * w + m /\ m \in 0 .. w - 1
  BY <1>1
<1> QED  BY <1>1, <1>2

(* The blend of two bytes is a byte, and the one that Mean describes. *)
LEMMA BlendIsByte ==
  ASSUME NEW t \in Byte, NEW alpha \in Byte, NEW b \in Byte
  PROVE  Blend(t, alpha, b) \in Byte /\ Blend(t, alpha, b) = Mean(t, alpha, b)
<1>1. PICK u, v \in Nat : /\ u = t * alpha /\ v = b * (255 - alpha)
                          /\ u <= 255 * alpha /\ v <= 255 * (255 - alpha)
  <2>1. /\ t \in Nat /\ t <= 255 /\ b \in Nat /\ b <= 255
        /\ alpha \in Nat /\ 255 - alpha \in Nat
    BY DEF Byte
  <2>2. \A i, j \in Nat : i <= 255 => i * j \in Nat /\ i * j <= 255 * j
    OBVIOUS
  <2> QED  BY <2>1, <2>2
<1>2. u + v \in Nat /\ u + v <= 255 * 255
  <2>1. alpha \in 0 .. 255
    BY DEF Byte
  <2> QED  BY <1>1, <2>1
<1>3. PICK n \in Nat : n = u + v /\ n <= 65025
  BY <1>2, SMT
<1>4. PICK d, m \in Int : d = n \div 255 /\ n = d * 255 + m /\ m \in 0 .. 254
  <2>1. PICK w \in Nat : w = 255
    OBVIOUS
  <2>2. w > 0 /\ w - 1 = 254
    BY <2>1
  <2>3. PICK d, m \in Int : d = n \div w /\ m = n % w /\ n = d * w + m /\ m \in 0 .. w - 1
    BY <2>2, DivMod
  <2>4. d = n \div 255 /\ n = d * 255 + m /\ m \in 0 .. 254
    BY <2>1, <2>2, <2>3
  <2> QED  BY <2>4
<1>9. d \in 0 .. 255
  BY <1>3, <1>4, SMT
<1>5. Blend(t, alpha, b) = d
  BY <1>1, <1>3, <1>4 DEF Blend
<1>6. Mean(t, alpha, b) = d
  <2> DEFINE Mid(w) == \E rest \in 0 .. 254 : 255 * w + rest = n
  <2>1. Mean(t, alpha, b) = CHOOSE w \in 0 .. 255 : Mid(w)
    BY <1>1, <1>3 DEF Mean, Byte
  <2>2. \A w \in 0 .. 255 : Mid(w) <=> w = d
    <3> TAKE w \in 0 .. 255
    <3>1. ASSUME w = d PROVE \E rest \in 0 .. 254 : 255 * w + rest = n
      <4>1. 255 * w + m = n
        BY <1>4, <3>1
      <4> QED  BY <1>4, <4>1
    <3>2. ASSUME NEW rest \in 0 .. 254, 255 * w + rest = n PROVE w = d
      BY <1>4, <3>2, SMTT(30)
    <3> QED  BY <3>1, <3>2
  <2> HIDE DEF Mid
  <2> QED  BY <1>9, <2>1, <2>2, Zenon
<1> QED  BY <1>5, <1>6, <1>9 DEF Byte

LEMMA PixelOf ==
  ASSUME NEW c \in Pixel
  PROVE  /\ \A k \in 1 .. 4 : c[k] \in Byte
         /\ c = <<c[1], c[2], c[3], c[4]>>
BY DEF Pixel

LEMMA PixelMade ==
  ASSUME NEW F, NEW a \in Byte, NEW r \in Byte, NEW g \in Byte, NEW b \in Byte,
         F = <<a, r, g, b>>
  PROVE  F \in Pixel
BY DEF Pixel

LEMMA OverlayIsPixel ==
  ASSUME NEW color \in Pixel, NEW alpha \in Byte, NEW bg \in Pixel
  PROVE  Overlay(color, alpha, bg) \in Pixel
<1>1. 255 \in Byte
  BY DEF Byte
<1>2. \A k \in 1 .. 4 : Blend(color[k], alpha, bg[k]) \in Byte
  <2> TAKE k \in 1 .. 4
  <2>1. color[k] \in Byte /\ bg[k] \in Byte
    BY PixelOf
  <2> QED  BY <2>1, BlendIsByte
<1>3. PICK r, g, b \in Byte : /\ r = Blend(color[2], alpha, bg[2])
                              /\ g = Blend(color[3], alpha, bg[3])
                              /\ b = Blend(color[4], alpha, bg[4])
  BY <1>2
<1>4. Overlay(color, alpha, bg) = <<255, r, g, b>>
  BY <1>3 DEF Overlay
<1> QED  BY <1>1, <1>4, PixelMade

-----------------------------------------------------------------------------
(* Places and their indices in the buffer. *)

Buffer == 0 .. FB_WIDTH * FB_HEIGHT - 1

LEMMA IndexInside ==
  ASSUME NEW col \in 0 .. FB_WIDTH - 1, NEW row \in 0 .. FB_HEIGHT - 1
  PROVE  Index(col, row) \in Buffer
<1>1. PICK w, h \in Nat : w = FB_WIDTH /\ h = FB_HEIGHT /\ w > 0 /\ h > 0
  BY PaintAssumption
<1>2. row \in Nat /\ row <= h - 1 /\ col \in Nat /\ col <= w - 1
  BY <1>1
<1>3. row * w \in Nat /\ row * w <= (h - 1) * w
  BY <1>1, <1>2
<1>4. (h - 1) * w = w * h - w
  BY <1>1
<1>5. w * h \in Nat
  BY <1>1
<1>6. PICK u, n \in Nat : u = row * w /\ n = w * h /\ u <= n - w
  BY <1>3, <1>4, <1>5
<1>7. u + col \in 0 .. n - 1
  BY <1>1, <1>2, <1>6
<1> QED  BY <1>1, <1>6, <1>7 DEF Index, Buffer

LEMMA Division ==
  ASSUME NEW w \in Nat, w > 0, NEW a \in Nat, NEW r \in 0 .. w - 1
  PROVE  (a * w + r) % w = r /\ (a * w + r) \div w = a
<1>1. PICK n \in Nat : n = a * w + r
  OBVIOUS
<1>2. PICK d, m \in Int : d = n \div w /\ m = n % w
  BY <1>1
<1>3. n = d * w + m /\ m \in 0 .. w - 1
  BY <1>1, <1>2
<1>4. (d - a) * w = r - m
  BY <1>1, <1>3
<1>5. ~(d - a >= 1)
  <2> SUFFICES ASSUME d - a >= 1 PROVE FALSE
    OBVIOUS
  <2>1. (d - a) * w >= w
    OBVIOUS
  <2> QED  BY <1>3, <1>4, <2>1
<1>6. ~(a - d >= 1)
  <2> SUFFICES ASSUME a - d >= 1 PROVE FALSE
    OBVIOUS
  <2>1. (a - d) * w >= w
    OBVIOUS
  <2>2. (a - d) * w = m - r
    BY <1>4
  <2> QED  BY <1>3, <2>1, <2>2
<1>7. d = a
  BY <1>5, <1>6
<1>8. m = r
  BY <1>1, <1>3, <1>7
<1> QED  BY <1>1, <1>2, <1>7, <1>8

LEMMA PlaceOfIndex ==
  ASSUME NEW col \in 0 .. FB_WIDTH - 1, NEW row \in 0 .. FB_HEIGHT - 1
  PROVE  Index(col, row) % FB_WIDTH = col /\ Index(col, row) \div FB_WIDTH = row
<1>1. FB_WIDTH \in Nat /\ FB_WIDTH > 0 /\ FB_HEIGHT \in Nat
  BY PaintAssumption
<1>2. row \in Nat
  BY <1>1
<1> QED  BY <1>1, <1>2, Division DEF Index

-----------------------------------------------------------------------------
(* What the loops rely on. *)

Phases == {"no", "image", "painted", "rect", "blend", "done"}
Frames == [Buffer -> Pixel]

Painting ==
  /\ rect \in Rects \cup {NoRect} /\ drawing \in Phases
  /\ back_buffer \in Frames /\ bg_color \in Pixel
  /\ x \in Int /\ y \in Int /\ DOMAIN texts \subseteq Places

(* The decoder is behind us, and what it was given is what the kernel has. *)
Ready ==
  /\ pc \in {"return", "null"} /\ image \in Wallpapers
  /\ channels = 4 /\ size = Len(bytes) /\ rect \in Rects

Loops ==
  /\ drawing # "no" => Ready
  /\ drawing \in {"no", "image"} => x \in Nat /\ y \in Nat
  /\ drawing = "image" => pc = "return"
  /\ drawing \in {"rect", "blend"} => start_x <= x /\ start_y <= y /\ rect.alpha # 0
  /\ drawing = "blend" => x < end_x /\ y < end_y /\ rect.alpha # 255

PaintInv == IInv /\ Painting /\ Loops

LEMMA ScreenSize ==
  FB_WIDTH \in Nat /\ FB_WIDTH > 0 /\ FB_HEIGHT \in Nat /\ FB_HEIGHT > 0
BY PaintAssumption

LEMMA BlackIsPixel == Black \in Pixel
<1>1. 0 \in Byte
  BY DEF Byte
<1> QED  BY <1>1 DEF Black, Pixel

(* The rectangle, cut off at the edges of the screen. *)
LEMMA Edges ==
  ASSUME rect \in Rects
  PROVE  /\ rect.x \in Int /\ rect.y \in Int /\ rect.width \in Int /\ rect.height \in Int
         /\ rect.color \in Pixel /\ rect.alpha \in Byte
         /\ start_x \in Nat /\ start_y \in Nat /\ end_x \in Int /\ end_y \in Int
         /\ end_x <= FB_WIDTH /\ end_y <= FB_HEIGHT
<1>1. /\ rect.x \in Int /\ rect.y \in Int /\ rect.width \in Int /\ rect.height \in Int
      /\ rect.color \in Pixel /\ rect.alpha \in Byte
  BY PaintAssumption
<1>2. start_x \in Nat /\ start_y \in Nat
  BY <1>1 DEF start_x, start_y, Larger
<1>3. end_x \in Int /\ end_x <= FB_WIDTH
  BY <1>1, ScreenSize DEF end_x, Smaller
<1>4. end_y \in Int /\ end_y <= FB_HEIGHT
  BY <1>1, ScreenSize DEF end_y, Smaller
<1> QED  BY <1>1, <1>2, <1>3, <1>4

LEMMA PutInside ==
  ASSUME back_buffer \in Frames, NEW col \in 0 .. FB_WIDTH - 1, NEW row \in 0 .. FB_HEIGHT - 1,
         NEW color \in Pixel, put_pixel(col, row, color)
  PROVE  /\ back_buffer' \in Frames
         /\ back_buffer'[Index(col, row)] = color
         /\ \A k \in Buffer : k # Index(col, row) => back_buffer'[k] = back_buffer[k]
<1>1. PICK n \in Buffer : n = Index(col, row)
  BY IndexInside
<1>2. back_buffer' = [k \in Buffer |-> IF k = n THEN color ELSE back_buffer[k]]
  <2>1. DOMAIN back_buffer \cup {n} = Buffer
    BY <1>1 DEF Frames
  <2> QED  BY <1>1, <2>1 DEF put_pixel
<1>3. \A k \in Buffer : back_buffer[k] \in Pixel
  BY DEF Frames
<1> QED  BY <1>1, <1>2, <1>3 DEF Frames

(* Behind the decoder nothing happens in it. *)
LEMMA NothingMore ==
  ASSUME pc \in {"return", "null"}, [Next]_vars
  PROVE  UNCHANGED vars
BY DEF Next, qoi_encode, encode_run, encode_new, encode_return, Handed, qoi_decode,
       decode_run, decode_chunk, decode_starved, decode_return, Over

(* What display_qoi_image gets is the image, in the size it was encoded. *)
LEMMA Unpacked ==
  ASSUME IInv, Ready, pc = "return"
  PROVE  /\ header.width = image.desc.width /\ header.height = image.desc.height
         /\ image \in Images /\ image.desc.height <= FB_HEIGHT
         /\ image.desc.width \in Nat /\ image.desc.height \in Nat
         /\ \A k \in 1 .. Len(image.pixels) :
              /\ image.pixels[k] \in qoi_rgba_t
              /\ pixels[k] = <<image.pixels[k].r, image.pixels[k].g, image.pixels[k].b,
                               image.pixels[k].a>>
<1>1. /\ image \in Images /\ bytes \in Seq(Byte) /\ size \in Nat /\ ~Rejected(image.desc)
      /\ Written(bytes, 0, Header(image)) /\ 22 <= size
  BY DEF IInv, Typed, Coded, Decoding
<1>2. image.desc.height <= FB_HEIGHT
  BY PaintAssumption DEF Ready
<1>3. RoundTrip
  BY InvRoundTrip
<1>4. ~starved /\ Len(pixels) = Len(image.pixels)
  BY <1>3 DEF RoundTrip, Ready
<1>5. DOMAIN pixels = 1 .. Len(pixels)
  BY DEF IInv, Typed
<1>6. \A k \in 1 .. Len(image.pixels) : pixels[k] = Stored(image.pixels[k])
  BY <1>3, <1>4, <1>5 DEF RoundTrip
<1> QED  BY <1>1, <1>2, <1>6, HeaderIsRead, ImageFacts DEF Stored, Ready

(* The place of a pixel in an image. *)
LEMMA PixelIndex ==
  ASSUME NEW w \in Nat, NEW h \in Nat, NEW col \in Nat, NEW row \in Nat, col < w, row < h
  PROVE  row * w + col + 1 \in 1 .. w * h
<1>1. row * w \in Nat /\ row * w <= (h - 1) * w
  OBVIOUS
<1>2. (h - 1) * w = w * h - w
  OBVIOUS
<1>3. w * h \in Nat
  OBVIOUS
<1>4. PICK u, n \in Nat : u = row * w /\ n = w * h /\ u <= n - w
  BY <1>1, <1>2, <1>3
<1>5. u + col + 1 \in 1 .. n
  BY <1>4
<1> QED  BY <1>4, <1>5

LEMMA Shown ==
  ASSUME IInv, Ready, pc = "return", NEW col \in Nat, NEW row \in Nat,
         col < image.desc.width, row < image.desc.height
  PROVE  /\ XRGB(pixels[row * header.width + col + 1]) \in Pixel
         /\ XRGB(pixels[row * header.width + col + 1]) = ImageAt(<<col, row>>)
<1>1. PICK k \in 1 .. Len(image.pixels) : k = row * image.desc.width + col + 1
  <2>1. PICK w, h \in Nat : w = image.desc.width /\ h = image.desc.height
    BY Unpacked
  <2>2. col < w /\ row < h /\ Len(image.pixels) = w * h
    BY <2>1, Unpacked, ImageFacts
  <2>3. row * w + col + 1 \in 1 .. w * h
    BY <2>2, PixelIndex
  <2> QED  BY <2>1, <2>2, <2>3
<1>2. k = row * header.width + col + 1
  BY <1>1, Unpacked
<1>3. PICK c \in qoi_rgba_t : c = image.pixels[k] /\ pixels[k] = <<c.r, c.g, c.b, c.a>>
  BY Unpacked
<1>4. XRGB(pixels[k]) = <<c.a, c.r, c.g, c.b>>
  BY <1>3 DEF XRGB
<1>5. XRGB(pixels[k]) \in Pixel
  BY <1>4, PixelBytes, PixelMade
<1>6. ImageAt(<<col, row>>) = <<c.a, c.r, c.g, c.b>>
  <2>1. ~(col >= image.desc.width) /\ ~(row >= image.desc.height)
    BY Unpacked
  <2> QED  BY <1>1, <1>3, <2>1 DEF ImageAt
<1> QED  BY <1>2, <1>4, <1>5, <1>6
-----------------------------------------------------------------------------
(* The steps. *)

LEMMA PaintStarts == PaintInit => PaintInv
<1> SUFFICES ASSUME PaintInit PROVE PaintInv
  OBVIOUS
<1>1. IInv
  BY InitInv DEF PaintInit
<1>2. back_buffer \in Frames
  BY BlackIsPixel DEF PaintInit, Frames, Buffer
<1>3. DOMAIN texts \subseteq Places
  BY DEF PaintInit
<1> QED
  BY <1>1, <1>2, <1>3, BlackIsPixel DEF PaintInit, PaintInv, Painting, Loops, Phases

(* A step that paints nothing. *)
LEMMA Unpainted ==
  ASSUME Painting, back_buffer' = back_buffer, texts' = texts, rect' \in Rects \cup {NoRect},
         drawing' \in Phases, x' \in Int, y' \in Int, bg_color' \in Pixel
  PROVE  Painting'
BY DEF Painting

(* A step that paints a pixel, over whatever text is there. *)
LEMMA Painted ==
  ASSUME Painting, x \in 0 .. FB_WIDTH - 1, y \in 0 .. FB_HEIGHT - 1,
         NEW color \in Pixel, put_pixel(x, y, color), x' = x + 1, UNCHANGED <<rect, y>>,
         drawing' \in Phases, bg_color' \in Pixel, DOMAIN texts' \subseteq DOMAIN texts
  PROVE  Painting'
<1>1. back_buffer' \in Frames
  BY PutInside DEF Painting
<1>2. x' \in Int /\ y' \in Int
  BY DEF Painting
<1> QED  BY <1>1, <1>2 DEF Painting

LEMMA PlaceInImage ==
  ASSUME PaintInv, drawing = "image", y < header.height, x < draw_width
  PROVE  /\ x \in 0 .. FB_WIDTH - 1 /\ y \in 0 .. FB_HEIGHT - 1
         /\ x \in Nat /\ y \in Nat /\ x < image.desc.width /\ y < image.desc.height
         /\ Ready /\ pc = "return"
<1>1. Ready /\ pc = "return" /\ x \in Nat /\ y \in Nat /\ IInv
  BY DEF PaintInv, Loops
<1>2. /\ header.width = image.desc.width /\ header.height = image.desc.height
      /\ image.desc.width \in Nat /\ image.desc.height \in Nat
      /\ image.desc.height <= FB_HEIGHT
  BY <1>1, Unpacked
<1>3. x < image.desc.width /\ x < FB_WIDTH
  BY <1>1, <1>2, ScreenSize DEF draw_width, Smaller
<1> QED  BY <1>1, <1>2, <1>3, ScreenSize

LEMMA PlaceInRect ==
  ASSUME PaintInv, drawing \in {"rect", "blend"}, y < end_y, x < end_x
  PROVE  x \in 0 .. FB_WIDTH - 1 /\ y \in 0 .. FB_HEIGHT - 1 /\ Ready /\ rect.color \in Pixel
<1>1. Ready /\ rect \in Rects /\ start_x <= x /\ start_y <= y /\ x \in Int /\ y \in Int
  BY DEF PaintInv, Painting, Loops, Ready
<1>2. /\ start_x \in Nat /\ start_y \in Nat /\ end_x \in Int /\ end_y \in Int
      /\ end_x <= FB_WIDTH /\ end_y <= FB_HEIGHT /\ rect.color \in Pixel
  BY <1>1, Edges
<1> QED  BY <1>1, <1>2, ScreenSize

LEMMA GetPixel ==
  ASSUME back_buffer \in Frames, NEW col \in 0 .. FB_WIDTH - 1, NEW row \in 0 .. FB_HEIGHT - 1
  PROVE  get_pixel(col, row) = back_buffer[Index(col, row)] /\ get_pixel(col, row) \in Pixel
<1>1. ~(col < 0 \/ col >= FB_WIDTH \/ row < 0 \/ row >= FB_HEIGHT)
  BY ScreenSize
<1>2. get_pixel(col, row) = back_buffer[Index(col, row)]
  BY <1>1 DEF get_pixel
<1>3. Index(col, row) \in Buffer
  BY IndexInside
<1> QED  BY <1>2, <1>3 DEF Frames

LEMMA ImageKept ==
  ASSUME PaintInv, UNCHANGED vars,
         display_qoi_image \/ image_pixel \/ image_row \/ image_return
  PROVE  Painting' /\ Loops'
<1>1. Painting /\ Loops /\ IInv
  BY DEF PaintInv
<1>2. Ready /\ rect' = rect => Ready'
  BY DEF Ready, vars
<1>3. CASE display_qoi_image
  <2>1. Painting'
    BY <1>1, <1>3, Unpainted DEF display_qoi_image, Painting, Phases
  <2>2. Ready'
    BY <1>3 DEF display_qoi_image, Ready, vars
  <2> QED  BY <1>1, <1>3, <2>1, <2>2 DEF Loops, display_qoi_image, vars
<1>4. CASE image_pixel
  <2>1. /\ drawing = "image" /\ y < header.height /\ x < draw_width
        /\ put_pixel(x, y, XRGB(pixels[y * header.width + x + 1]))
        /\ DOMAIN texts' \subseteq DOMAIN texts
        /\ x' = x + 1 /\ UNCHANGED <<rect, drawing, y, bg_color>>
    BY <1>4 DEF image_pixel
  <2>2. /\ x \in 0 .. FB_WIDTH - 1 /\ y \in 0 .. FB_HEIGHT - 1
        /\ x \in Nat /\ y \in Nat /\ x < image.desc.width /\ y < image.desc.height
        /\ Ready /\ pc = "return"
    BY <2>1, PlaceInImage
  <2>3. XRGB(pixels[y * header.width + x + 1]) \in Pixel
    BY <1>1, <2>2, Shown
  <2>4. Painting'
    BY <1>1, <2>1, <2>2, <2>3, Painted DEF Painting
  <2>5. x' \in Nat /\ y' \in Nat
    BY <2>1, <2>2
  <2> QED  BY <1>2, <2>1, <2>2, <2>4, <2>5 DEF Loops, vars
<1>5. CASE image_row
  <2>1. Painting'
    BY <1>1, <1>5, Unpainted DEF image_row, Painting
  <2>2. x' \in Nat /\ y' \in Nat
    BY <1>1, <1>5 DEF image_row, Loops
  <2> QED  BY <1>1, <1>2, <1>5, <2>1, <2>2 DEF Loops, image_row, vars
<1>6. CASE image_return
  <2>1. Painting'
    BY <1>1, <1>6, Unpainted DEF image_return, Painting, Phases
  <2> QED  BY <1>1, <1>2, <1>6, <2>1 DEF Loops, image_return, vars
<1> QED  BY <1>3, <1>4, <1>5, <1>6

LEMMA RectKept ==
  ASSUME PaintInv, UNCHANGED vars,
         \/ fill_rect \/ rect_solid \/ rect_read \/ rect_blend \/ rect_row \/ rect_return
         \/ \E g \in Glyphs : draw_font_char(g)
  PROVE  Painting' /\ Loops'
<1>1. Painting /\ Loops /\ IInv
  BY DEF PaintInv
<1>2. Ready /\ rect' = rect => Ready'
  BY DEF Ready, vars
<1>3. rect' = rect => /\ start_x' = start_x /\ start_y' = start_y
                      /\ end_x' = end_x /\ end_y' = end_y
  BY DEF start_x, start_y, end_x, end_y
<1>4. drawing # "no" => Ready /\ rect \in Rects
  BY <1>1 DEF Loops, Ready
<1>5. CASE fill_rect
  <2>1. /\ drawing = "painted" /\ drawing' = IF rect.alpha = 0 THEN "done" ELSE "rect"
        /\ x' = start_x /\ y' = start_y /\ UNCHANGED <<back_buffer, rect, bg_color, texts>>
    BY <1>5 DEF fill_rect
  <2>2. start_x \in Nat /\ start_y \in Nat /\ start_x <= start_x /\ start_y <= start_y
    BY <1>4, <2>1, Edges
  <2>3. Painting'
    BY <1>1, <2>1, <2>2, Unpainted DEF Painting, Phases
  <2>4. x' \in Nat /\ y' \in Nat /\ start_x' <= x' /\ start_y' <= y'
    BY <1>3, <2>1, <2>2
  <2> QED  BY <1>2, <1>4, <2>1, <2>3, <2>4 DEF Loops
<1>6. CASE rect_solid
  <2>1. /\ drawing = "rect" /\ y < end_y /\ x < end_x
        /\ put_pixel(x, y, rect.color) /\ DOMAIN texts' \subseteq DOMAIN texts
        /\ x' = x + 1 /\ UNCHANGED <<rect, drawing, y, bg_color>>
    BY <1>6 DEF rect_solid
  <2>2. /\ x \in 0 .. FB_WIDTH - 1 /\ y \in 0 .. FB_HEIGHT - 1 /\ Ready /\ rect.color \in Pixel
    BY <2>1, PlaceInRect
  <2>3. Painting'
    BY <1>1, <2>1, <2>2, Painted DEF Painting
  <2>4. start_x \in Nat /\ start_x <= x /\ start_y <= y /\ rect.alpha # 0
    BY <1>1, <1>4, <2>1, Edges DEF Loops
  <2>5. start_x' <= x' /\ start_y' <= y'
    BY <1>3, <2>1, <2>2, <2>4, ScreenSize
  <2> QED  BY <1>2, <2>1, <2>2, <2>3, <2>4, <2>5 DEF Loops
<1>7. CASE rect_read
  <2>1. /\ drawing = "rect" /\ y < end_y /\ x < end_x /\ rect.alpha # 255
        /\ bg_color' = get_pixel(x, y) /\ drawing' = "blend"
        /\ UNCHANGED <<back_buffer, rect, x, y, texts>>
    BY <1>7 DEF rect_read
  <2>2. x \in 0 .. FB_WIDTH - 1 /\ y \in 0 .. FB_HEIGHT - 1
    BY <2>1, PlaceInRect
  <2>3. bg_color' \in Pixel
    BY <1>1, <2>1, <2>2, GetPixel DEF Painting
  <2>4. Painting'
    BY <1>1, <2>1, <2>3, Unpainted DEF Painting, Phases
  <2> QED  BY <1>1, <1>2, <1>3, <2>1, <2>4 DEF Loops
<1>8. CASE rect_blend
  <2>1. /\ drawing = "blend" /\ put_pixel(x, y, Overlay(rect.color, rect.alpha, bg_color))
        /\ x' = x + 1 /\ drawing' = "rect" /\ bg_color' = Black
        /\ UNCHANGED <<rect, y, texts>>
    BY <1>8 DEF rect_blend
  <2>2. y < end_y /\ x < end_x /\ start_x <= x /\ start_y <= y /\ rect.alpha # 0
    BY <1>1, <2>1 DEF Loops
  <2>3. x \in 0 .. FB_WIDTH - 1 /\ y \in 0 .. FB_HEIGHT - 1
    BY <2>1, <2>2, PlaceInRect
  <2>4. Overlay(rect.color, rect.alpha, bg_color) \in Pixel
    BY <1>1, <1>4, <2>1, Edges, OverlayIsPixel DEF Painting
  <2>5. Painting'
    BY <1>1, <2>1, <2>3, <2>4, BlackIsPixel, Painted DEF Phases
  <2>6. start_x' <= x' /\ start_y' <= y'
    BY <1>3, <1>4, <2>1, <2>2, <2>3, Edges, ScreenSize
  <2> QED  BY <1>2, <1>4, <2>1, <2>2, <2>5, <2>6 DEF Loops
<1>9. CASE rect_row
  <2>1. /\ drawing = "rect" /\ y < end_y /\ x' = start_x /\ y' = y + 1
        /\ UNCHANGED <<back_buffer, rect, drawing, bg_color, texts>>
    BY <1>9 DEF rect_row
  <2>2. start_x \in Nat /\ start_y \in Nat /\ start_y <= y /\ rect.alpha # 0 /\ y \in Int
    BY <1>1, <1>4, <2>1, Edges DEF Loops, Painting
  <2>3. start_x' <= x' /\ start_y' <= y' /\ x' \in Int /\ y' \in Int
    BY <1>3, <2>1, <2>2
  <2>4. Painting'
    BY <1>1, <2>1, <2>3, Unpainted DEF Painting
  <2> QED  BY <1>2, <1>4, <2>1, <2>2, <2>3, <2>4 DEF Loops
<1>10. CASE rect_return
  <2>1. Painting'
    BY <1>1, <1>10, Unpainted DEF rect_return, Painting, Phases
  <2> QED  BY <1>1, <1>2, <1>4, <1>10, <2>1 DEF Loops, rect_return
<1>11. ASSUME NEW g \in Glyphs, draw_font_char(g) PROVE Painting' /\ Loops'
  <2>1. drawing # "no" /\ UNCHANGED <<rect, drawing, x, y, bg_color>>
    BY <1>11 DEF draw_font_char
  <2>2. DOMAIN texts' \subseteq Places
    BY <1>11, PaintAssumption DEF draw_font_char
  <2>3. back_buffer' \in Frames
    <3>1. \A q \in DOMAIN g : g[q] \in Byte
      BY PaintAssumption
    <3>2. \A k \in Buffer : back_buffer[k] \in Pixel 
      BY <1>1 DEF Painting, Frames
    <3>3. \A q \in DOMAIN g : \A k \in Buffer : Solidly(g[q], back_buffer[k]) \in Pixel
      BY <3>1, <3>2, OverlayIsPixel, PaintAssumption DEF Solidly
    <3>4. PICK f : /\ back_buffer' = [k \in Buffer |-> f[k]]
                   /\ \A k \in Buffer : f[k] \in Pixel
      <4> DEFINE drawn == {q \in DOMAIN g : g[q] # 0}
                 F(k) == LET q == <<k % FB_WIDTH, k \div FB_WIDTH>>
                         IN IF q \in drawn THEN Solidly(g[q], back_buffer[k])
                            ELSE back_buffer[k]
      <4>1. back_buffer' = [k \in Buffer |-> F(k)]
        <5>1. back_buffer' = [k \in DOMAIN back_buffer |-> F(k)]
          BY <1>11 DEF draw_font_char
        <5>2. DOMAIN back_buffer = Buffer
          BY <1>1 DEF Painting, Frames
        <5> QED  BY <5>1, <5>2
      <4>2. \A k \in Buffer : F(k) \in Pixel
        BY <3>2, <3>3
      <4> HIDE DEF F
      <4> WITNESS [k \in Buffer |-> F(k)]
      <4> QED  BY <4>1, <4>2
    <3> QED  BY <3>4 DEF Frames
  <2>4. Painting'
    BY <1>1, <2>1, <2>2, <2>3 DEF Painting
  <2> QED  BY <1>1, <1>2, <1>3, <2>1, <2>4 DEF Loops, vars
<1> QED  BY <1>5, <1>6, <1>7, <1>8, <1>9, <1>10, <1>11

LEMMA PaintKept == PaintInv /\ [PaintNext]_paint_vars => PaintInv'
<1> SUFFICES ASSUME PaintInv, [PaintNext]_paint_vars PROVE PaintInv'
  OBVIOUS
<1>1. IInv /\ Painting /\ Loops
  BY DEF PaintInv
<1>2. CASE Next /\ UNCHANGED screen
  <2>1. IInv'
    BY <1>1, <1>2, NextInv
  <2>2. UNCHANGED <<back_buffer, rect, drawing, x, y, bg_color, texts>>
    BY <1>2 DEF screen
  <2>3. Painting'
    BY <1>1, <2>2 DEF Painting
  <2>4. ASSUME drawing = "no" PROVE Loops'
    <3>1. drawing' = "no" /\ x' \in Nat /\ y' \in Nat
      BY <1>1, <2>2, <2>4 DEF Loops
    <3> QED  BY <3>1 DEF Loops
  <2>5. ASSUME drawing # "no" PROVE Loops'
    <3>1. UNCHANGED vars
      BY <1>1, <1>2, <2>5, NothingMore DEF Loops, Ready
    <3>2. Ready'
      BY <1>1, <2>2, <2>5, <3>1 DEF Loops, Ready, vars
    <3>3. /\ start_x' = start_x /\ start_y' = start_y
          /\ end_x' = end_x /\ end_y' = end_y
      BY <2>2 DEF start_x, start_y, end_x, end_y
    <3>4. pc' = pc
      BY <3>1 DEF vars
    <3> QED  BY <1>1, <2>2, <2>5, <3>2, <3>3, <3>4 DEF Loops
  <2> QED  BY <2>1, <2>3, <2>4, <2>5 DEF PaintInv
<1>3. CASE Paint /\ UNCHANGED vars
  <2>1. IInv'
    BY <1>1, <1>3, Stutters
  <2>2. CASE Done
    <3>1. UNCHANGED <<back_buffer, rect, drawing, x, y, bg_color, texts>>
      BY <2>2 DEF Done, screen
    <3>2. /\ start_x' = start_x /\ start_y' = start_y
          /\ end_x' = end_x /\ end_y' = end_y
      BY <3>1 DEF start_x, start_y, end_x, end_y
    <3>3. Ready' = Ready
      BY <1>3, <3>1 DEF Ready, vars
    <3> QED  BY <1>1, <1>3, <2>1, <3>1, <3>2, <3>3 DEF PaintInv, Painting, Loops, vars
  <2>3. Painting' /\ Loops'
    BY <1>3, <2>2, ImageKept, RectKept DEF Paint, PaintInv
  <2> QED  BY <2>1, <2>3 DEF PaintInv
<1>4. CASE UNCHANGED paint_vars
  <2>1. UNCHANGED vars /\ UNCHANGED <<back_buffer, rect, drawing, x, y, bg_color, texts>>
    BY <1>4 DEF paint_vars, screen
  <2>2. IInv'
    BY <1>1, <2>1, Stutters
  <2>3. /\ start_x' = start_x /\ start_y' = start_y
        /\ end_x' = end_x /\ end_y' = end_y
    BY <2>1 DEF start_x, start_y, end_x, end_y
  <2>4. Ready' = Ready
    BY <2>1 DEF Ready, vars
  <2> QED  BY <1>1, <2>1, <2>2, <2>3, <2>4 DEF PaintInv, Painting, Loops, vars
<1> QED  BY <1>2, <1>3, <1>4 DEF PaintNext
-----------------------------------------------------------------------------
(***************************************************************************)
(* The picture while it is painted: what the wallpaper has not reached is  *)
(* black, what fill_rect has still to come to is without the rectangle.    *)
(* At the end of each, nothing is left of it.                              *)
(***************************************************************************)
Spot(q) == Index(q[1], q[2])

Reached(q) == q[2] < y \/ (q[2] = y /\ q[1] < x)

Ground(q) == IF drawing = "image" /\ ~Reached(q) THEN Black ELSE ImageAt(q)

Pending(q) ==
  /\ InRect(q) /\ rect.alpha # 0 /\ drawing # "done"
  /\ Ahead(q) \/ (drawing = "blend" /\ q = <<x, y>>)

Laid(q, below) == IF Pending(q) THEN below ELSE Shade(q, below)

Inked(q, fate, alpha) ==
  CASE fate = "under" -> Laid(q, Layer(TextColor, alpha, Ground(q)))
    [] fate = "over"  -> Layer(TextColor, alpha, Laid(q, Ground(q)))
    [] fate = "lost"  -> IF Pending(q) THEN Layer(TextColor, alpha, Ground(q))
                         ELSE Shade(q, Ground(q))

SoFar(q) == IF q \notin DOMAIN texts THEN Laid(q, Ground(q))
            ELSE Inked(q, texts[q][1], texts[q][2])

Blank ==
  drawing = "no" => /\ x = 0 /\ y = 0 /\ DOMAIN texts = {}
                    /\ \A q \in Places : back_buffer[Spot(q)] = Black

Seen == drawing # "no" => \A q \in Places : back_buffer[Spot(q)] = SoFar(q)

(* Text goes over what is finished, and is lost only where a pixel has been read. *)
Fates ==
  \A q \in DOMAIN texts :
    /\ texts[q][1] \in {"under", "over", "lost"} /\ texts[q][2] \in Byte \ {0}
    /\ texts[q][1] = "over" => ~Pending(q)
    /\ texts[q][1] = "lost" /\ Pending(q) => drawing = "blend" /\ q = <<x, y>>

Lost(q) == q \in DOMAIN texts /\ texts[q][1] = "lost"

Read ==
  drawing = "blend" =>
    bg_color = IF Lost(<<x, y>>) THEN Ground(<<x, y>>) ELSE back_buffer[Index(x, y)]

Finished == drawing = "done" => rect.alpha = 0 \/ y >= end_y

PictureInv == Blank /\ Seen /\ Fates /\ Read /\ Finished

-----------------------------------------------------------------------------
(* Places. *)

LEMMA PlaceFacts ==
  ASSUME NEW q \in Places
  PROVE  /\ q[1] \in 0 .. FB_WIDTH - 1 /\ q[2] \in 0 .. FB_HEIGHT - 1 /\ q = <<q[1], q[2]>>
         /\ q[1] \in Nat /\ q[2] \in Nat /\ q[1] < FB_WIDTH /\ q[2] < FB_HEIGHT
         /\ Spot(q) \in Buffer
         /\ Spot(q) % FB_WIDTH = q[1] /\ Spot(q) \div FB_WIDTH = q[2]
<1>1. q[1] \in 0 .. FB_WIDTH - 1 /\ q[2] \in 0 .. FB_HEIGHT - 1 /\ q = <<q[1], q[2]>>
  BY DEF Places
<1>2. Spot(q) \in Buffer
  BY <1>1, IndexInside DEF Spot
<1>3. Spot(q) % FB_WIDTH = q[1] /\ Spot(q) \div FB_WIDTH = q[2]
  BY <1>1, PlaceOfIndex DEF Spot
<1>4. q[1] \in Nat /\ q[2] \in Nat /\ q[1] < FB_WIDTH /\ q[2] < FB_HEIGHT
  BY <1>1, ScreenSize
<1> QED  BY <1>1, <1>2, <1>3, <1>4

LEMMA PlaceMade ==
  ASSUME NEW col \in 0 .. FB_WIDTH - 1, NEW row \in 0 .. FB_HEIGHT - 1
  PROVE  /\ <<col, row>> \in Places /\ <<col, row>>[1] = col /\ <<col, row>>[2] = row
         /\ Spot(<<col, row>>) = Index(col, row)
BY DEF Places, Spot

(* One place is painted, and no other. *)
LEMMA PutPlace ==
  ASSUME back_buffer \in Frames, NEW col \in 0 .. FB_WIDTH - 1, NEW row \in 0 .. FB_HEIGHT - 1,
         NEW color \in Pixel, put_pixel(col, row, color)
  PROVE  /\ back_buffer'[Spot(<<col, row>>)] = color
         /\ \A q \in Places : q # <<col, row>> => back_buffer'[Spot(q)] = back_buffer[Spot(q)]
<1>1. PICK r \in Places : r = <<col, row>> /\ Spot(r) = Index(col, row)
  BY PlaceMade
<1>2. ASSUME NEW q \in Places, q # r PROVE Spot(q) # Spot(r)
  BY <1>2, PlaceFacts
<1>3. /\ back_buffer'[Spot(r)] = color
      /\ \A k \in Buffer : k # Spot(r) => back_buffer'[k] = back_buffer[k]
  BY <1>1, PutInside
<1> QED  BY <1>1, <1>2, <1>3, PlaceFacts

LEMMA LayerIsOverlay ==
  ASSUME NEW color \in Pixel, NEW alpha \in Byte, NEW bg \in Pixel, alpha # 0
  PROVE  /\ alpha # 255 => Overlay(color, alpha, bg) = Layer(color, alpha, bg)
         /\ alpha = 255 => Layer(color, alpha, bg) = color
<1>1. \A k \in 1 .. 4 : Blend(color[k], alpha, bg[k]) = Mean(color[k], alpha, bg[k])
  BY PixelOf, BlendIsByte
<1> QED  BY <1>1 DEF Overlay, Layer

LEMMA SolidlyIsLayer ==
  ASSUME NEW alpha \in Byte, NEW bg \in Pixel, alpha # 0
  PROVE  Solidly(alpha, bg) = Layer(TextColor, alpha, bg)
BY LayerIsOverlay, PaintAssumption DEF Solidly

(* The rectangle covers the places within its edges, and no others. *)
Sides(q) == q[1] - rect.x \in 0 .. rect.width - 1 /\ q[2] - rect.y \in 0 .. rect.height - 1

LEMMA SidesAre ==
  ASSUME rect \in Rects, NEW q \in Places
  PROVE  Sides(q) <=> InRect(q)
<1>1. PICK a, b \in Nat : a = q[1] /\ b = q[2] /\ a < FB_WIDTH /\ b < FB_HEIGHT
  BY PlaceFacts
<1>2. PICK rx, ry, w, h \in Int : rx = rect.x /\ ry = rect.y /\ w = rect.width /\ h = rect.height
  BY Edges
<1>3. a - rx \in 0 .. w - 1 <=> start_x <= a /\ a < end_x
  BY <1>1, <1>2, ScreenSize DEF start_x, end_x, Larger, Smaller
<1>4. b - ry \in 0 .. h - 1 <=> start_y <= b /\ b < end_y
  BY <1>1, <1>2, ScreenSize DEF start_y, end_y, Larger, Smaller
<1> QED  BY <1>1, <1>2, <1>3, <1>4 DEF Sides, InRect

LEMMA ShadeIs ==
  ASSUME rect \in Rects, NEW q \in Places, NEW below
  PROVE  /\ ~InRect(q) \/ rect.alpha = 0 => Shade(q, below) = below
         /\ InRect(q) => Shade(q, below) = Layer(rect.color, rect.alpha, below)
<1>1. Shade(q, below) = IF Sides(q) THEN Layer(rect.color, rect.alpha, below) ELSE below
  BY DEF Shade, Sides
<1>2. Sides(q) <=> InRect(q)
  BY SidesAre
<1> QED  BY <1>1, <1>2 DEF Layer

(* The place q is at (u, v) or behind it, row by row. *)
From(q, u, v) == q[2] > v \/ (q[2] = v /\ q[1] >= u)

LEMMA PendingIs ==
  ASSUME NEW q \in Places, x \in Int, y \in Int
  PROVE  /\ drawing \in {"image", "painted"} => (Pending(q) <=> InRect(q) /\ rect.alpha # 0)
         /\ drawing \in {"rect", "blend"} =>
              (Pending(q) <=> InRect(q) /\ rect.alpha # 0 /\ From(q, x, y))
         /\ drawing = "done" => ~Pending(q)
<1>1. PICK a, b \in Nat : a = q[1] /\ b = q[2] /\ q = <<a, b>>
  BY PlaceFacts
<1>2. q = <<x, y>> <=> a = x /\ b = y
  BY <1>1
<1>3. drawing = "rect" => (Ahead(q) <=> From(q, x, y))
  BY <1>1 DEF Ahead, From
<1>4. drawing = "blend" => (Ahead(q) \/ q = <<x, y>> <=> From(q, x, y))
  BY <1>1, <1>2 DEF Ahead, From
<1>5. drawing \in {"image", "painted"} => Ahead(q)
  BY DEF Ahead
<1> QED  BY <1>3, <1>4, <1>5 DEF Pending

LEMMA PendingWillBe ==
  ASSUME NEW q \in Places, x' \in Int, y' \in Int
  PROVE  /\ drawing' \in {"image", "painted"} => (Pending(q)' <=> InRect(q)' /\ rect'.alpha # 0)
         /\ drawing' \in {"rect", "blend"} =>
              (Pending(q)' <=> InRect(q)' /\ rect'.alpha # 0 /\ From(q, x', y'))
         /\ drawing' = "done" => ~Pending(q)'
<1>1. PICK a, b \in Nat : a = q[1] /\ b = q[2] /\ q = <<a, b>>
  BY PlaceFacts
<1>2. q = <<x', y'>> <=> a = x' /\ b = y'
  BY <1>1
<1>3. drawing' = "rect" => (Ahead(q)' <=> From(q, x', y'))
  BY <1>1 DEF Ahead, From
<1>4. drawing' = "blend" => (Ahead(q)' \/ q = <<x', y'>> <=> From(q, x', y'))
  BY <1>1, <1>2 DEF Ahead, From
<1>5. drawing' \in {"image", "painted"} => Ahead(q)'
  BY DEF Ahead
<1> QED  BY <1>3, <1>4, <1>5 DEF Pending

LEMMA RectStays ==
  ASSUME rect' = rect
  PROVE  /\ \A q : InRect(q)' = InRect(q)
         /\ \A q, below : Shade(q, below)' = Shade(q, below)
BY DEF InRect, start_x, start_y, end_x, end_y, Shade, Layer

LEMMA ImageStays ==
  ASSUME UNCHANGED vars
  PROVE  \A q : ImageAt(q)' = ImageAt(q)
BY DEF ImageAt, vars

(* What a place shows is the same where nothing of it has changed. *)
LEMMA SameSoFar ==
  ASSUME rect' = rect, NEW q, Pending(q)' = Pending(q), Ground(q)' = Ground(q),
         q \in DOMAIN texts' <=> q \in DOMAIN texts,
         q \in DOMAIN texts => texts'[q] = texts[q]
  PROVE  SoFar(q)' = SoFar(q)
<1>1. \A below : Shade(q, below)' = Shade(q, below)
  BY RectStays
<1>2. \A below : Laid(q, below)' = Laid(q, below)
  BY <1>1 DEF Laid
<1>3. \A fate, alpha : Inked(q, fate, alpha)' = Inked(q, fate, alpha)
  <2> TAKE fate, alpha
  <2>2. Layer(TextColor, alpha, Ground(q))' = Layer(TextColor, alpha, Ground(q))
    BY DEF Layer
  <2>3. Laid(q, Layer(TextColor, alpha, Ground(q)))' = Laid(q, Layer(TextColor, alpha, Ground(q)))
    BY <1>1, <2>2 DEF Laid
  <2>4. Layer(TextColor, alpha, Laid(q, Ground(q)))' = Layer(TextColor, alpha, Laid(q, Ground(q)))
    <3>1. Laid(q, Ground(q))' = Laid(q, Ground(q))
      BY <1>1 DEF Laid
    <3> QED  BY <3>1 DEF Layer
  <2>5. Shade(q, Ground(q))' = Shade(q, Ground(q))
    BY <1>1
  <2> QED  BY <2>2, <2>3, <2>4, <2>5, Zenon DEF Inked
<1> QED  BY <1>2, <1>3 DEF SoFar
-----------------------------------------------------------------------------
(* The steps, and what the screen shows. *)

(* Nothing has been painted, and everything still pends that did. *)
LEMMA NothingPainted ==
  ASSUME Painting, Seen, Fates, drawing # "no", drawing # "blend", rect' = rect,
         back_buffer' = back_buffer, texts' = texts,
         \A q \in Places : Pending(q)' = Pending(q) /\ Ground(q)' = Ground(q)
  PROVE  Seen' /\ Fates'
<1>1. ASSUME NEW q \in Places PROVE back_buffer'[Spot(q)] = SoFar(q)'
  <2>1. SoFar(q)' = SoFar(q)
    BY SameSoFar
  <2> QED  BY <2>1 DEF Seen
<1>2. Seen'
  BY <1>1 DEF Seen, Spot, Index
<1>3. Fates'
  <2> SUFFICES ASSUME NEW q \in DOMAIN texts
               PROVE  /\ texts[q][1] \in {"under", "over", "lost"}
                      /\ texts[q][2] \in Byte \ {0}
                      /\ texts[q][1] = "over" => ~Pending(q)'
                      /\ ~(texts[q][1] = "lost" /\ Pending(q)')
    BY DEF Fates
  <2>1. Pending(q)' = Pending(q)
    BY DEF Painting
  <2> QED  BY <2>1 DEF Fates
<1> QED  BY <1>2, <1>3

LEMMA ImageStarts ==
  ASSUME PaintInv, PaintInv', PictureInv, UNCHANGED vars, display_qoi_image
  PROVE  PictureInv'
<1>1. /\ drawing = "no" /\ pc \in {"return", "null"}
      /\ drawing' = IF pc = "return" THEN "image" ELSE "painted"
      /\ back_buffer' = back_buffer /\ x' = x /\ y' = y /\ texts' = texts /\ pc' = pc
  BY DEF display_qoi_image, vars
<1>2. /\ x' = 0 /\ y' = 0 /\ DOMAIN texts' = {}
      /\ \A q \in Places : back_buffer'[Spot(q)] = Black
  BY <1>1 DEF PictureInv, Blank
<1>3. rect' \in Rects
  BY DEF display_qoi_image
<1>4. ASSUME NEW q \in Places PROVE SoFar(q)' = Black
  <2>1. Ground(q)' = Black
    <3>1. ~Reached(q)'
      BY <1>2, PlaceFacts DEF Reached
    <3>2. pc = "null" => ImageAt(q)' = Black
      BY <1>1 DEF ImageAt
    <3> QED  BY <1>1, <3>1, <3>2 DEF Ground
  <2>2. ~Pending(q)' => ~InRect(q)' \/ rect'.alpha = 0
    <3>1. x' \in Int /\ y' \in Int /\ drawing' \in {"image", "painted"}
      BY <1>1, <1>2
    <3> QED  BY <3>1, PendingWillBe
  <2>3. ~InRect(q)' \/ rect'.alpha = 0 => Shade(q, Black)' = Black
    <3>1. PICK a, b \in Nat : a = q[1] /\ b = q[2] /\ a < FB_WIDTH /\ b < FB_HEIGHT
      BY PlaceFacts
    <3>2. PICK rx, ry, w, h \in Int : /\ rx = rect'.x /\ ry = rect'.y
                                      /\ w = rect'.width /\ h = rect'.height
      BY <1>3, PaintAssumption
    <3>3. a - rx \in 0 .. w - 1 <=> start_x' <= a /\ a < end_x'
      BY <3>1, <3>2, ScreenSize DEF start_x, end_x, Larger, Smaller
    <3>4. b - ry \in 0 .. h - 1 <=> start_y' <= b /\ b < end_y'
      BY <3>1, <3>2, ScreenSize DEF start_y, end_y, Larger, Smaller
    <3>5. Shade(q, Black)' = IF a - rx \in 0 .. w - 1 /\ b - ry \in 0 .. h - 1
                             THEN Layer(rect'.color, rect'.alpha, Black) ELSE Black
      BY <3>1, <3>2 DEF Shade
    <3>6. InRect(q)' <=> start_x' <= a /\ a < end_x' /\ start_y' <= b /\ b < end_y'
      BY <3>1 DEF InRect
    <3> QED  BY <3>3, <3>4, <3>5, <3>6 DEF Layer
  <2>4. Laid(q, Ground(q))' = Black
    BY <2>1, <2>2, <2>3 DEF Laid
  <2> QED  BY <1>2, <2>4 DEF SoFar
<1>5. Seen'
  BY <1>2, <1>4 DEF Seen, Spot, Index
<1> QED  BY <1>1, <1>2, <1>5 DEF PictureInv, Blank, Fates, Read, Finished

LEMMA ImagePixelShows ==
  ASSUME PaintInv, PaintInv', PictureInv, UNCHANGED vars, image_pixel
  PROVE  PictureInv'
<1>1. /\ drawing = "image" /\ drawing' = "image" /\ y < header.height /\ x < draw_width
      /\ put_pixel(x, y, XRGB(pixels[y * header.width + x + 1]))
      /\ texts' = [q \in DOMAIN texts \ {<<x, y>>} |-> texts[q]]
      /\ x' = x + 1 /\ rect' = rect /\ y' = y
  BY DEF image_pixel
<1>2. /\ x \in 0 .. FB_WIDTH - 1 /\ y \in 0 .. FB_HEIGHT - 1
      /\ x \in Nat /\ y \in Nat /\ x < image.desc.width /\ y < image.desc.height
      /\ Ready /\ pc = "return" /\ rect \in Rects /\ back_buffer \in Frames
      /\ x' \in Int /\ y' \in Int /\ DOMAIN texts \subseteq Places
  BY <1>1, PlaceInImage DEF PaintInv, Painting, Ready
<1>3. PICK q0 \in Places : q0 = <<x, y>> /\ q0[1] = x /\ q0[2] = y
  BY <1>2, PlaceMade
<1>4. /\ XRGB(pixels[y * header.width + x + 1]) \in Pixel
      /\ XRGB(pixels[y * header.width + x + 1]) = ImageAt(q0)
  BY <1>2, <1>3, Shown DEF PaintInv
<1>5. /\ back_buffer'[Spot(q0)] = ImageAt(q0)
      /\ \A q \in Places : q # q0 => back_buffer'[Spot(q)] = back_buffer[Spot(q)]
  BY <1>1, <1>2, <1>3, <1>4, PutPlace
<1>6. \A q : ImageAt(q)' = ImageAt(q) /\ InRect(q)' = InRect(q)
  BY <1>1, ImageStays, RectStays
<1>7. \A q \in Places : Pending(q)' = Pending(q)
                          /\ (Pending(q)' <=> InRect(q)' /\ rect'.alpha # 0)
  <2> TAKE q \in Places
  <2>1. Pending(q) <=> InRect(q) /\ rect.alpha # 0
    BY <1>1, <1>2, PendingIs
  <2>2. Pending(q)' <=> InRect(q)' /\ rect'.alpha # 0
    BY <1>1, <1>2, PendingWillBe
  <2> QED  BY <1>1, <1>6, <2>1, <2>2, Zenon DEF Pending
<1>8. back_buffer'[Spot(q0)] = SoFar(q0)'
  <2>1. Ground(q0)' = ImageAt(q0)
    <3>1. Reached(q0)'
      BY <1>1, <1>2, <1>3 DEF Reached
    <3> QED  BY <1>6, <3>1 DEF Ground
  <2>2. ~Pending(q0) => Shade(q0, ImageAt(q0))' = ImageAt(q0)
    <3>1. ~Pending(q0) => ~InRect(q0) \/ rect.alpha = 0
      BY <1>1, <1>6, <1>7
    <3>2. Shade(q0, ImageAt(q0))' = Shade(q0, ImageAt(q0))
      BY <1>1, <1>6, RectStays DEF Shade, Layer
    <3> QED  BY <1>2, <3>1, <3>2, ShadeIs
  <2>3. Laid(q0, Ground(q0))' = ImageAt(q0)
    BY <1>6, <1>7, <2>1, <2>2 DEF Laid, Shade
  <2>4. q0 \notin DOMAIN texts'
    BY <1>1, <1>3
  <2> QED  BY <1>5, <2>3, <2>4 DEF SoFar
<1>9. ASSUME NEW q \in Places, q # q0 PROVE back_buffer'[Spot(q)] = SoFar(q)'
  <2>1. Reached(q)' <=> Reached(q)
    BY <1>1, <1>2, <1>3, <1>9, PlaceFacts DEF Reached
  <2>2. Ground(q)' = Ground(q)
    BY <1>1, <1>6, <2>1 DEF Ground
  <2>3. /\ q \in DOMAIN texts' <=> q \in DOMAIN texts
        /\ q \in DOMAIN texts => texts'[q] = texts[q]
    BY <1>1, <1>3, <1>9
  <2>4. SoFar(q)' = SoFar(q)
    BY <1>1, <1>7, <2>2, <2>3, SameSoFar
  <2> QED  BY <1>1, <1>5, <1>9, <2>4 DEF PictureInv, Seen
<1>10. Seen'
  BY <1>8, <1>9 DEF Seen, Spot, Index
<1>11. Fates'
  <2> SUFFICES ASSUME NEW q \in DOMAIN texts'
               PROVE  /\ texts'[q][1] \in {"under", "over", "lost"}
                      /\ texts'[q][2] \in Byte \ {0}
                      /\ texts'[q][1] = "over" => ~Pending(q)'
                      /\ ~(texts'[q][1] = "lost" /\ Pending(q)')
    BY DEF Fates
  <2>1. q \in DOMAIN texts /\ texts'[q] = texts[q] /\ q \in Places
    BY <1>1, <1>2
  <2> QED  BY <1>1, <1>7, <2>1 DEF PictureInv, Fates
<1> QED  BY <1>1, <1>10, <1>11 DEF PictureInv, Blank, Read, Finished

LEMMA ImageRowShows ==
  ASSUME PaintInv, PaintInv', PictureInv, UNCHANGED vars, image_row \/ image_return
  PROVE  PictureInv'
<1>1. /\ drawing = "image" /\ rect' = rect /\ back_buffer' = back_buffer /\ texts' = texts
      /\ drawing' \in {"image", "painted"}
  BY DEF image_row, image_return
<1>2. /\ x \in Nat /\ y \in Nat /\ x' \in Int /\ y' \in Int /\ Ready /\ pc = "return"
      /\ rect \in Rects /\ Painting /\ IInv
  BY <1>1 DEF PaintInv, Painting, Loops, Ready
<1>3. \A q : ImageAt(q)' = ImageAt(q) /\ InRect(q)' = InRect(q)
  BY <1>1, ImageStays, RectStays
<1>4. ASSUME NEW q \in Places PROVE Pending(q)' = Pending(q)
  <2>1. Pending(q) <=> InRect(q) /\ rect.alpha # 0
    BY <1>1, <1>2, PendingIs
  <2>2. Pending(q)' <=> InRect(q)' /\ rect'.alpha # 0
    BY <1>1, <1>2, PendingWillBe
  <2> QED  BY <1>1, <1>3, <2>1, <2>2, Zenon DEF Pending
<1>5. /\ header.width = image.desc.width /\ header.height = image.desc.height
      /\ image.desc.width \in Nat /\ image.desc.height \in Nat
  BY <1>2, Unpacked
<1>6. ASSUME NEW q \in Places PROVE Ground(q)' = Ground(q)
  <2>1. PICK a, b \in Nat : a = q[1] /\ b = q[2] /\ a < FB_WIDTH
    BY PlaceFacts
  <2>2. a >= image.desc.width \/ b >= image.desc.height => ImageAt(q) = Black
    BY <2>1 DEF ImageAt
  <2>3. CASE image_row
    <3>1. /\ x >= draw_width /\ x' = 0 /\ y' = y + 1 /\ drawing' = "image"
      BY <1>1, <2>3 DEF image_row
    <3>2. Reached(q)' <=> b < y + 1
      BY <1>2, <2>1, <3>1 DEF Reached
    <3>3. Reached(q) <=> b < y \/ (b = y /\ a < x)
      BY <2>1 DEF Reached
    <3>4. a < x \/ a >= image.desc.width
      BY <1>2, <1>5, <2>1, <3>1, ScreenSize DEF draw_width, Smaller
    <3>5. (Reached(q)' <=> Reached(q)) \/ ImageAt(q) = Black
      BY <1>2, <2>1, <2>2, <3>2, <3>3, <3>4
    <3>6. Reached(q) => Reached(q)'
      BY <1>2, <2>1, <3>2, <3>3
    <3> QED  BY <1>1, <1>3, <3>1, <3>5, <3>6 DEF Ground
  <2>4. CASE image_return
    <3>1. y >= header.height /\ drawing' = "painted"
      BY <2>4 DEF image_return
    <3>2. Reached(q) \/ ImageAt(q) = Black
      BY <1>2, <1>5, <2>1, <2>2, <3>1 DEF Reached
    <3> QED  BY <1>1, <1>3, <3>1, <3>2 DEF Ground
  <2> QED  BY <2>3, <2>4
<1>7. Seen' /\ Fates'
  BY <1>1, <1>2, <1>4, <1>6, NothingPainted DEF PictureInv
<1> QED  BY <1>1, <1>7 DEF PictureInv, Blank, Read, Finished

LEMMA RectGoesOn ==
  ASSUME PaintInv, PaintInv', PictureInv, UNCHANGED vars, fill_rect \/ rect_row \/ rect_return
  PROVE  PictureInv'
<1>1. /\ drawing \in {"painted", "rect"} /\ drawing' \in {"rect", "done"} /\ rect' = rect
      /\ back_buffer' = back_buffer /\ texts' = texts
  BY DEF fill_rect, rect_row, rect_return
<1>2. /\ x \in Int /\ y \in Int /\ x' \in Int /\ y' \in Int /\ rect \in Rects /\ Painting
  BY <1>1 DEF PaintInv, Painting, Loops, Ready
<1>3. /\ start_x \in Nat /\ start_y \in Nat /\ end_x \in Int /\ end_y \in Int
  BY <1>2, Edges
<1>4. \A q : ImageAt(q)' = ImageAt(q) /\ InRect(q)' = InRect(q)
  BY <1>1, ImageStays, RectStays
<1>5. ASSUME NEW q \in Places PROVE Pending(q)' = Pending(q)
  <2>1. PICK a, b \in Nat : a = q[1] /\ b = q[2]
    BY PlaceFacts
  <2>2. InRect(q) <=> start_x <= a /\ a < end_x /\ start_y <= b /\ b < end_y
    BY <2>1 DEF InRect
  <2>3. Pending(q)' <=> Pending(q)
    <3>1. CASE fill_rect
      <4>1. drawing = "painted" /\ x' = start_x /\ y' = start_y
             /\ drawing' = IF rect.alpha = 0 THEN "done" ELSE "rect"
        BY <3>1 DEF fill_rect
      <4>2. Pending(q) <=> InRect(q) /\ rect.alpha # 0
        BY <1>2, <4>1, PendingIs
      <4>3. CASE rect.alpha = 0
        BY <1>2, <4>1, <4>2, <4>3, PendingWillBe
      <4>4. CASE rect.alpha # 0
        <5>1. Pending(q)' <=> InRect(q) /\ rect.alpha # 0 /\ From(q, start_x, start_y)
          BY <1>1, <1>2, <1>4, <4>1, <4>4, PendingWillBe
        <5>2. InRect(q) => From(q, start_x, start_y)
          BY <1>3, <2>1, <2>2 DEF From
        <5> QED  BY <4>2, <5>1, <5>2
      <4> QED  BY <4>3, <4>4
    <3>2. CASE rect_row
      <4>1. drawing = "rect" /\ drawing' = "rect" /\ x >= end_x /\ x' = start_x /\ y' = y + 1
        BY <3>2 DEF rect_row
      <4>2. Pending(q) <=> InRect(q) /\ rect.alpha # 0 /\ From(q, x, y)
        BY <1>2, <4>1, PendingIs
      <4>3. Pending(q)' <=> InRect(q) /\ rect.alpha # 0 /\ From(q, start_x, y + 1)
        BY <1>1, <1>2, <1>4, <4>1, PendingWillBe
      <4>4. InRect(q) => (From(q, x, y) <=> From(q, start_x, y + 1))
        BY <1>2, <1>3, <2>1, <2>2, <4>1 DEF From
      <4> QED  BY <4>2, <4>3, <4>4
    <3>3. CASE rect_return
      <4>1. drawing = "rect" /\ drawing' = "done" /\ y >= end_y
        BY <3>3 DEF rect_return
      <4>2. Pending(q) <=> InRect(q) /\ rect.alpha # 0 /\ From(q, x, y)
        BY <1>2, <4>1, PendingIs
      <4>3. InRect(q) => ~From(q, x, y)
        BY <1>2, <1>3, <2>1, <2>2, <4>1 DEF From
      <4>4. ~Pending(q)'
        BY <1>2, <4>1, PendingWillBe
      <4> QED  BY <4>2, <4>3, <4>4
    <3> QED  BY <3>1, <3>2, <3>3
  <2> QED  BY <2>3, Zenon DEF Pending
<1>6. ASSUME NEW q \in Places PROVE Ground(q)' = Ground(q)
  BY <1>1, <1>4 DEF Ground
<1>7. Seen' /\ Fates'
  BY <1>1, <1>2, <1>5, <1>6, NothingPainted DEF PictureInv
<1>8. Finished'
  <2>1. end_y' = end_y
    BY <1>1 DEF end_y
  <2> QED  BY <1>1, <2>1 DEF Finished, fill_rect, rect_row, rect_return
<1> QED  BY <1>1, <1>7, <1>8 DEF PictureInv, Blank, Read
(* fill_rect at a place of its rectangle. *)
LEMMA AtPlace ==
  ASSUME PaintInv, drawing \in {"rect", "blend"}, y < end_y, x < end_x
  PROVE  /\ x \in 0 .. FB_WIDTH - 1 /\ y \in 0 .. FB_HEIGHT - 1
         /\ <<x, y>> \in Places /\ Spot(<<x, y>>) = Index(x, y)
         /\ InRect(<<x, y>>) /\ Pending(<<x, y>>) /\ rect.alpha # 0
         /\ rect \in Rects /\ rect.color \in Pixel /\ rect.alpha \in Byte
         /\ back_buffer \in Frames /\ bg_color \in Pixel /\ DOMAIN texts \subseteq Places
<1>1. /\ start_x <= x /\ start_y <= y /\ rect.alpha # 0 /\ rect \in Rects
      /\ x \in Int /\ y \in Int
      /\ back_buffer \in Frames /\ bg_color \in Pixel /\ DOMAIN texts \subseteq Places
  BY DEF PaintInv, Painting, Loops, Ready
<1>2. x \in 0 .. FB_WIDTH - 1 /\ y \in 0 .. FB_HEIGHT - 1
  BY PlaceInRect
<1>3. PICK q \in Places : q = <<x, y>> /\ q[1] = x /\ q[2] = y /\ Spot(q) = Index(x, y)
  BY <1>2, PlaceMade
<1>4. InRect(q)
  BY <1>1, <1>3 DEF InRect
<1>5. From(q, x, y)
  BY <1>1, <1>3 DEF From
<1>6. Pending(q)
  BY <1>1, <1>4, <1>5, PendingIs
<1> QED  BY <1>1, <1>2, <1>3, <1>4, <1>6, Edges

(* What is behind it and what is not, when it has painted one more. *)
LEMMA OneFurther ==
  ASSUME PaintInv, PaintInv', UNCHANGED vars, rect' = rect,
         drawing \in {"rect", "blend"}, drawing' = "rect", y < end_y, x < end_x,
         x' = x + 1, y' = y, NEW r \in Places, r = <<x, y>>
  PROVE  /\ ~Pending(r)'
         /\ \A q \in Places : /\ q # r => Pending(q)' = Pending(q)
                              /\ Ground(q)' = Ground(q)
<1>1. x \in Int /\ y \in Int /\ x' \in Int /\ y' \in Int
  BY DEF PaintInv, Painting
<1>2. \A q : ImageAt(q)' = ImageAt(q) /\ InRect(q)' = InRect(q)
  BY ImageStays, RectStays
<1>3. r[1] = x /\ r[2] = y
  OBVIOUS
<1>4. ASSUME NEW q \in Places
      PROVE  /\ Pending(q) <=> InRect(q) /\ rect.alpha # 0 /\ From(q, x, y)
             /\ Pending(q)' <=> InRect(q) /\ rect.alpha # 0 /\ From(q, x + 1, y)
  BY <1>1, <1>2, PendingIs, PendingWillBe
<1>5. ~Pending(r)'
  <2>1. ~From(r, x + 1, y)
    BY <1>1, <1>3 DEF From
  <2> QED  BY <1>4, <2>1
<1>6. ASSUME NEW q \in Places, q # r PROVE Pending(q)' = Pending(q)
  <2>1. From(q, x + 1, y) <=> From(q, x, y)
    <3>1. PICK a, b \in Nat : a = q[1] /\ b = q[2] /\ q = <<a, b>>
      BY PlaceFacts
    <3>2. ~(a = x /\ b = y)
      BY <1>3, <1>6, <3>1
    <3> QED  BY <1>1, <3>1, <3>2 DEF From
  <2>2. Pending(q)' <=> Pending(q)
    BY <1>4, <2>1
  <2> QED  BY <2>2, Zenon DEF Pending
<1>7. ASSUME NEW q \in Places PROVE Ground(q)' = Ground(q)
  BY <1>2 DEF Ground
<1> QED  BY <1>3, <1>5, <1>6, <1>7

LEMMA SolidShows ==
  ASSUME PaintInv, PaintInv', PictureInv, UNCHANGED vars, rect_solid
  PROVE  PictureInv'
<1>1. /\ drawing = "rect" /\ drawing' = "rect" /\ y < end_y /\ x < end_x /\ rect.alpha = 255
      /\ put_pixel(x, y, rect.color)
      /\ texts' = [q \in DOMAIN texts \ {<<x, y>>} |-> texts[q]]
      /\ x' = x + 1 /\ rect' = rect /\ y' = y
  BY DEF rect_solid
<1>2. /\ x \in 0 .. FB_WIDTH - 1 /\ y \in 0 .. FB_HEIGHT - 1
      /\ <<x, y>> \in Places /\ InRect(<<x, y>>)
      /\ rect \in Rects /\ rect.color \in Pixel
      /\ back_buffer \in Frames /\ DOMAIN texts \subseteq Places
  BY <1>1, AtPlace
<1>3. PICK q0 \in Places : q0 = <<x, y>> /\ InRect(q0)
  BY <1>2
<1>4. /\ back_buffer'[Spot(q0)] = rect.color
      /\ \A q \in Places : q # q0 => back_buffer'[Spot(q)] = back_buffer[Spot(q)]
  BY <1>1, <1>2, <1>3, PutPlace
<1>5. /\ ~Pending(q0)'
      /\ \A q \in Places : /\ q # q0 => Pending(q)' = Pending(q)
                           /\ Ground(q)' = Ground(q)
  BY <1>1, <1>3, OneFurther
<1>6. back_buffer'[Spot(q0)] = SoFar(q0)'
  <2>1. Shade(q0, Ground(q0))' = rect.color
    <3>1. Shade(q0, Ground(q0))' = Shade(q0, Ground(q0))
      BY <1>1, <1>5, RectStays
    <3>2. Shade(q0, Ground(q0)) = Layer(rect.color, rect.alpha, Ground(q0))
      BY <1>2, <1>3, ShadeIs
    <3>3. 255 # 0
      OBVIOUS
    <3> QED  BY <1>1, <3>1, <3>2, <3>3 DEF Layer
  <2>2. q0 \notin DOMAIN texts'
    BY <1>1, <1>3
  <2> QED  BY <1>4, <1>5, <2>1, <2>2 DEF SoFar, Laid
<1>7. ASSUME NEW q \in Places, q # q0 PROVE back_buffer'[Spot(q)] = SoFar(q)'
  <2>1. /\ q \in DOMAIN texts' <=> q \in DOMAIN texts
        /\ q \in DOMAIN texts => texts'[q] = texts[q]
    BY <1>1, <1>3, <1>7
  <2>2. SoFar(q)' = SoFar(q)
    BY <1>1, <1>5, <1>7, <2>1, SameSoFar
  <2> QED  BY <1>1, <1>4, <1>7, <2>2 DEF PictureInv, Seen
<1>8. Seen'
  BY <1>6, <1>7 DEF Seen, Spot, Index
<1>9. Fates'
  <2> SUFFICES ASSUME NEW q \in DOMAIN texts'
               PROVE  /\ texts'[q][1] \in {"under", "over", "lost"}
                      /\ texts'[q][2] \in Byte \ {0}
                      /\ texts'[q][1] = "over" => ~Pending(q)'
                      /\ ~(texts'[q][1] = "lost" /\ Pending(q)')
    BY DEF Fates
  <2>1. q \in DOMAIN texts /\ texts'[q] = texts[q] /\ q \in Places /\ q # q0
    BY <1>1, <1>2, <1>3
  <2> QED  BY <1>1, <1>5, <2>1 DEF PictureInv, Fates
<1> QED  BY <1>1, <1>8, <1>9 DEF PictureInv, Blank, Read, Finished

LEMMA ReadShows ==
  ASSUME PaintInv, PaintInv', PictureInv, UNCHANGED vars, rect_read
  PROVE  PictureInv'
<1>1. /\ drawing = "rect" /\ y < end_y /\ x < end_x /\ bg_color' = get_pixel(x, y)
      /\ drawing' = "blend" /\ UNCHANGED <<back_buffer, rect, x, y, texts>>
  BY DEF rect_read
<1>2. /\ x \in 0 .. FB_WIDTH - 1 /\ y \in 0 .. FB_HEIGHT - 1 /\ back_buffer \in Frames
      /\ Pending(<<x, y>>) /\ DOMAIN texts \subseteq Places
      /\ x \in Int /\ y \in Int /\ x' \in Int /\ y' \in Int /\ Painting
  BY <1>1, AtPlace DEF PaintInv, Painting
<1>3. \A q : ImageAt(q)' = ImageAt(q) /\ InRect(q)' = InRect(q)
  BY <1>1, ImageStays, RectStays
<1>4. ASSUME NEW q \in Places PROVE Pending(q)' = Pending(q) /\ Ground(q)' = Ground(q)
  <2>1. Pending(q) <=> InRect(q) /\ rect.alpha # 0 /\ From(q, x, y)
    BY <1>1, <1>2, PendingIs
  <2>2. Pending(q)' <=> InRect(q) /\ rect.alpha # 0 /\ From(q, x, y)
    BY <1>1, <1>2, <1>3, PendingWillBe
  <2>3. Pending(q)' = Pending(q)
    BY <2>1, <2>2, Zenon DEF Pending
  <2>4. Ground(q)' = Ground(q)
    BY <1>1, <1>3 DEF Ground
  <2> QED  BY <2>3, <2>4
<1>5. Seen' /\ Fates'
  BY <1>1, <1>2, <1>4, NothingPainted DEF PictureInv
<1>6. Read'
  <2>1. ~Lost(<<x, y>>)
    BY <1>1, <1>2 DEF PictureInv, Fates, Lost
  <2>2. ~Lost(<<x, y>>)'
    BY <1>1, <2>1 DEF Lost
  <2>3. bg_color' = back_buffer'[Index(x, y)']
    <3>1. Index(x, y)' = Index(x, y)
      BY <1>1 DEF Index
    <3> QED  BY <1>1, <1>2, <3>1, GetPixel
  <2> QED  BY <2>2, <2>3 DEF Read
<1> QED  BY <1>1, <1>5, <1>6 DEF PictureInv, Blank, Finished

LEMMA BlendShows ==
  ASSUME PaintInv, PaintInv', PictureInv, UNCHANGED vars, rect_blend
  PROVE  PictureInv'
<1>1. /\ drawing = "blend" /\ drawing' = "rect"
      /\ put_pixel(x, y, Overlay(rect.color, rect.alpha, bg_color))
      /\ x' = x + 1 /\ UNCHANGED <<rect, y, texts>>
  BY DEF rect_blend
<1>2. y < end_y /\ x < end_x /\ rect.alpha # 255
  BY <1>1 DEF PaintInv, Loops
<1>3. /\ x \in 0 .. FB_WIDTH - 1 /\ y \in 0 .. FB_HEIGHT - 1
      /\ <<x, y>> \in Places /\ Spot(<<x, y>>) = Index(x, y)
      /\ InRect(<<x, y>>) /\ Pending(<<x, y>>) /\ rect.alpha # 0
      /\ rect \in Rects /\ rect.color \in Pixel /\ rect.alpha \in Byte
      /\ back_buffer \in Frames /\ bg_color \in Pixel /\ DOMAIN texts \subseteq Places
  BY <1>1, <1>2, AtPlace
<1>4. PICK q0 \in Places : /\ q0 = <<x, y>> /\ InRect(q0) /\ Pending(q0)
                           /\ Spot(q0) = Index(x, y)
  BY <1>3
<1>5. /\ Overlay(rect.color, rect.alpha, bg_color) \in Pixel
      /\ Overlay(rect.color, rect.alpha, bg_color) = Shade(q0, bg_color)
  BY <1>2, <1>3, <1>4, OverlayIsPixel, LayerIsOverlay, ShadeIs
<1>6. /\ back_buffer'[Spot(q0)] = Shade(q0, bg_color)
      /\ \A q \in Places : q # q0 => back_buffer'[Spot(q)] = back_buffer[Spot(q)]
  BY <1>1, <1>3, <1>4, <1>5, PutPlace
<1>7. /\ ~Pending(q0)'
      /\ \A q \in Places : /\ q # q0 => Pending(q)' = Pending(q)
                           /\ Ground(q)' = Ground(q)
  BY <1>1, <1>2, <1>4, OneFurther
<1>8. \A q, below : Shade(q, below)' = Shade(q, below)
  BY <1>1, RectStays
<1>9. back_buffer[Spot(q0)] = SoFar(q0)
  BY <1>1 DEF PictureInv, Seen
<1>10. bg_color = IF Lost(q0) THEN Ground(q0) ELSE back_buffer[Spot(q0)]
  BY <1>1, <1>4 DEF PictureInv, Read
<1>11. back_buffer'[Spot(q0)] = SoFar(q0)'
  <2>1. CASE q0 \notin DOMAIN texts
    <3>1. bg_color = Ground(q0)
      BY <1>4, <1>9, <1>10, <2>1 DEF Lost, SoFar, Laid
    <3>2. SoFar(q0)' = Shade(q0, Ground(q0))
      BY <1>1, <1>4, <1>7, <1>8, <2>1 DEF SoFar, Laid
    <3> QED  BY <1>6, <3>1, <3>2
  <2>2. CASE q0 \in DOMAIN texts
    <3>1. PICK fate, alpha : /\ fate = texts[q0][1] /\ alpha = texts[q0][2]
                             /\ fate \in {"under", "lost"}
      BY <1>4, <2>2 DEF PictureInv, Fates
    <3>2. SoFar(q0) = Inked(q0, fate, alpha) /\ SoFar(q0)' = Inked(q0, fate, alpha)'
      BY <1>1, <2>2, <3>1 DEF SoFar, Inked, Laid
    <3>3. Shade(q0, Ground(q0))' = Shade(q0, Ground(q0))
      BY <1>7, <1>8
    <3>4. PICK under : under = Layer(TextColor, alpha, Ground(q0))
      OBVIOUS
    <3>5. under = Layer(TextColor, alpha, Ground(q0))'
      BY <1>1, <1>7, <3>4 DEF Layer
    <3>6. CASE fate = "under"
      <4>1. bg_color = under
        <5>1. ~Lost(q0)
          BY <3>1, <3>6 DEF Lost
        <5>2. SoFar(q0) = under
          BY <1>4, <3>4, <3>6, <3>2 DEF Inked, Laid
        <5> QED  BY <1>9, <1>10, <5>1, <5>2
      <4>2. SoFar(q0)' = Shade(q0, under)
        <5>1. Inked(q0, "under", alpha)'
                = Laid(q0, Layer(TextColor, alpha, Ground(q0)))'
          BY DEF Inked
        <5>2. Laid(q0, under)' = Shade(q0, under)
          BY <1>7, <1>8 DEF Laid
        <5>3. Laid(q0, Layer(TextColor, alpha, Ground(q0)))' = Laid(q0, under)'
          BY <3>5 DEF Laid, Shade
        <5> QED  BY <3>6, <3>2, <5>1, <5>2, <5>3
      <4> QED  BY <1>6, <4>1, <4>2
    <3>7. CASE fate = "lost"
      <4>1. bg_color = Ground(q0)
        BY <1>10, <2>2, <3>1, <3>7 DEF Lost
      <4>2. SoFar(q0)' = Shade(q0, Ground(q0))
        <5>1. Inked(q0, "lost", alpha)' = Shade(q0, Ground(q0))'
          BY <1>7 DEF Inked
        <5> QED  BY <3>3, <3>7, <3>2, <5>1
      <4> QED  BY <1>6, <4>1, <4>2
    <3> QED  BY <3>1, <3>6, <3>7
  <2> QED  BY <2>1, <2>2
<1>12. ASSUME NEW q \in Places, q # q0 PROVE back_buffer'[Spot(q)] = SoFar(q)'
  <2>1. SoFar(q)' = SoFar(q)
    BY <1>1, <1>7, <1>12, SameSoFar
  <2> QED  BY <1>1, <1>6, <1>12, <2>1 DEF PictureInv, Seen
<1>13. Seen'
  BY <1>11, <1>12 DEF Seen, Spot, Index
<1>14. Fates'
  <2> SUFFICES ASSUME NEW q \in DOMAIN texts
               PROVE  /\ texts[q][1] \in {"under", "over", "lost"}
                      /\ texts[q][2] \in Byte \ {0}
                      /\ texts[q][1] = "over" => ~Pending(q)'
                      /\ ~(texts[q][1] = "lost" /\ Pending(q)')
    BY <1>1 DEF Fates
  <2>1. q \in Places
    BY <1>3
  <2>2. Pending(q)' => q # q0 /\ Pending(q)
    BY <1>7, <2>1
  <2> QED  BY <1>4, <2>1, <2>2 DEF PictureInv, Fates
<1> QED  BY <1>1, <1>13, <1>14 DEF PictureInv, Blank, Read, Finished
(* Text printed over a place is under what pends there, or over what is finished. *)
LEMMA FateIs ==
  ASSUME PaintInv, Finished, drawing # "no", NEW q \in Places
  PROVE  /\ Fate(q) \in {"under", "over", "lost"}
         /\ Fate(q) = "over" <=> ~Pending(q)
         /\ Fate(q) = "lost" => drawing = "blend" /\ q = <<x, y>>
         /\ drawing = "blend" /\ q = <<x, y>> /\ Pending(q) => Fate(q) = "lost"
<1>1. Fate(q) \in {"under", "over", "lost"}
  BY DEF Fate
<1>2. Fate(q) = "lost" => drawing = "blend" /\ q = <<x, y>>
  BY DEF Fate
<1>3. drawing = "blend" /\ q = <<x, y>> /\ Pending(q) => Fate(q) = "lost"
  BY DEF Fate, Pending
<1>4. InRect(q) /\ rect.alpha # 0 /\ drawing = "done" => ~Ahead(q)
  <2>1. PICK a, b \in Nat : a = q[1] /\ b = q[2]
    BY PlaceFacts
  <2>2. y \in Int /\ end_y \in Int
    BY Edges DEF PaintInv, Painting, Loops, Ready
  <2>3. InRect(q) => b < end_y
    BY <2>1 DEF InRect
  <2>4. Ahead(q) /\ drawing = "done" => b >= y
    BY <2>1, <2>2 DEF Ahead
  <2>5. drawing = "done" /\ rect.alpha # 0 => y >= end_y
    BY DEF Finished
  <2>6. b < end_y /\ y >= end_y => ~(b >= y)
    BY <2>1, <2>2
  <2> QED  BY <2>3, <2>4, <2>5, <2>6
<1>5. Fate(q) = "over" <=> ~Pending(q)
  BY <1>4, Zenon DEF Fate, Pending
<1> QED  BY <1>1, <1>2, <1>3, <1>5

LEMMA TextShows ==
  ASSUME PaintInv, PaintInv', PictureInv, UNCHANGED vars, NEW g \in Glyphs, draw_font_char(g)
  PROVE  PictureInv'
<1> DEFINE drawn == {q \in DOMAIN g : g[q] # 0}
<1>1. /\ drawing # "no" /\ DOMAIN texts = {}
      /\ UNCHANGED <<rect, drawing, x, y, bg_color>>
      /\ texts' = [q \in drawn |-> <<Fate(q), g[q]>>]
      /\ back_buffer' = [k \in DOMAIN back_buffer |->
                          LET q == <<k % FB_WIDTH, k \div FB_WIDTH>>
                          IN IF q \in drawn THEN Solidly(g[q], back_buffer[k])
                             ELSE back_buffer[k]]
  BY DEF draw_font_char
<1>2. back_buffer \in Frames /\ DOMAIN back_buffer = Buffer
  BY DEF PaintInv, Painting, Frames
<1>3. \A q \in drawn : q \in Places /\ g[q] \in Byte /\ g[q] # 0
  BY PaintAssumption
<1>4. ASSUME NEW q \in Places
      PROVE  /\ q \in drawn => back_buffer'[Spot(q)] = Layer(TextColor, g[q], back_buffer[Spot(q)])
             /\ q \notin drawn => back_buffer'[Spot(q)] = back_buffer[Spot(q)]
  <2>1. PICK k \in Buffer : k = Spot(q) /\ <<k % FB_WIDTH, k \div FB_WIDTH>> = q
    BY PlaceFacts
  <2>2. back_buffer'[k] = IF q \in drawn THEN Solidly(g[q], back_buffer[k]) ELSE back_buffer[k]
    BY <1>1, <1>2, <2>1
  <2>3. back_buffer[k] \in Pixel
    BY <1>2 DEF Frames
  <2>4. q \in drawn => Solidly(g[q], back_buffer[k]) = Layer(TextColor, g[q], back_buffer[k])
    BY <1>3, <2>3, SolidlyIsLayer
  <2> QED  BY <2>1, <2>2, <2>4
<1> HIDE DEF drawn
<1>5. \A q : ImageAt(q)' = ImageAt(q) /\ InRect(q)' = InRect(q)
  BY <1>1, ImageStays, RectStays
<1>6. \A q, below : Shade(q, below)' = Shade(q, below)
  BY <1>1, RectStays
<1>7. \A q : Pending(q)' = Pending(q) /\ Ground(q)' = Ground(q)
  <2> TAKE q
  <2>1. Ahead(q)' <=> Ahead(q)
    BY <1>1 DEF Ahead
  <2>2. Pending(q)' = Pending(q)
    BY <1>1, <1>5, <2>1, Zenon DEF Pending
  <2>3. Ground(q)' = Ground(q)
    BY <1>1, <1>5 DEF Ground, Reached
  <2> QED  BY <2>2, <2>3
<1>8. \A q \in Places : back_buffer[Spot(q)] = Laid(q, Ground(q))
  BY <1>1 DEF PictureInv, Seen, SoFar
<1>9. ASSUME NEW q \in Places
      PROVE  /\ Fate(q) \in {"under", "over", "lost"}
             /\ Fate(q) = "over" <=> ~Pending(q)
             /\ Fate(q) = "lost" => drawing = "blend" /\ q = <<x, y>>
             /\ drawing = "blend" /\ q = <<x, y>> /\ Pending(q) => Fate(q) = "lost"
  BY <1>1, FateIs DEF PictureInv
<1>10. ASSUME NEW q \in Places, q \in drawn PROVE back_buffer'[Spot(q)] = SoFar(q)'
  <2>1. PICK fate, alpha : /\ fate = Fate(q) /\ alpha = g[q]
                           /\ fate \in {"under", "over", "lost"}
    BY <1>9
  <2>2. SoFar(q)' = Inked(q, fate, alpha)'
    BY <1>1, <1>10, <2>1 DEF SoFar
  <2>3. PICK over : over = Layer(TextColor, alpha, Laid(q, Ground(q)))
    OBVIOUS
  <2>4. back_buffer'[Spot(q)] = over
    BY <1>4, <1>8, <1>10, <2>1, <2>3
  <2>5. Laid(q, Ground(q))' = Laid(q, Ground(q))
    BY <1>6, <1>7 DEF Laid
  <2>6. Layer(TextColor, alpha, Laid(q, Ground(q)))' = over
    BY <2>3, <2>5 DEF Layer
  <2>7. Layer(TextColor, alpha, Ground(q))' = Layer(TextColor, alpha, Ground(q))
    BY <1>7 DEF Layer
  <2>8. CASE fate = "over"
    <3>1. Inked(q, "over", alpha)' = Layer(TextColor, alpha, Laid(q, Ground(q)))'
      BY DEF Inked
    <3> QED  BY <2>2, <2>4, <2>6, <2>8, <3>1
  <2>9. CASE fate # "over"
    <3>1. Pending(q) /\ Pending(q)'
      BY <1>7, <1>9, <2>1, <2>9
    <3>2. over = Layer(TextColor, alpha, Ground(q))'
      BY <2>3, <2>7, <3>1 DEF Laid
    <3>3. CASE fate = "under"
      <4>1. Inked(q, "under", alpha)' = Laid(q, Layer(TextColor, alpha, Ground(q)))'
        BY DEF Inked
      <4>2. Laid(q, Layer(TextColor, alpha, Ground(q)))' = Layer(TextColor, alpha, Ground(q))'
        BY <3>1 DEF Laid
      <4> QED  BY <2>2, <2>4, <3>2, <3>3, <4>1, <4>2
    <3>4. CASE fate = "lost"
      <4>1. Inked(q, "lost", alpha)' = Layer(TextColor, alpha, Ground(q))'
        BY <3>1 DEF Inked
      <4> QED  BY <2>2, <2>4, <3>2, <3>4, <4>1
    <3> QED  BY <2>1, <2>9, <3>3, <3>4
  <2> QED  BY <2>8, <2>9
<1>11. ASSUME NEW q \in Places, q \notin drawn PROVE back_buffer'[Spot(q)] = SoFar(q)'
  <2>1. SoFar(q)' = Laid(q, Ground(q))'
    BY <1>1, <1>11 DEF SoFar
  <2>2. Laid(q, Ground(q))' = Laid(q, Ground(q))
    BY <1>6, <1>7 DEF Laid
  <2> QED  BY <1>4, <1>8, <1>11, <2>1, <2>2
<1>12. Seen'
  BY <1>10, <1>11 DEF Seen, Spot, Index
<1>13. Fates'
  <2> SUFFICES ASSUME NEW q \in drawn
               PROVE  /\ Fate(q) \in {"under", "over", "lost"} /\ g[q] \in Byte \ {0}
                      /\ Fate(q) = "over" => ~Pending(q)'
                      /\ Fate(q) = "lost" /\ Pending(q)' => drawing = "blend" /\ q = <<x, y>>
    BY <1>1 DEF Fates
  <2> QED  BY <1>3, <1>7, <1>9
<1>14. Read'
  <2> SUFFICES ASSUME drawing = "blend"
               PROVE  bg_color = IF Lost(<<x, y>>)' THEN Ground(<<x, y>>)'
                                 ELSE back_buffer'[Index(x, y)]
    BY <1>1 DEF Read, Index
  <2>1. y < end_y /\ x < end_x
    BY DEF PaintInv, Loops
  <2>2. PICK q0 \in Places : q0 = <<x, y>> /\ Pending(q0) /\ Spot(q0) = Index(x, y)
    BY <2>1, AtPlace
  <2>3. bg_color = Ground(q0) /\ bg_color = back_buffer[Spot(q0)]
    <3>1. ~Lost(q0)
      BY <1>1 DEF Lost
    <3>2. bg_color = back_buffer[Spot(q0)]
      BY <2>2, <3>1 DEF PictureInv, Read
    <3> QED  BY <1>8, <2>2, <3>2 DEF Laid
  <2>4. Fate(q0) = "lost"
    BY <1>9, <2>2
  <2>5. Lost(<<x, y>>)' <=> q0 \in drawn
    BY <1>1, <2>2, <2>4 DEF Lost
  <2>6. Ground(<<x, y>>)' = Ground(q0)
    BY <1>1, <1>7, <2>2 DEF Ground, Reached, ImageAt
  <2> QED  BY <1>4, <2>2, <2>3, <2>5, <2>6
<1>15. Finished'
  <2>1. end_y' = end_y
    BY <1>1 DEF end_y
  <2> QED  BY <1>1, <2>1 DEF PictureInv, Finished
<1> QED  BY <1>1, <1>12, <1>13, <1>14, <1>15 DEF PictureInv, Blank

LEMMA PictureStarts == PaintInit => PictureInv
<1> SUFFICES ASSUME PaintInit PROVE PictureInv
  OBVIOUS
<1>1. /\ back_buffer = [k \in Buffer |-> Black] /\ drawing = "no" /\ x = 0 /\ y = 0
      /\ DOMAIN texts = {}
  BY DEF PaintInit, Buffer
<1>2. \A q \in Places : back_buffer[Spot(q)] = Black
  BY <1>1, PlaceFacts
<1> QED  BY <1>1, <1>2 DEF PictureInv, Blank, Seen, Fates, Read, Finished

LEMMA PictureStutters ==
  ASSUME PaintInv, PictureInv, UNCHANGED screen, drawing = "no" \/ UNCHANGED vars
  PROVE  PictureInv'
<1>1. UNCHANGED <<back_buffer, rect, drawing, x, y, bg_color, texts>>
  BY DEF screen
<1>2. Blank'
  BY <1>1 DEF PictureInv, Blank, Spot, Index
<1>3. CASE drawing = "no"
  <2>1. DOMAIN texts' = {} /\ drawing' = "no"
    BY <1>1, <1>3 DEF PictureInv, Blank
  <2> QED  BY <1>2, <2>1 DEF PictureInv, Seen, Fates, Read, Finished
<1>4. CASE drawing # "no" /\ UNCHANGED vars
  <2>1. \A q : ImageAt(q)' = ImageAt(q) /\ InRect(q)' = InRect(q)
    BY <1>1, <1>4, ImageStays, RectStays
  <2>2. \A q : Pending(q)' = Pending(q) /\ Ground(q)' = Ground(q)
    <3> TAKE q
    <3>1. Ahead(q)' <=> Ahead(q)
      BY <1>1 DEF Ahead
    <3>2. Pending(q)' = Pending(q)
      BY <1>1, <2>1, <3>1, Zenon DEF Pending
    <3>3. Ground(q)' = Ground(q)
      BY <1>1, <2>1 DEF Ground, Reached
    <3> QED  BY <3>2, <3>3
  <2>3. ASSUME NEW q \in Places PROVE back_buffer'[Spot(q)] = SoFar(q)'
    <3>1. SoFar(q)' = SoFar(q)
      BY <1>1, <2>2, SameSoFar
    <3> QED  BY <1>1, <1>4, <3>1 DEF PictureInv, Seen
  <2>4. Seen'
    BY <2>3 DEF Seen, Spot, Index
  <2>5. Fates'
    BY <1>1, <2>2 DEF PictureInv, Fates
  <2>6. Read'
    <3>1. /\ Lost(<<x, y>>)' <=> Lost(<<x, y>>)
          /\ Ground(<<x, y>>)' = Ground(<<x, y>>)
      BY <1>1, <2>1 DEF Lost, Ground, Reached, ImageAt
    <3>2. Index(x, y)' = Index(x, y)
      BY <1>1 DEF Index
    <3> QED  BY <1>1, <3>1, <3>2 DEF PictureInv, Read
  <2>7. Finished'
    <3>1. end_y' = end_y
      BY <1>1 DEF end_y
    <3> QED  BY <1>1, <3>1 DEF PictureInv, Finished
  <2> QED  BY <1>2, <2>4, <2>5, <2>6, <2>7 DEF PictureInv
<1> QED  BY <1>3, <1>4

LEMMA PictureKept == PaintInv /\ PictureInv /\ [PaintNext]_paint_vars => PictureInv'
<1> SUFFICES ASSUME PaintInv, PictureInv, [PaintNext]_paint_vars PROVE PictureInv'
  OBVIOUS
<1>1. PaintInv'
  BY PaintKept
<1>2. CASE Next /\ UNCHANGED screen
  <2>1. drawing # "no" => UNCHANGED vars
    BY <1>2, NothingMore DEF PaintInv, Loops, Ready
  <2> QED  BY <1>2, <2>1, PictureStutters
<1>3. CASE Paint /\ UNCHANGED vars
  <2>1. CASE display_qoi_image        BY <1>1, <1>3, <2>1, ImageStarts
  <2>2. CASE image_pixel              BY <1>1, <1>3, <2>2, ImagePixelShows
  <2>3. CASE image_row                BY <1>1, <1>3, <2>3, ImageRowShows
  <2>4. CASE image_return             BY <1>1, <1>3, <2>4, ImageRowShows
  <2>5. CASE fill_rect                BY <1>1, <1>3, <2>5, RectGoesOn
  <2>6. CASE rect_solid               BY <1>1, <1>3, <2>6, SolidShows
  <2>7. CASE rect_read                BY <1>1, <1>3, <2>7, ReadShows
  <2>8. CASE rect_blend               BY <1>1, <1>3, <2>8, BlendShows
  <2>9. CASE rect_row                 BY <1>1, <1>3, <2>9, RectGoesOn
  <2>10. CASE rect_return             BY <1>1, <1>3, <2>10, RectGoesOn
  <2>11. CASE \E g \in Glyphs : draw_font_char(g)
    BY <1>1, <1>3, <2>11, TextShows
  <2>12. CASE Done                    BY <1>3, <2>12, PictureStutters DEF Done
  <2> QED  BY <1>3, <2>1, <2>2, <2>3, <2>4, <2>5, <2>6, <2>7, <2>8, <2>9, <2>10, <2>11, <2>12 DEF Paint
<1>4. CASE UNCHANGED paint_vars
  BY <1>4, PictureStutters DEF paint_vars
<1> QED  BY <1>2, <1>3, <1>4 DEF PaintNext

-----------------------------------------------------------------------------
(* The invariants say what the runs check. *)
LEMMA InvPaintType == PaintInv => PaintTypeOK
<1> SUFFICES ASSUME PaintInv PROVE PaintTypeOK
  OBVIOUS
<1>1. TypeOK
  BY InvType DEF PaintInv
<1>2. back_buffer \in [DOMAIN back_buffer -> Pixel]
  BY DEF PaintInv, Painting, Frames
<1> QED  BY <1>1, <1>2 DEF PaintInv, Painting, Phases, PaintTypeOK

LEMMA InvBuffer == PaintInv => InsideBuffer
BY DEF PaintInv, Painting, Frames, Buffer, InsideBuffer

LEMMA InvPicture == PaintInv /\ PictureInv => PictureIsRight
<1> SUFFICES ASSUME PaintInv, PictureInv, drawing = "done", NEW q \in Places
             PROVE  back_buffer[Index(q[1], q[2])] = Picture(q)
  BY DEF PictureIsRight
<1>1. back_buffer[Index(q[1], q[2])] = SoFar(q)
  BY DEF PictureInv, Seen, Spot
<1>2. ~Pending(q) /\ Ground(q) = ImageAt(q)
  BY DEF Pending, Ground
<1>3. \A below : Laid(q, below) = Shade(q, below)
  BY <1>2 DEF Laid
<1>4. CASE q \notin DOMAIN texts
  BY <1>1, <1>2, <1>3, <1>4 DEF SoFar, Picture
<1>5. CASE q \in DOMAIN texts
  <2>1. PICK fate, alpha : /\ fate = texts[q][1] /\ alpha = texts[q][2]
                           /\ fate \in {"under", "over", "lost"}
    BY <1>5 DEF PictureInv, Fates
  <2>2. SoFar(q) = Inked(q, fate, alpha)
    BY <1>5, <2>1 DEF SoFar
  <2>3. /\ fate = "under" => Inked(q, fate, alpha) = Shade(q, Layer(TextColor, alpha, ImageAt(q)))
        /\ fate = "over"  => Inked(q, fate, alpha) = Layer(TextColor, alpha, Shade(q, ImageAt(q)))
        /\ fate = "lost"  => Inked(q, fate, alpha) = Shade(q, ImageAt(q))
    BY <1>2, <1>3 DEF Inked
  <2>4. /\ fate = "under" => Picture(q) = Shade(q, Layer(TextColor, alpha, ImageAt(q)))
        /\ fate = "over"  => Picture(q) = Layer(TextColor, alpha, Shade(q, ImageAt(q)))
        /\ fate = "lost"  => Picture(q) = Shade(q, ImageAt(q))
    BY <1>5, <2>1 DEF Picture
  <2> QED  BY <1>1, <2>1, <2>2, <2>3, <2>4
<1> QED  BY <1>4, <1>5

-----------------------------------------------------------------------------
(***************************************************************************)
(* For every image, screen, rectangle and glyph, with a thread printing at *)
(* any moment: the variables keep their types, so no blend of two bytes is *)
(* more than a byte.                                                       *)
(***************************************************************************)
THEOREM PaintTyped == PaintSpec => []PaintTypeOK
<1>1. PaintInit => PaintInv
  BY PaintStarts
<1>2. PaintInv /\ [PaintNext]_paint_vars => PaintInv'
  BY PaintKept
<1>3. PaintInv => PaintTypeOK
  BY InvPaintType
<1> QED  BY <1>1, <1>2, <1>3, PTL DEF PaintSpec

(* Neither display_qoi_image nor fill_rect writes outside the back buffer,  *)
(* however wide the image and wherever the rectangle.                       *)
THEOREM PaintsInside == PaintSpec => []InsideBuffer
<1>1. PaintInit => PaintInv
  BY PaintStarts
<1>2. PaintInv /\ [PaintNext]_paint_vars => PaintInv'
  BY PaintKept
<1>3. PaintInv => InsideBuffer
  BY InvBuffer
<1> QED  BY <1>1, <1>2, <1>3, PTL DEF PaintSpec

(* The codec is the same whatever is painted, so what holds of it holds here. *)
THEOREM PaintRunsCodec == PaintSpec => Spec
<1>1. PaintInit => Init
  BY DEF PaintInit
<1>2. [PaintNext]_paint_vars => [Next]_vars
  BY DEF PaintNext, paint_vars
<1> QED  BY <1>1, <1>2, PTL DEF PaintSpec, Spec

(***************************************************************************)
(* Once fill_rect has returned, every place of the screen shows the image  *)
(* that went into the encoder, the rectangle blended over it exactly once, *)
(* and the text printed meanwhile below or above it; text is lost at most  *)
(* in the one pixel that fill_rect had read and not yet written.           *)
(***************************************************************************)
THEOREM PicturePainted == PaintSpec => []PictureIsRight
<1>1. PaintInit => PaintInv /\ PictureInv
  BY PaintStarts, PictureStarts
<1>2. PaintInv /\ PictureInv /\ [PaintNext]_paint_vars => PaintInv' /\ PictureInv'
  BY PaintKept, PictureKept
<1>3. PaintInv /\ PictureInv => PictureIsRight
  BY InvPicture
<1> QED  BY <1>1, <1>2, <1>3, PTL DEF PaintSpec

=============================================================================
