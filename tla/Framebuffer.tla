---------------------------- MODULE Framebuffer ----------------------------
(***************************************************************************)
(* The drawing primitives of framebuffer.rs and blit_window of wm.rs, down *)
(* to the bytes of a buffer whose rows may be longer than the screen is    *)
(* wide, next to the picture they are meant to draw: an array of colours.  *)
(*                                                                         *)
(* A byte has Bits bits instead of eight; a colour is <<r, g, b>>.         *)
(***************************************************************************)
EXTENDS Integers, Sequences, FiniteSetsExt

CONSTANTS
  Bits,
  Width, Height, Stride,  \* of the screen, FrameBufferInfo
  Formats,                \* pixel formats with their bytes_per_pixel
  Colours,                \* colours used for drawing
  Pictures,               \* what windows show: a colour for every pixel of the screen,
                          \* of which a smaller window shows the corner
  GlyphBits,              \* the pixels of a character, before scaling
  FontW, FontH, ScaleY,   \* its size, and FONT_SCALE_Y (FONT_SCALE_X is 1)
  MaxOps                  \* bound on the drawing operations

ASSUME SizeAssumption ==
  /\ {Bits, Width, Height, FontW, FontH, ScaleY} \subseteq Nat \ {0}
  /\ Stride \in Nat /\ Stride >= Width
  /\ GlyphBits \subseteq (0 .. FontW - 1) \X (0 .. FontH - 1)
  /\ MaxOps \in Nat

-----------------------------------------------------------------------------
\* The bits of a byte, for the shifts of PixelFormat::Unknown, and the byte of bits.
BitsOf(n) ==
  LET shr[i \in 0 .. Bits] == IF i = 0 THEN n ELSE shr[i - 1] \div 2
  IN  {i \in 0 .. Bits - 1 : shr[i] % 2 = 1}

Number(S) ==
  LET top[i \in 0 .. Bits] ==
        IF i = 0 THEN 0 ELSE 2 * top[i - 1] + (IF Bits - i \in S THEN 1 ELSE 0)
  IN  top[Bits]

MaxByte == Number(0 .. Bits - 1)
Byte == 0 .. MaxByte
Colour == [1 .. 3 -> Byte]
Pixel == (0 .. Width - 1) \X (0 .. Height - 1)

ASSUME ColourAssumption == Colours \subseteq Colour /\ Pictures \subseteq [Pixel -> Colours]

\* The formats put_pixel has bytes for: 3 or 4 of colour, or one of grey.  A colour
\* of an unknown format is shifted within four bytes.
ASSUME FormatAssumption ==
  \A f \in Formats :
    /\ f.bpp \in 1 .. 4
    /\ f.format \in {"Rgb", "Bgr", "U8", "Unknown"}
    /\ f.format \in {"Rgb", "Bgr"} => f.bpp \in {3, 4}
    /\ f.format = "U8" => f.bpp = 1
    /\ f.positions \in [1 .. 3 -> 0 .. 4 * Bits - 1]

VARIABLES
  info,     \* pixel_format and bytes_per_pixel
  buf,      \* the bytes
  picture,  \* reference: the colour of every pixel
  ops,      \* operations so far
  ramp      \* history: the colours of the last operation, if it was a gradient

fbVars == <<info, buf, picture, ops, ramp>>
-----------------------------------------------------------------------------
EncodeUnknown(c) ==
  LET pixel == UNION {{i + info.positions[k] : i \in BitsOf(c[k])} : k \in 1 .. 3}
  IN  [i \in 1 .. info.bpp |-> Number({j - (i - 1) * Bits : j \in pixel} \cap 0 .. Bits - 1)]

\* What put_pixel writes for a colour, and what read_pixel makes of it.
Encode(c) ==
  LET Channels(x, y, z) == IF info.bpp >= 4 THEN <<x, y, z, MaxByte>> ELSE <<x, y, z>>
  IN  CASE info.format = "Rgb" -> Channels(c[1], c[2], c[3])
        [] info.format = "Bgr" -> Channels(c[3], c[2], c[1])
        [] info.format = "U8" -> <<(c[1] + c[2] + c[3]) \div 3>>
        [] info.format = "Unknown" -> EncodeUnknown(c)

\* Mutant: the order of the channels is forgotten.
ReadAsRgb(bytes) == <<bytes[1], bytes[2], bytes[3]>>

ReadBgr(bytes) == <<bytes[3], bytes[2], bytes[1]>>

DecodeUnknown(bytes) ==
  LET raw == UNION {{j + (i - 1) * Bits : j \in BitsOf(bytes[i])} : i \in 1 .. info.bpp}
  IN  [k \in 1 .. 3 |-> Number({j - info.positions[k] : j \in raw} \cap 0 .. Bits - 1)]

Decode(bytes) ==
  CASE info.format = "Rgb" -> <<bytes[1], bytes[2], bytes[3]>>
    [] info.format = "Bgr" -> ReadBgr(bytes)
    [] info.format = "U8" -> <<bytes[1], bytes[1], bytes[1]>>
    [] info.format = "Unknown" -> DecodeUnknown(bytes)

\* The bytes of pixel p are those at Offset(p) + 1 .. Offset(p) + bpp: they overlap
\* for no two pixels, so that the order in which a loop draws them does not matter.
Offset(p) == (p[2] * Stride + p[1]) * info.bpp
OutOfRange(b, p) == p[1] >= Width \/ p[2] >= Height \/ Offset(p) + info.bpp > Len(b)

\* b after colour[p] has been written at each p.
Write(b, colour) ==
  [o \in 1 .. Len(b) |->
     LET at == {p \in DOMAIN colour : o - Offset(p) \in 1 .. info.bpp}
         p == CHOOSE p \in at : TRUE
     IN  IF at = {} THEN b[o] ELSE Encode(colour[p])[o - Offset(p)]]

\* Calls of put_pixel, one for each p.
PutEach(b, colour) ==
  Write(b, [p \in {q \in DOMAIN colour : ~OutOfRange(b, q)} |-> colour[p]])
PutAll(b, ps, c) == PutEach(b, [p \in ps |-> c])
put_pixel(b, p, c) == PutAll(b, {p}, c)

read_pixel(b, p) ==
  IF OutOfRange(b, p) THEN <<0, 0, 0>>
  ELSE Decode([i \in 1 .. info.bpp |-> b[Offset(p) + i]])

(***************************************************************************)
(* Reference: the colour a display in this format shows for a colour.  It  *)
(* is that colour if every channel has a byte, or bits of its own; without *)
(* colour it is the brightness; in a layout that cuts channels off or lets *)
(* them overlap, what the bits they share leave of each.                   *)
(***************************************************************************)
Apart ==
  \A k \in 1 .. 3 :
    /\ info.positions[k] + Bits <= info.bpp * Bits
    /\ \A l \in 1 .. 3 \ {k} :
         info.positions[k] + Bits <= info.positions[l] \/ info.positions[l] + Bits <= info.positions[k]

SharedBits(c, k) ==
  {i \in 0 .. Bits - 1 :
     LET j == i + info.positions[k]
     IN  j < info.bpp * Bits /\ \E l \in 1 .. 3 : j - info.positions[l] \in BitsOf(c[l])}

Shown(c) ==
  LET brightness == (c[1] + c[2] + c[3]) \div 3
  IN  CASE info.format \in {"Rgb", "Bgr"} \/ (info.format = "Unknown" /\ Apart) -> c
        [] info.format = "U8" -> <<brightness, brightness, brightness>>
        [] OTHER -> [k \in 1 .. 3 |-> Number(SharedBits(c, k))]

Rect(x, y, w, h) == (x .. x + w - 1) \X (y .. y + h - 1)

Paint(ps, c) == picture' = [p \in Pixel |-> IF p \in ps THEN Shown(c) ELSE picture[p]]

FbInit ==
  /\ info \in Formats
  /\ buf = [o \in 1 .. Stride * Height * info.bpp |-> 0]
  /\ picture = [p \in Pixel |-> Decode([i \in 1 .. info.bpp |-> 0])]
  /\ ops = 0
  /\ ramp = <<>>

Op(colours) == ops < MaxOps /\ ops' = ops + 1 /\ ramp' = colours /\ UNCHANGED info
-----------------------------------------------------------------------------
\* Mutant: a rectangle includes its far edge.
ClipOneMore(from, size, limit) == Min({from + size, limit - 1})

\* x.saturating_add(width).min(info.width), as the last coordinate
Clip(from, size, limit) == Min({from + size, limit}) - 1

fill_rect(x, y, w, h, c) ==
  /\ Op(<<>>)
  /\ buf' = PutAll(buf, (x .. Clip(x, w, Width)) \X (y .. Clip(y, h, Height)), c)
  /\ Paint(Rect(x, y, w, h), c)

\* Reference: the pixels of a shape with a neighbour outside it.
Border(shape) ==
  {p \in shape : {<<p[1] - 1, p[2]>>, <<p[1] + 1, p[2]>>, <<p[1], p[2] - 1>>, <<p[1], p[2] + 1>>} \ shape # {}}

draw_rect_outline(x, y, w, h, c) ==
  /\ Op(<<>>)
  /\ w > 0 /\ h > 0
  /\ LET x_last == Clip(x, w, Width)
         y_last == Clip(y, h, Height)
         ring == ((x .. x_last) \X {y, y_last}) \cup ({x, x_last} \X (y .. y_last))
     IN  buf' = PutAll(buf, ring, c)
  /\ Paint(Border(Rect(x, y, w, h) \cap Pixel), c)

\* i32 division truncates towards zero.
lerp_u8(a, b, t) ==
  IF b >= a THEN a + ((b - a) * t) \div MaxByte ELSE a - ((a - b) * t) \div MaxByte

RowColour(top, bottom, i, h) ==
  LET t == (i * MaxByte) \div Max({h - 1, 1})
  IN  [k \in 1 .. 3 |-> lerp_u8(top[k], bottom[k], t)]

Gradient(top, bottom) == [p \in Pixel |-> RowColour(top, bottom, p[2], Height)]

fill_vertical_gradient(top, bottom) ==
  /\ Op(<<top, bottom>>)
  /\ buf' = PutEach(buf, Gradient(top, bottom))
  /\ picture' = [p \in Pixel |-> Shown(Gradient(top, bottom)[p])]

Dots == {p \in Pixel : p[1] % 4 = 0 /\ p[2] % 4 = 0 /\ (p[1] + p[2]) % 16 = 0}

draw_background(top, bottom, dot) ==
  /\ Op(<<>>)
  /\ buf' = PutAll(PutEach(buf, Gradient(top, bottom)), Dots, dot)
  /\ picture' = [p \in Pixel |-> Shown(IF p \in Dots THEN dot ELSE Gradient(top, bottom)[p])]

\* Where draw_char_at puts pixels for a character at <<x, y>>.
GlyphAt(x, y) == {<<x + g[1], y + g[2] * ScaleY + s>> : g \in GlyphBits, s \in 0 .. ScaleY - 1}

draw_text(x, y, n, c) ==
  /\ Op(<<>>)
  /\ LET text == UNION {GlyphAt(x + i * FontW, y) : i \in 0 .. n - 1}
     IN  buf' = PutAll(buf, text, c) /\ Paint(text, c)

\* The buffer of a window that shows image: rows without padding (create_window),
\* every pixel drawn.
WindowBuffer(w, h, image) ==
  [o \in 1 .. w * h * info.bpp |->
     LET place == (o - 1) \div info.bpp
     IN  Encode(image[<<place % w, place \div w>>])[((o - 1) % info.bpp) + 1]]

\* Mutant: the rows of a window are taken to be as long as those of the screen.
SourceOffsetOnScreen(w, row) == row * Stride * info.bpp

SourceOffset(w, row) == row * w * info.bpp

\* The rows of a window that are on the screen are copied, each if it fits both buffers.
blit_window(x, y, w, h, image) ==
  /\ Op(<<>>)
  /\ LET win == WindowBuffer(w, h, image)
         copy_h == Min({h, Height - y})
         bytes == Min({w, Width - x}) * info.bpp
         Target(row) == Offset(<<x, y + row>>)
         rows == {row \in 0 .. copy_h - 1 :
                    SourceOffset(w, row) + bytes <= Len(win) /\ Target(row) + bytes <= Len(buf)}
     IN  buf' = [o \in 1 .. Len(buf) |->
                   LET at == {row \in rows : o - Target(row) \in 1 .. bytes}
                       row == CHOOSE row \in at : TRUE
                   IN  IF at = {} THEN buf[o] ELSE win[SourceOffset(w, row) + (o - Target(row))]]
  /\ picture' = [p \in Pixel |->
                   IF p \in Rect(x, y, w, h) THEN Shown(image[<<p[1] - x, p[2] - y>>]) ELSE picture[p]]

FbNext ==
  \/ \E x \in 0 .. Width - 1, y \in 0 .. Height - 1, w \in 0 .. Width, h \in 1 .. Height :
       \/ \E c \in Colours : fill_rect(x, y, w, h, c) \/ draw_rect_outline(x, y, w, h, c)
       \/ \E image \in Pictures : blit_window(x, y, w, h, image)
  \/ \E x \in 0 .. Width - 1, y \in 0 .. Height - 1, n \in 1 .. 2, c \in Colours : draw_text(x, y, n, c)
  \/ \E c \in Colours, d \in Colours : fill_vertical_gradient(c, d) \/ draw_background(d, d, c)

FbSpec == FbInit /\ [][FbNext]_fbVars
-----------------------------------------------------------------------------
\* The bytes between the end of a row and the next are never written.
PaddingUntouched ==
  \A y \in 0 .. Height - 1 : \A o \in Offset(<<Width, y>>) + 1 .. Offset(<<0, y + 1>>) : buf[o] = 0

\* The background runs from the colour at the top to the one at the bottom
\* without a step back or beyond (fill_vertical_gradient, lerp_u8).
GradientRuns ==
  ramp # <<>> =>
    LET top == ramp[1]
        bottom == ramp[2]
    IN  /\ read_pixel(buf, <<0, 0>>) = Shown(top)
        /\ Height > 1 => read_pixel(buf, <<Width - 1, Height - 1>>) = Shown(bottom)
        /\ info.format \in {"Rgb", "Bgr"} =>
             \A p \in Pixel, k \in 1 .. 3 :
               LET above == read_pixel(buf, <<p[1], Max({p[2] - 1, 0})>>)[k]
                   here == read_pixel(buf, p)[k]
               IN  IF top[k] <= bottom[k] THEN above <= here ELSE above >= here

(***************************************************************************)
(* The buffer shows the picture: every operation draws exactly the pixels  *)
(* it is asked for, in the colours it is asked for as far as the format    *)
(* has them, and every window is shown pixel by pixel where it is, clipped *)
(* at the edges, never wrapped into the next row and never in the padding  *)
(* between rows; a gradient is one (put_pixel, read_pixel and what is      *)
(* built on them, blit_window).                                            *)
(***************************************************************************)
BufferShowsPicture ==
  /\ \A p \in Pixel : read_pixel(buf, p) = picture[p]
  /\ PaddingUntouched
  /\ GradientRuns

(***************************************************************************)
(* Drawing the colour read_pixel returned leaves the pixel and its         *)
(* neighbours as they were, whatever the format loses or lets overlap: the *)
(* cursor can be put away again (save_background, restore_background).     *)
(***************************************************************************)
RestoreIsExact ==
  \A p \in Pixel :
    LET restored == put_pixel(put_pixel(buf, p, <<0, 0, 0>>), p, read_pixel(buf, p))
    IN  \A q \in Pixel : read_pixel(restored, q) = read_pixel(buf, q)

\* Inductive: the bytes are bytes, and after a gradient the picture is that gradient.
FbInv ==
  /\ info \in Formats
  /\ buf \in [1 .. Stride * Height * info.bpp -> Byte]
  /\ \A p \in Pixel : read_pixel(buf, p) = picture[p]
  /\ PaddingUntouched
  /\ ramp # <<>> =>
       /\ ramp[1] \in Colour /\ ramp[2] \in Colour
       /\ \A p \in Pixel : picture[p] = Shown(Gradient(ramp[1], ramp[2])[p])
=============================================================================
