--------------------------- MODULE MCFramebuffer ---------------------------
EXTENDS Framebuffer

Format(f, bpp, positions) == [format |-> f, bpp |-> bpp, positions |-> positions]

\* Three bytes, four, one, a layout with a hole and one whose channels overlap.
MCFormats ==
  {Format("Rgb", 4, <<0, 0, 0>>), Format("Bgr", 3, <<0, 0, 0>>), Format("U8", 1, <<0, 0, 0>>),
   Format("Unknown", 4, <<5, 3, 0>>), Format("Unknown", 2, <<3, 1, 0>>)}

MCColours == {<<0, 1, 3>>, <<3, 2, 0>>}
\* Of any two pixels of a window, one of these pictures shows different colours: they
\* spell the number of the pixel in binary.
MCPictures ==
  {[q \in Pixel |-> IF ((q[2] * Width + q[1]) \div place) % 2 = 0 THEN <<0, 1, 3>> ELSE <<3, 2, 0>>] :
     place \in {1, 2, 4}}
MCGlyph == {<<0, 0>>, <<1, 1>>}
=============================================================================
