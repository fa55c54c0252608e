CONSTANTS
  Bits = 2
  Width = 2
  Height = 3
  Stride = 3
  Formats <- MCFormats
  Colours <- MCColours
  Pictures <- MCPictures
  GlyphBits <- MCGlyph
  FontW = 2
  FontH = 2
  ScaleY = 2
  MaxOps = 2
SPECIFICATION FbSpec
INVARIANTS BufferShowsPicture RestoreIsExact
CHECK_DEADLOCK FALSE
