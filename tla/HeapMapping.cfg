\* Frames of two addresses; five are needed: two pages, two tables of level 1
\* (the heap starts in the middle of a table) and one of level 2.
CONSTANTS
  FrameSize = 2
  HeapPages = 2
  BasePage = 1
  Levels = 2
  Fanout = 2
  Bounds = {0, 1, 4, 6, 9, 14}
  MaxRegions = 3
  RegionLists <- MCRegionLists
SPECIFICATION FairSpec
INVARIANTS HeapInv NoAliasing FramesUsable PanicOnlyWhenExhausted
PROPERTY BootEnds
CHECK_DEADLOCK FALSE
