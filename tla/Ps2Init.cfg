CONSTANTS
  BootConfigs = {{0, 2, 6}, {0, 1, 2, 5, 6}, {2, 6}}
  MaxKeys = 1
  MaxMoves = 2
SPECIFICATION Spec
INVARIANTS ConfigPreserved StrayBytesBounded
PROPERTIES KeyboardComesBack
CHECK_DEADLOCK FALSE
