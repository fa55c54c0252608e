CONSTANTS
  Moves <- MCMoves
  NoEvent = NoEvent
  StrayBytes <- MCStrayBytes
  MaxLosses = 2
  MaxStrays = 2
SPECIFICATION MouseSpec
INVARIANTS FaithfulDecoding QuietPacketResyncs BogusEventsBounded
