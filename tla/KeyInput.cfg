CONSTANTS
  Cap = 3
  MaxEvents = 6
SPECIFICATION KeySpec
INVARIANTS NothingTypedIsLost StuckModifierHeals
PROPERTIES TypingIsHandled
