\* Lines of up to five characters on rows of three: a line can wrap twice.
CONSTANTS
  cols = 3
  rows = 3
  Glyph = {"a", ">"}
  PROMPT <- MCPrompt
  MAX_LINE = 5
  Banner <- MCBanner
  Outputs <- MCOutputs
SPECIFICATION ShellSpec
INVARIANTS NoOverstrike OneCursorBar LineShown
CHECK_DEADLOCK FALSE
