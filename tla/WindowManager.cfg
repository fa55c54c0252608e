\* Six by four pixels, the last row is the taskbar.
CONSTANTS
  ScreenWidth = 6
  ScreenHeight = 4
  TASKBAR_HEIGHT = 1
  FirstLabel = 1
  FONT_WIDTH = 1
  LabelPad = 1
  LabelLead = 1
  HighlightPad = 1
  Layout <- MCLayout
  CURSOR_SPRITE <- MCSprite
  Content = {"v0", "v1"}
  NoContent = "v0"
  MouseEvents <- MCMouseEvents
SPECIFICATION Spec
INVARIANTS ScreenCurrent TitlesMatchFocus FocusedOnTop
PROPERTY ClickFocusesWhatIsSeen
