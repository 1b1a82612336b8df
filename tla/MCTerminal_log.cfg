SPECIFICATION Spec
CONSTANTS
  Modes <- MCModes
  Title <- MCTitle
  Welcome <- MCWelcome
  Header <- MCHeader
  Messages <- MCMessages
  Glyphs = {"a", "h", "w", "t", "tab", "bs"}
  MaxLogs = 2
INVARIANTS CursorInside FrameWhole
PROPERTIES ImplementsPage
CHECK_DEADLOCK FALSE
