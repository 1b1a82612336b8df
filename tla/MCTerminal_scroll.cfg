SPECIFICATION Spec
CONSTANTS
  Modes <- WideModes
  Title <- MCTitle
  Welcome <- MCWelcome
  Header <- MCHeader
  Messages <- MCMessages
  Glyphs = {"a", "h", "w", "t", "tab", "bs"}
  MaxLogs = 2
PROPERTIES ImplementsPage
CHECK_DEADLOCK FALSE
