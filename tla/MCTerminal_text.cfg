SPECIFICATION Spec
CONSTANTS
  Modes <- TextModes
  Title <- MCTitle
  Welcome <- MCWelcome
  Header <- MCHeader
  Messages <- MCMessages
  Glyphs = {"a", "h", "w", "t", "tab", "bs"}
  MaxLogs = 2
PROPERTIES CharactersShown
CHECK_DEADLOCK FALSE
