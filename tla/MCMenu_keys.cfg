SPECIFICATION Spec
CONSTANTS
  None = "none"
  Menus = {"main", "sub", "deep"}
  Main = "main"
  itemCount <- MCitemCount
  subMenu <- MCsubMenu
  target <- MCtarget
  CanEscape = {"sub", "deep"}
  menu_height = 13
INVARIANTS HighlightShown OnlyTopShown
CHECK_DEADLOCK FALSE
