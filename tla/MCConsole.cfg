SPECIFICATION ConsoleSpec
CONSTANTS
  Columns = 2
  MAX_SCREEN_HEIGHT = 3
  Chars <- MCChars
  NUL = 0
  Loader = 7
  Runs <- MCRuns
  MaxRows = 5
INVARIANTS
  ScreenShowsPaper
PROPERTIES
  StatusRowKept
  CursorComesBack
