CONSTANTS
  Columns <- MCColumns
  Rows <- MCRows
  Color = {"gray", "magenta"}
  Strings <- MCStrings
  Resolution <- MCResolution
  MostModes = 2
  PcdVideo <- MCPcdVideo
  \* Three rows of two characters with their margins; a writer inside of another.
  gWidth = 13
  gHeight = 40
  Depth = 2
  Length = 2
  \* Numbers of two digits, which go through three values.
  HEX_LENGTH = 2
  Digits = 3
SPECIFICATION MCSpec
INVARIANTS
  ScreenIsTerminal
  ConsoleFits
PROPERTIES
  LogIsSeen
  MenuGoesOn
  DumpAsEntered
  GameIsRight
CHECK_DEADLOCK FALSE
