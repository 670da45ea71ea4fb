CONSTANTS
  Size = 4
  Char = {65, 66, 0}
  MaxLines = 3
SPECIFICATION Spec
INVARIANT ParserGetsLines
CHECK_DEADLOCK FALSE
