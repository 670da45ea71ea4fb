CONSTANTS
  NULL = NULL
  Alphabet = {47, 48, 50, 51, 52, 53, 54, 57, 58}
SPECIFICATION Spec
INVARIANTS ParsersAgree ParsesClockTimes
CHECK_DEADLOCK FALSE
