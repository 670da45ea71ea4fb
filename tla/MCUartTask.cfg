CONSTANTS
  NULL = NULL
  Input = {97, 49, 71, 68, 13, 0}
  MaxInput = 8
SPECIFICATION MCSpec
INVARIANTS TypeOK FramesRight LastSettings
CHECK_DEADLOCK FALSE
