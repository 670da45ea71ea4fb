CONSTANTS
  NULL = NULL
  Buttons = {"R", "Y", "G"}
  HeapSize = 4
SPECIFICATION Spec
INVARIANTS LeavesDark ButtonsTogether
PROPERTY ImplementsSystem
CHECK_DEADLOCK FALSE
