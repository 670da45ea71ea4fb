CONSTANTS
  NULL = NULL
  Input = {82, 68}
  Buttons = {"G"}
  HeapSize = 4
SPECIFICATION MCSpec
INVARIANTS TypeOK HeapConserved LogTellsState
PROPERTY ShowsInOrder
