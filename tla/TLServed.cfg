CONSTANTS
  NULL = NULL
  Input = {68}
  Buttons = {"G"}
  HeapSize = 4
SPECIFICATION FairSpec
PROPERTIES WedgeLasts PressServed
