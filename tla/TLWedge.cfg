CONSTANTS
  NULL = NULL
  Input = {82, 68}
  Buttons = {}
  HeapSize = 4
SPECIFICATION FairSpec
PROPERTY TypedColourLights
