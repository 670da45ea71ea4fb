CONSTANTS
  NULL = NULL
  Input = {65, 49}
  Buttons = {}
  HeapSize = 4
SPECIFICATION MCSpec
INVARIANT NoStaleExpiry
PROPERTY TimerLights
