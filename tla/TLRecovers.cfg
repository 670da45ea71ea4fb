CONSTANTS
  NULL = NULL
  Input = {82}
  Buttons = {"R"}
  HeapSize = 7
SPECIFICATION FairSpec
INVARIANT MeasurementsLogged
PROPERTY RedRecovers
