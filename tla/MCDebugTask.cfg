CONSTANTS
  MaxPut = 7
  MaxMessages = 2
SPECIFICATION MCSpec
INVARIANT TotalsOfThree
