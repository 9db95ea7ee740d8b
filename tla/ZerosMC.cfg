SPECIFICATION MCSpec
CONSTANTS
  Indices = {1}
  MaxOctets = 2
  Capacity = 2
  Window = 3
  MaxTime = 7
  MaxValue = 1
INVARIANT NotAllFabricated
