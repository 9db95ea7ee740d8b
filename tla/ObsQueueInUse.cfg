SPECIFICATION Spec
CONSTANTS
  Writers = {w1, w2}
  NumChunks = 2
  MaxFrames = 1
INVARIANT InUseIsRefused
