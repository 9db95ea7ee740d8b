SPECIFICATION Spec
CONSTANTS
  Pids = {4, 8}
  MaxRun = 2
  MaxTime = 4
  MaxSamples = 3
PROPERTY SharesAlwaysAddUp
