SPECIFICATION Spec
CONSTANTS
  Pids = {1, 2, 3}
  MaxBirths = 1
  MaxWalk = 4
INVARIANT WalkVisitsOnce
