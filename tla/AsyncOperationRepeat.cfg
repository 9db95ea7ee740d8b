SPECIFICATION Spec
CONSTANTS
  Runners = {startup}
  Unallocated = {}
  Operations = {disable, enable}
INVARIANT OperationsRepeat
