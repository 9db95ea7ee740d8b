SPECIFICATION Spec
CONSTANTS
  MaxDevices = 2
INVARIANTS
  HandlesRender
