SPECIFICATION Spec
CONSTANTS
  Configs = {auto}
  MaxAge = 1
  MaxPolls = 1
  MaxInstances = 2
PROPERTY RestartIsDone
