SPECIFICATION Spec
CONSTANTS
  MaxStarts = 1
PROPERTIES
  HealthIsShown
