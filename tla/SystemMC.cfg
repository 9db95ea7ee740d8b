SPECIFICATION MCSpec
CONSTANTS
  Names = {a}
  Contents = {p, q}
  OwnName = a
  OwnCommand = p
  MaxChanges = 2
  Configs = {auto, manual}
  MaxAge = 1
  MaxPolls = 2
  MaxInstances = 2
  SampledPids = {4, 8}
  MaxRun = 2
  MaxTime = 4
  MaxSamples = 3
  Pids = {1, 2, 3}
  MaxBirths = 1
  MaxWalk = 4
  TreePids = {4, 8, 12}
  UsbDevices = {1, 2, 3}
  CameraNames = {c1, c2}
  DefaultName = c1
  MenuPids = {1, 2}
  MaxStarted = 3
  Toolboxes = {t1, t2}
  Engines = {e1, e2}
INVARIANTS
  TypesOK
  HitsWhatWasNamed
  EachDrawnOnce
  OneEngineEach
PROPERTIES
  NothingElseLost
  ReportIsTrue
  ShownConfigIsRecent
  SharesAreSound
  ChildrenFirst
