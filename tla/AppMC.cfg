SPECIFICATION MCSpec
CONSTANTS
  Writers = {w1, w2}
  NumChunks = 2
  MaxFrames = 4
  Requesters = {r1, r2}
  MaxEvents = 6
  MaxStarts = 3
  Indices = {1, 2}
  MaxOctets = 2
  Devices = {d1, d2}
  MaxChanges = 2
  MaxDevices = 3
  Toolboxes = {x1, x2}
  HalfInt = 8
  MinFps = 2
  MaxFps = 4
  Numbers = {6, 9, 19}
  MaxWritten = 4
  MaxSide = 7
  OutWidth = 8
  OutHeight = 5
  Den = 2
  Width = 8
  MaxZoom = 3
  Capacity = 2
  Window = 3
  MaxTime = 7
  MaxValue = 2
  Callers = {t1, t2}
  MaxHeld = 3
  Displays = {1, 2}
  Models = {1, 2}
  Instances = {1, 2}
  Programs = {e1, e2, e3}
  MaxIcons = 1
  MaxCached = 2
INVARIANTS
  TypesOK
  CopyIsWhole
  LivesWhileHeld
  ShownIsMeasuredOrZero
  ShownCatchesUp
  WindowIsSound
  SavedIsLoaded
  FramesFit
  PointsStayUnderMouse
PROPERTIES
  ResetOnlyByLateOpen
  SamplesAreSound
