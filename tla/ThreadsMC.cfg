SPECIFICATION MCSpec
CONSTANTS
  Runners = {process, network, device}
  Unallocated = {device}
  Operations = {suspend, resume}
  Count = 3
  Latencies = {0, 7, 30}
  Pids = {4, 8}
  MaxFrames = 3
  NumChunks = 2
  MaxShmFrames = 4
  MaxRestarts = 1
  Toolboxes = {t1, t2}
  Engines = {e1}
INVARIANTS
  TypesOK
  ResultBeforeFree
  NoUseAfterDestroy
  PublishedIsSound
  StopReleasesAll
PROPERTIES
  OperationsEnd
  RequestAnswered
  LeftoversEnd
  StopReturns
  AcceptedFrameAndNextOnly
  NoFrameTwice
  LastFrameShown
