SPECIFICATION FairSpec
CONSTANTS
  NumProviders = 3
  MaxCycle = 3
INVARIANTS
  TypeOK
  WholeCycles
PROPERTIES
  NothingAfterStop
  StopReturns
  EveryProviderAgain
  ImplementsSnapshotService
