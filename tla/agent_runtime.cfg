CONSTANTS
  MaxEvents = 2
  ResultsCap = 2
  Faults = {"new", "read", "publish", "flush"}
  Capacity = 2
  MaxChunks = 4
SPECIFICATION FairAgentSpec
INVARIANTS
  TypeOK
  AudioTypeOK
  NothingLeftBehind
  SendNeverBlocks
  NilOnlyOnShutdown
  ReportsGenuineErrors
  LatestIsKept
PROPERTIES
  SignalEndsAgent
  FailureEndsAgent
  ImplementsSampleSource
CHECK_DEADLOCK FALSE
