CONSTANTS
  N = 3
  Rank <- Ranks
  Programs <- CheckedPrograms
  kQueueDepth = 2
  PollBatch = 2
  Faults <- CheckedFaults
SPECIFICATION FairSpec
INVARIANTS TypeOK DataBeforeReturn SendBufferFree NotStranded PrePostMatches CleanBetweenOps CqNeverOverflows
PROPERTIES ImplementsTransport EveryCallReturns AbortUnblocks
CHECK_DEADLOCK FALSE
