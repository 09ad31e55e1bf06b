CONSTANTS
  Rank <- Ranks
  kQueueDepth = 2
  PollBatch = 2
  Programs <- CheckedPrograms
  Faults <- CheckedFaults
SPECIFICATION FairBatchSpec
PROPERTIES ImplementsTransport BatchReturns AbortUnblocks
\* All ranks have returned.
CHECK_DEADLOCK FALSE
