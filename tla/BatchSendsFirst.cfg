CONSTANTS
  Rank <- Ranks
  kQueueDepth = 2
  PollBatch = 2
  Programs <- SendsFirstPrograms
  Faults <- SendsFirstFaults
SPECIFICATION FairBatchSpec
PROPERTIES BatchReturns
CHECK_DEADLOCK FALSE
