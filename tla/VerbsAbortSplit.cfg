CONSTANTS
  N = 3
  Rank <- Ranks
  Programs <- GatherPrograms
  kQueueDepth = 4
  PollBatch = 2
  Faults <- GatherFaults
SPECIFICATION FairSpec
PROPERTIES AbortUnblocks
CHECK_DEADLOCK FALSE
