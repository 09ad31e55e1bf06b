CONSTANTS
  N = 3
  Rank <- Ranks
  Programs <- BruckPrograms
  kQueueDepth = 4
  PollBatch = 2
  Faults <- BruckFaults
SPECIFICATION FairSpec
INVARIANTS NotStranded
CHECK_DEADLOCK FALSE
