CONSTANTS
  N = 3
  Rank <- Ranks
  Programs <- CheckedPrograms
  SockBuf = 1
  Faults <- CheckedFaults
SPECIFICATION FairSpec
INVARIANTS StreamAligned
PROPERTIES ImplementsTransport EveryCallReturns AbortUnblocks
CHECK_DEADLOCK FALSE
