CONSTANTS
  c1 = c1
  c2 = c2
  Comm <- TwoComms
  MaxOps = 3
  MaxDepth = 2
SPECIFICATION FairSpec
INVARIANTS IssueOrder SuccessMeansRun FailureVisible
PROPERTIES FirstErrorStays StopsAtFailure GroupEnds
