CONSTANTS
  Cases <- StagedCases
SPECIFICATION FairSpec
INVARIANT ResultRight
CHECK_DEADLOCK FALSE
