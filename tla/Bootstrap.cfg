CONSTANTS
  N = 3
  Others = 1
  MaxCrashes = 2
  Splits <- CheckedSplits
SPECIFICATION FairSpec
INVARIANTS SlotsRight TableComplete MeshWired NobodySendsEarly SplitAgrees
PROPERTIES JobForms InitReturns SplitReturns
\* All ranks have returned.
CHECK_DEADLOCK FALSE
