CONSTANTS
  Blocks <- ThreeBlocks
  Ranges <- ThreeRanges
  Caps = {0, 1, 2}
  MaxRegions = 6
  MaxUserRegs = 2
  MaxScratch = 2
  FreeAny = FALSE
SPECIFICATION Spec
INVARIANTS OwnedOnce CacheBounded NeverStale
CHECK_DEADLOCK FALSE
