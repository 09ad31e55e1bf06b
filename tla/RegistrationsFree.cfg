CONSTANTS
  Blocks <- ThreeBlocks
  Ranges <- ThreeRanges
  Caps = {0, 1, 2}
  MaxRegions = 6
  MaxUserRegs = 2
  MaxScratch = 2
  FreeAny = TRUE
SPECIFICATION Spec
INVARIANT NeverStale
CHECK_DEADLOCK FALSE
