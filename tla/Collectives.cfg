CONSTANTS
  Cases <- CheckedCases
SPECIFICATION FairSpec
INVARIANTS ResultRight SameEverywhere SizesAgree NoRace NothingLeft
PROPERTIES AllReturn
CHECK_DEADLOCK FALSE
