SPECIFICATION FairSpec
CONSTANTS
  MaxBytes = 4
  MaxAgain = 2
  MaxTruncs = 1
  MaxFaults = 1
INVARIANTS
  NothingSkipped
  OffsetsSafe
  OnceWithoutCrash
  HandsOutLines
PROPERTIES
  FinalReadComplete
  CatchesUp
