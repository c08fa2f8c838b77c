SPECIFICATION Spec
CONSTANTS
  d1 = d1
  d2 = d2
  s1 = s1
  b1 = b1
  b2 = b2
  Dests <- TwoDests
  Singles <- OneSingle
  Blocks <- OneBlock
  Tags <- SomeTags
  LocalTag <- SomeLocalTag
  Remote <- TwoRemotes
  ChanCap = 1
  MaxBreaks = 1
  MaxFatal = 1
  MayClose = TRUE
INVARIANTS
  NothingLost
  ClosedKeepsAll
  TagsRight
  OneConnAtATime
