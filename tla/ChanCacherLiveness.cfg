CONSTANTS
  v1 = v1
  v2 = v2
  o1 = o1
  o2 = o2
  Nil = Nil
  NoVal = NoVal
  Torn = Torn
  Values = {v1, v2}
  OldValues = {o1, o2}
  MaxDepth = 1
  MaxSize = 1
  Cache = TRUE
  Cached <- MCCached
  MaxFails = 1
SPECIFICATION FairSpec
PROPERTIES ClosesOut CommitReturns CommitClosesOut
