CONSTANTS
  v1 = v1
  v2 = v2
  Nil = Nil
  NoVal = NoVal
  Torn = Torn
  NoFile = NoFile
  Values = {v1, v2}
  OldValues = {}
  MaxDepth = 1
  MaxSize = 0
  Cache = TRUE
  Cached <- MCNothing
  MaxFails = 0
  MaxCrashes = 2
  CrashInMerge = FALSE
  MaxQuarantine = 4
  OldNumbers <- MCOldNumbers
SYMMETRY SymmTwo
SPECIFICATION RSpec
INVARIANTS DurableKept
PROPERTIES QuarantineKept 
