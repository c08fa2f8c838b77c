CONSTANTS
  n1 = n1
  n2 = n2
  n3 = n3
  d1 = d1
  d2 = d2
  e1 = e1
  e2 = e2
  NoEntry = NoEntry
  Names = {n1, n2, n3}
  Dests = {d1}
  Remote <- MCRemote
  Entries = {e1, e2}
  NameOf <- MCNameOf
  Configs <- MCConfigs
  MaxCrashes = 2
  MaxBreaks = 1
SPECIFICATION FairSpec
CHECK_DEADLOCK FALSE
INVARIANTS SentRight MeaningKept 
PROPERTY EventuallySent
