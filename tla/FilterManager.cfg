SPECIFICATION FairSpec
CONSTANTS
  Paths = {1, 2, 3}
  Matching = {1, 2}
  Inodes = {1, 2}
  MaxFilesWatched = 1
  MaxLines = 1
  MaxOps = 4
  MaxCrashes = 1
INVARIANTS
  TypeOK
  SkipsNothing
  ReadOnce
  
PROPERTIES
  
  FlushesFollowed
