CONSTANTS
  Capacity = 3
  AckCap = 2
  AckBuf = 3
  BufCap = 1
  UpCap = 1
  DownCap = 1
  MaxId = 3
  MaxBatch = 2
  Requests = {"TAG", "INGESTER_STATE", "DITTO_BLOCK", "PING"}
  MaxCalls = 3
  MaxTag = 2
  MaxTimeout = 0
  MaxThrottle = 0
  MayBreak = FALSE
SPECIFICATION FairSpec
INVARIANTS  AddHasRoom
PROPERTY CallsReturn
