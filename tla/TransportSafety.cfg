CONSTANTS
  Capacity = 3
  AckCap = 2
  AckBuf = 2
  BufCap = 1
  UpCap = 1
  DownCap = 1
  MaxId = 3
  MaxBatch = 2
  Requests = {"TAG", "DITTO_BLOCK"}
  MaxCalls = 1
  MaxTag = 1
  MaxTimeout = 1
  MaxThrottle = 1
  MayBreak = TRUE
SPECIFICATION Spec
INVARIANTS AckedIsRead AcksInOrder
