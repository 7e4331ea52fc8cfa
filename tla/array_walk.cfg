SPECIFICATION MemSpec
CONSTANTS
  THREAD_POOL_SIZE = 2
  REQ_LIST_BUFSIZE = 2
  PtrSize = 2
  MaxU32 = 15
  Clients = {c1, c2}
  MaxPuts = 3
  AllocMayFail = FALSE
  SerialInit = TRUE
INVARIANTS WalkReadsRequests
CHECK_DEADLOCK FALSE
