SPECIFICATION PoolSpec
CONSTANTS
  THREAD_POOL_SIZE = 2
  Clients = {c1, c2}
  Requests = {r1, r2}
  Sentinel = Sentinel
  REQ_LIST_BUFSIZE = 2
  MaxU32 = 7
  ReallocMayFail = FALSE
INVARIANTS NoTaskBehindSentinel
CHECK_DEADLOCK FALSE
