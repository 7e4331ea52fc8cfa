SPECIFICATION FairMmapSpec
CONSTANTS
  THREAD_POOL_SIZE = 1
  Clients = {c1}
  Requests = {r1}
  Sentinel = Sentinel
  REQ_LIST_BUFSIZE = 2
  MaxU32 = 7
  ReallocMayFail = FALSE
  Calls = {"waitForever"}
PROPERTIES FinishWakesWaiter
CHECK_DEADLOCK FALSE
