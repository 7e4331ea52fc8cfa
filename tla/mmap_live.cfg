SPECIFICATION FairMmapSpec
CONSTANTS
  THREAD_POOL_SIZE = 1
  Clients = {c1}
  Requests = {r1, r2}
  Sentinel = Sentinel
  REQ_LIST_BUFSIZE = 2
  MaxU32 = 7
  ReallocMayFail = FALSE
  Calls = {"wait", "cancel", "waitAll", "cancelAll", "release"}
INVARIANTS PutResourcesReleased TimerWillWake
PROPERTIES FinishWakesWaiter EveryCallReturns
CHECK_DEADLOCK FALSE
