SPECIFICATION MmapSpec
CONSTANTS
  THREAD_POOL_SIZE = 2
  Clients = {c1, c2}
  Requests = {r1}
  Sentinel = Sentinel
  REQ_LIST_BUFSIZE = 2
  MaxU32 = 7
  ReallocMayFail = TRUE
  Calls = {"wait", "waitForever", "cancel", "waitAll", "cancelAll", "release"}
SYMMETRY Symmetry
INVARIANTS MmapTypeOK UnmappedOnlyByFailedPut TimerInsideWait
PROPERTIES Lifecycle
CHECK_DEADLOCK FALSE
