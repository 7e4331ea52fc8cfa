SPECIFICATION FairAioSpec
CONSTANTS
  Requests = {r1, r2}
  NumFds = 2
  Calls = {"wait", "cancel", "waitAll", "cancelAll", "release"}
  ReallocMayFail = TRUE
  NULL = NULL
INVARIANTS AioTypeOK NoCallbackAfterFree BufferLiveDuringIO ReleaseClosesAll WakeupComes
PROPERTIES WaitAllEnds EveryCallReturns
CHECK_DEADLOCK FALSE
