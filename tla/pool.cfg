SPECIFICATION FairPoolSpec
CONSTANTS
  THREAD_POOL_SIZE = 2
  Clients = {c1, c2}
  Requests = {r1, r2, r3}
  Sentinel = Sentinel
  REQ_LIST_BUFSIZE = 2
  MaxU32 = 7
  ReallocMayFail = TRUE
INVARIANTS PoolTypeOK HandedOutOnce NoNullFunction CountersAgree FewBehindSentinels Drained SignalsSuffice JoinNeverStuck TaskHasWorker
PROPERTIES DispatchSpec AcceptedIsRun ReleaseReturns
CHECK_DEADLOCK FALSE
