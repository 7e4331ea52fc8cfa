SPECIFICATION AioSpec
CONSTANTS
  Requests = {r1, r2}
  NumFds = 2
  Calls = {"waitAll"}
  ReallocMayFail = TRUE
  NULL = NULL
INVARIANTS DescriptorInFlight
CHECK_DEADLOCK FALSE
