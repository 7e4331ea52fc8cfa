SPECIFICATION FairAioSpec
CONSTANTS
  Requests = {r1, r2}
  NumFds = 2
  Calls = {"wait", "cancel", "waitAll", "cancelAll", "release"}
  ReallocMayFail = TRUE
  NULL = NULL
PROPERTIES SuccessIsFinal
CHECK_DEADLOCK FALSE
