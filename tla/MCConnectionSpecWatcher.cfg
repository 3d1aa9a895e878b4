CONSTANTS
  BufSize = 3
  PeekMax = 2
  MaxBytes = 4
  Table <- MCTable
  Fallbacks = {TRUE, FALSE}
  Requests <- MCRequests
  SocketCanFail = FALSE

SPECIFICATION Spec
INVARIANT SpecWatcherRegistered
CHECK_DEADLOCK FALSE
