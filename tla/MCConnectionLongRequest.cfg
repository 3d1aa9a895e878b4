CONSTANTS
  BufSize = 3
  PeekMax = 2
  MaxBytes = 4
  Table <- MCTable
  Fallbacks = {TRUE, FALSE}
  Requests <- MCLongRequests
  SocketCanFail = FALSE

SPECIFICATION Spec
INVARIANT AssertionsHold
CHECK_DEADLOCK FALSE
