CONSTANTS
  BufSize = 3
  PeekMax = 2
  MaxBytes = 3
  Table <- MCTable
  Fallbacks = {TRUE, FALSE}
  Requests <- MCLiveRequests
  SocketCanFail = TRUE

SPECIFICATION Spec
PROPERTY RequestDispatched
CHECK_DEADLOCK FALSE
