CONSTANTS
  BufSize = 3
  PeekMax = 2
  MaxBytes = 3
  Table <- MCTable
  Fallbacks = {TRUE, FALSE}
  Requests <- MCLiveRequests
  SocketCanFail = FALSE

SPECIFICATION Spec
PROPERTY PeerCloseEndsConnection RequestDispatched Relay
CHECK_DEADLOCK FALSE
