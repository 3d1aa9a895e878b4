CONSTANTS
  BufSize = 3
  PeekMax = 2
  MaxBytes = 4
  Table <- MCTable
  Fallbacks = {TRUE, FALSE}
  Requests <- MCRequests
  SocketCanFail = FALSE

SPECIFICATION Spec
INVARIANT TypeOK AssertionsHold DescriptorDiscipline InterestMatchesBuffers HalfCloseDrains
PROPERTY LifecycleRefined
CHECK_DEADLOCK FALSE
