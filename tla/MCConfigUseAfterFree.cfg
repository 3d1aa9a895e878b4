CONSTANTS
  MaxCallbacks = 10
  FopenCanFail = FALSE
  MallocCanFail = FALSE

SPECIFICATION Spec
INVARIANT ReturnsLiveConfig
CHECK_DEADLOCK FALSE
