CONSTANTS
  MaxCallbacks = 10
  FopenCanFail = FALSE
  MallocCanFail = FALSE

SPECIFICATION Spec
INVARIANT LeakFree
CHECK_DEADLOCK FALSE
