CONSTANTS
  MaxCallbacks = 10
  FopenCanFail = FALSE
  MallocCanFail = TRUE

SPECIFICATION Spec
INVARIANT NoNullDeref
CHECK_DEADLOCK FALSE
