CONSTANTS
  MaxCallbacks = 10
  FopenCanFail = TRUE
  MallocCanFail = FALSE

SPECIFICATION Spec
INVARIANT NoNullDeref
CHECK_DEADLOCK FALSE
