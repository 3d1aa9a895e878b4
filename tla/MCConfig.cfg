CONSTANTS
  MaxCallbacks = 10
  FopenCanFail = FALSE
  MallocCanFail = FALSE

SPECIFICATION Spec
INVARIANT HeapSound
\* init_config returns: the loader stops there.
CHECK_DEADLOCK FALSE
