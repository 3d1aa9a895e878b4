CONSTANTS
  s1 = s1
  s2 = s2
  s3 = s3
  Slots <- MCSlots
  MaxEvents = 9

SYMMETRY MCSymmetry
SPECIFICATION Spec
INVARIANT TypeOK RegistryHoldsLive MostRecentFirst FreedClean
\* free_connections is the last thing the process does before it exits.
CHECK_DEADLOCK FALSE
