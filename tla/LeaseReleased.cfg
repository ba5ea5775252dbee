CONSTANTS
  r1 = r1
  r2 = r2
SPECIFICATION ServicesSpec
INVARIANT LeaseReleased
CHECK_DEADLOCK FALSE
