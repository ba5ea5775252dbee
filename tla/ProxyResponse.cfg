CONSTANTS
  r1 = r1
  r2 = r2
SPECIFICATION ServicesSpec
INVARIANT ResponseDelivered
CHECK_DEADLOCK FALSE
