CONSTANTS
  r1 = r1
  r2 = r2
SPECIFICATION ServicesSpec
INVARIANTS ResourcesReturned LeaseOutlivesWork AuthorizedOnly BodiesWhole OwnAnswer
PROPERTIES HandlersEnd
CHECK_DEADLOCK FALSE
