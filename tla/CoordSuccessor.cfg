CONSTANTS
  c1 = c1
  s1 = s1
  c2 = c2
  s2 = s2
  Legs = {c1, s1, c2, s2}
  NoLeg = NoLeg
  Claims <- Replacement
  Guarded = {c1}
  MaxPendingLegs = 1
  MaxActivePairs = 1
  MayFail = {}
  MayCancel = {c2}
  MayExpire = {}
SPECIFICATION TunnelSpec
INVARIANT ClosedBeforeSuccessor
CHECK_DEADLOCK FALSE
