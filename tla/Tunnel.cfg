CONSTANTS
  c1 = c1
  s1 = s1
  c2 = c2
  s2 = s2
  Legs = {c1, s1, c2, s2}
  NoLeg = NoLeg
  Claims <- Strangers
  Guarded = {c1}
  MaxPendingLegs = 2
  MaxActivePairs = 1
  MayFail = {s1}
  MayCancel = {c2}
  MayExpire = {}
SPECIFICATION TunnelSpec
INVARIANTS PairingSafe OutcomeOnce VariantsSafe BridgeSafe
PROPERTIES DataFailuresScoped TunnelEnds
CHECK_DEADLOCK FALSE
