CONSTANTS
  a1 = a1
  a2 = a2
  c1 = c1
  c2 = c2
  s1 = s1
  s2 = s2
  s3 = s3
  m1 = m1
  m2 = m2
SPECIFICATION CarriersSpec
INVARIANTS PendingSafe CarriersReleased YamuxExact PacketsKept BytesKept
PROPERTIES CarriersEnd
CHECK_DEADLOCK FALSE
