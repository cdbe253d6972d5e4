SPECIFICATION Spec
CONSTANTS
  s1 = s1
  s2 = s2
  s3 = s3
  p1 = p1
  p2 = p2
  Servers = {s1, s2, s3}
  Ports = {p1, p2}
  PortOf <- MCPortOf
  None = None
SYMMETRY Symmetry
INVARIANTS ServedTableIsOwn SharedOnlyByOverlap NoSegmentLeft IInv
CHECK_DEADLOCK FALSE
