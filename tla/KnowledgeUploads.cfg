SPECIFICATION Spec
CONSTANTS
  u1 = u1
  u2 = u2
  s1 = s1
  s2 = s2
  p1 = p1
  p2 = p2
  r1 = r1
  r2 = r2
  Sets = {s1, s2}
  Uploads = {u1, u2}
  v1 = v1
  v2 = v2
  none = none
  Versions = {v1, v2}
  SeedVersion = v1
  NoVersion = none
  Processes = {p1, p2}
  Readers = {r1, r2}
  Clients <- EachAlone
  MaxChunks = 1
  MaxFailures = 1
SYMMETRY MCSymmetry
INVARIANTS
  TypeOK
  OneActiveGuide
  SegmentsMatch
  OneActiveSet
PROPERTY
  IndexIsCurrent
CHECK_DEADLOCK FALSE
