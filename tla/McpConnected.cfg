SPECIFICATION Spec
CONSTANTS
  None = None
  r1 = r1
  r2 = r2
  c1 = c1
  c2 = c2
  g1 = g1
  g2 = g2
  i1 = i1
  i2 = i2
  e1 = e1
  e2 = e2
  w1 = w1
  w2 = w2
  k1 = k1
  k2 = k2
  s1 = s1
  Absent = Absent
  Opener = Opener
  Reader = Reader
SYMMETRY Symmetry
INVARIANTS FailedIsDisconnected
CHECK_DEADLOCK FALSE
