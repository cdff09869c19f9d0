SPECIFICATION MCSpec
CONSTANTS
  a = a
  s = s
  p1 = p1
  p2 = p2
  m1 = m1
  m2 = m2
  m3 = m3
  c1 = c1
  c2 = c2
  i1 = i1
  g1 = g1
  r1 = r1
  r2 = r2
  x1 = x1
  x2 = x2
  Lots = {a, s}
  Serials = {s}
  Places = {p1, p2}
  Ids = {m1, m2, m3}
  Extra = m3
  MaxQty = 1
  MaxStock = 2
  Counted = {a}
  Txns = {c1, c2}
  Revs = {r1, r2}
  Current = r1
  Insps = {i1}
  Samples = {x1, x2}
  DispositionTypes = {"use_as_is", "rework", "scrap"}
  Gauges = {g1}
  ValidGauges = {g1}
  Readings = {0, 1}
  Lower = 0
  Upper = 0
SYMMETRY Instances
INVARIANTS SerialOnce SerialSound HoldUntilDecided
PROPERTY HeldSerialStays
CHECK_DEADLOCK FALSE
