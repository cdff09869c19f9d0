SPECIFICATION MCSpec
CONSTANTS
  o1 = o1
  o2 = o2
  r1 = r1
  r2 = r2
  i1 = i1
  i2 = i2
  w1 = w1
  w2 = w2
  m1 = m1
  Orders = {o1, o2}
  Revs = {r1, r2}
  Current = r1
  Items = {i1, i2}
  Required = {i1}
  People = {w1, w2}
  Moves = {m1}
  LifeLimit = 2
  Interval = 2
  MaxTime = 6
  MaxUses = 3
  MaxCals = 3
INVARIANTS WorkProven WornToolBlocked OneOrderPerPeriod
CHECK_DEADLOCK FALSE
