SPECIFICATION MCSpec
CONSTANTS
  b1 = b1
  t1 = t1
  d1 = d1
  d2 = d2
  c1 = c1
  c2 = c2
  c3 = c3
  w1 = w1
  Clients = {c1, c2, c3}
  Revisions = {b1, t1, d1, d2}
  Kind <- MCKind
  Batches <- MCBatches
  Quals <- MCQuals
  Works = {w1}
  LevelMin = 1
  RequiredLevel = 2
  Hour = 2
  Fresh = 1
  Skew = 0
  RawKeep = 1
  AggregateKeep = 2
  MaxClock = 4
SYMMETRY Sessions
INVARIANTS DeletedWasCounted ActiveGenerationComplete OneEffective
PROPERTY ReleasedEffective
CHECK_DEADLOCK FALSE
