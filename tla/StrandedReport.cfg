SPECIFICATION Spec
CONSTANTS
  e1 = e1
  e2 = e2
  Acts = {a1, a2}
  Exps = {e1, e2}
  Users = {u1, u2}
  Categories = {c1}
  NoCategory = NoCategory
  Amount <- MCAmount
  Window <- MCWindow
  MaxDay = 1
  DaysPerMonth = 1
  Months = 2
  ZoneShift = 0
  Reports = {p1}
  Workers = {w1, w2}
  MaxAttempts = 2
  MaxStalls = 1
  MaxWrites = 2
  LiveActs = {a1}
  LiveExps = {e1}
  QueueTakesId = FALSE
INVARIANTS StrandedOnlyByOutage

CHECK_DEADLOCK FALSE
