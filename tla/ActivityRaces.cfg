SPECIFICATION Spec
CONSTANTS
  Null = Null
  Activities = {a1}
  Members = {u1, u2}
  Clients = {c1, c2}
  Workers = {w1}
  Schedules <- MCShortSchedule
  LeadTime = 2
  ResponseTimeout = 1
  SweepLimit = 1
  Faults = {}
  MaxTime = 2
  MaxVersion = 3
SYMMETRY MCSymmetry
INVARIANTS
  HistoryMatchesRow
  SnapshotsHold
  TimerCoverage
PROPERTIES
  ImplementsContract
