SPECIFICATION Spec
CONSTANTS
  Null = Null
  Activities = {a1}
  Members = {u1}
  Clients = {c1}
  Workers = {w1}
  Schedules <- MCShortSchedule
  LeadTime = 2
  ResponseTimeout = 1
  SweepLimit = 1
  Faults = {}
  MaxTime = 3
  MaxVersion = 3
PROPERTY
  NoPrematureOverdue
