SPECIFICATION Spec
CONSTANTS
  Null = Null
  Activities = {a1}
  Members = {u1, u2}
  Clients = {c1}
  Workers = {w1}
  Schedules <- MCSchedules
  LeadTime = 2
  ResponseTimeout = 1
  SweepLimit = 1
  Faults = {"redis","crash"}
  MaxTime = 4
  MaxVersion = 3
SYMMETRY MCMemberSymmetry
INVARIANTS
  OriginMatchesHistory
  ColumnsMatchStatus
PROPERTIES
  SystemActsOnTime
