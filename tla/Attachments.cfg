SPECIFICATION Spec
CONSTANTS
  Users = {u1, u2}
  Members = {u1, u2}
  Admins = {u1}
  Requester = u1
  Ids = {i1, i2}
  NoId = NoId
  NoKey = NoKey
  ActivityKeys = {k1, k2}
  ExpenseKeys = {e1}
  Requests = {r1, r2}
  MaxCalls = 5
SYMMETRY Symmetry
INVARIANTS OwnDocumentsStand SettledRowHasFile
CHECK_DEADLOCK FALSE
