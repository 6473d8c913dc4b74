SPECIFICATION SubSpec
CONSTANTS
  Tasks = {t1, t2}
  Cap = 1
  Subscriptions = {w1}
  NoSub = NoSub
  Requests = {q1, q2}
  MaxPerBond = 1
  DisableAfter = 1
  Grace = 1
  MaxTime = 1
  MaxSecrets = 2
SYMMETRY Symmetry
INVARIANTS
  SlotsAddUp
  NobodyWaitsInVain
  RotationIsGraceful
PROPERTIES
  NeverDisabledEarly
CHECK_DEADLOCK FALSE
