SPECIFICATION FairSpec
CONSTANTS
  Users = {u1, u2, u3}
  NoUser = NoUser
  Progenitors = {u1, u2}
  Creator = u1
  Requester = u2
  ActivityTypes = {"created", "cancelled"}
  ExpenseTypes = {"created", "approved"}
  Relays = {r1, r2}
  BatchLimit = 2
  Retention = 0
  Readers = {u1}
  Assignees = {u2}
  MaxEvents = 2
  MaxDay = 1
  MaxFaults = 1
INVARIANTS
  FramesHaveRows
  OneFramePerRow
PROPERTIES
  ImplementsInbox
  NobodyForgotten
  EventsDispatched
CHECK_DEADLOCK FALSE
