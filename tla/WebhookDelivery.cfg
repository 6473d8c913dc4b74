SPECIFICATION FairSpec
CONSTANTS
  Null = Null
  Events = {"activity.done"}
  Subscriptions = {s1}
  Types = {"activity.done"}
  TypeOf <- MCTypeOf
  Asked <- MCAsked
  Pollers = {p1}
  Reconcilers = {r1}
  Handlers = {h1, h2}
  Clients = {c1}
  MaxAttempts = 2
  BatchLimit = 1
  Faults = {"refuse", "lose", "rollback", "error", "crash", "stall"}
  MaxUpsets = 1
  MaxRemovals = 1
INVARIANTS
  OneHandlerPerDelivery
  NoSubscriberSkipped
  AbandonedIsSettled
  AttemptsAccounted
PROPERTIES
  ImplementsDelivery
  DeliveriesSettle
