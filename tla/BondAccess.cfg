SPECIFICATION Spec
CONSTANTS
  Newcomer = u3
  Users = {u1, u2, u3}
  NoUser = NoUser
  Children = {c1}
  NoChild = NoChild
  Admins = {a1, a2}
  Registered = {u1, u2}
  MaxRows = 2
  Sockets = {s1, s2}
  OwnerOf <- MCOwnerOf
  MaxFrames = 1
  MaxErrors = 1
SYMMETRY Symmetry
INVARIANTS
  OncePerSocket
  EveryTabHears
PROPERTIES
  GhostsAreFromHandshakes
  MembersStay
CHECK_DEADLOCK FALSE
