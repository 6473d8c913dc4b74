SPECIFICATION FairSpec
CONSTANTS
  Null = Null
  Expenses = {e1}
  People = {u1, u2, u3}
  Founders = {u1, u2}
  Terms = {t1, t2}
  Clients = {c1, c2}
  Workers = {w1}
  MaxEdits = 1
  MaxFailures = 1
INVARIANTS
  StoriesAgree
  VersionsNeverFall
  ApprovedByAnother
PROPERTIES
  TermsAreFrozen
  CancelledIsFinal
  StaleGetsReminder
