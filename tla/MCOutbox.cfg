SPECIFICATION FairSpec
CONSTANTS
  Rows = {m1, m2, u1, n1}
  Workers = {w1, w2}
  MAX_ATTEMPTS = 2
  Unsupported = {u1}
  Unaddressed = {n1}
  MaxLost = 2
  MaxCrashes = 1
  None = None
INVARIANTS
  TypeOK
  ClaimedByOne
  DuplicatesHaveCauses
  MailsWithinBudget
PROPERTIES
  KeepsQueue
  OutboxSettles
CHECK_DEADLOCK FALSE
