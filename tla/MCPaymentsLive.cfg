SPECIFICATION FairSpec
CONSTANTS
  Orders = {o1, o2}
  Payments = {p1}
  ProviderOrders = {r1, r2}
  Workers = {w1}
  MaxWidgets = 1
  MAX_ATTEMPTS = 2
  MaxTxErrors = 1
  Mismatched = {}
  LateAuthorization = FALSE
  o1 = o1
  o2 = o2
  CreatedAt <- Ages
  BATCH_SIZE = 1
  AdminTargets = {}
  None = None
PROPERTIES
  EventsSettle
  CapturedMoneyIsFound
CHECK_DEADLOCK FALSE
