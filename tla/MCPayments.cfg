SPECIFICATION Spec
CONSTANTS
  Orders = {o1}
  Payments = {p1, p2}
  ProviderOrders = {r1, r2}
  Workers = {w1, w2}
  MaxWidgets = 2
  MAX_ATTEMPTS = 2
  MaxTxErrors = 0
  Mismatched = {p2}
  LateAuthorization = FALSE
  o1 = o1
  o2 = o2
  CreatedAt <- Ages
  BATCH_SIZE = 1
  AdminTargets = {"PAID"}
  None = None
SYMMETRY Symmetry
INVARIANTS
  TypeOK
  PaidIsCapturedOnce
  ReceiptIffCaptured
  AttemptsOnBoundOrder
  ProcessedCaptureIsRecorded
PROPERTIES
  CapturedForGood
  KeepsLedger
CHECK_DEADLOCK FALSE
