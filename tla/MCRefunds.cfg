SPECIFICATION Spec
CONSTANTS
  Orders = {o1}
  ProviderRefunds = {r1, r2}
  Workers = {w1, w2}
  MaxRefunds = 2
  CapturedAmount = 2
  MAX_ATTEMPTS = 2
  AdminTargets = {"CONFIRMED"}
  None = None
SYMMETRY Symmetry
INVARIANTS
  TypeOK
  InAppWithinCaptured
  AppliedMeansSettled
  CancelledIsOwed
PROPERTY
  KeepsBook
CHECK_DEADLOCK FALSE
