SPECIFICATION Spec
CONSTANTS
  Plans = {basic, pro}
  Workers = {w1, w2}
  Keys = {k1, k2}
  MAX_ATTEMPTS = 2
  MaxPeriod = 2
  MaxEvents = 1
  MaxFaults = 1
  None = None
INVARIANTS
  TypeOK
  PlanWasAccepted
  KeyCallsOnce
PROPERTIES
  FollowsStateMachine
  PeriodIsConfirmed
SYMMETRY Symmetry
CHECK_DEADLOCK FALSE
