SPECIFICATION FairSpec
CONSTANTS
  Plans = {basic}
  Workers = {w1}
  Keys = {k1}
  MAX_ATTEMPTS = 2
  MaxPeriod = 1
  MaxEvents = 1
  MaxFaults = 0
  None = None
PROPERTY
  ScheduledCancellationIsApplied
CHECK_DEADLOCK FALSE
