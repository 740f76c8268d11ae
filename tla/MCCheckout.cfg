SPECIFICATION FairSpec
CONSTANTS
  u1 = u1
  u2 = u2
  k1 = k1
  k2 = k2
  k3 = k3
  i1 = i1
  i2 = i2
  i3 = i3
  Users = {u1, u2}
  Keys = {k1, k2, k3}
  Requests <- Sent
  Items = {i1, i2, i3}
  Owner <- Carts
  Workers = {w1, w2}
  MaxOrders = 3
  MaxPeriod = 2
  CouponLimits = {1, 2}
  PerUserLimit = 1
  PlanLimit = 2
  None = None
INVARIANTS
  TypeOK
  OneOrderPerKey
  ItemOrderedOnce
  OrderNumbersRunOn
  CouponPerUser
  UsageCountsOrders
PROPERTIES
  PlacesAtOnce
  CheckoutEnds
CHECK_DEADLOCK FALSE
