CONSTANTS
  s1 = s1
  s2 = s2
  n1 = n1
  n2 = n2
  r1 = r1
  r2 = r2
  Keep = Keep
  Shops = {s1, s2}
  Parcels = {n1}
  Requests = {r1, r2}
  Operations = {"moveOrders"}
  AdminStatuses = {}
  OnlinePaymentsEnabled = FALSE
  Attempts = 3
  MaxRequests = 2
  MaxFaults = 0
SPECIFICATION Spec
INVARIANT FollowsLeastAdvanced
CHECK_DEADLOCK FALSE
