CONSTANTS
  s1 = s1
  s2 = s2
  n1 = n1
  n2 = n2
  r1 = r1
  r2 = r2
  Keep = Keep
  Shops = {s1, s2}
  Parcels = {n1}
  Requests = {r1, r2}
  Operations <- EveryOperation
  AdminStatuses = {"CONFIRMED", "DELIVERED"}
  OnlinePaymentsEnabled = TRUE
  Attempts = 2
  MaxRequests = 2
  MaxFaults = 1
SPECIFICATION FairSpec
INVARIANT CreditsBounded
INVARIANT NoShopMissed
INVARIANT PushedOnce
PROPERTY CancelsWhole
PROPERTY EveryShopTold
CHECK_DEADLOCK FALSE
