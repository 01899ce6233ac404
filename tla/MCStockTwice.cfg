CONSTANTS
  s1 = s1
  s2 = s2
  n1 = n1
  n2 = n2
  r1 = r1
  r2 = r2
  w1 = w1
  w2 = w2
  mug = mug
  tray = tray
  b1 = b1
  b2 = b2
  Keep = Keep
  Shops = {s1, s2}
  Parcels = {n1}
  Requests = {r1}
  Operations <- NoCarrier
  AdminStatuses = {"PENDING_PAYMENT", "CONFIRMED", "IN_PRODUCTION", "DELIVERED", "CANCELLED", "DISPUTED"}
  OnlinePaymentsEnabled = FALSE
  Attempts = 3
  MaxRequests = 1
  MaxFaults = 0
  MaxThreads = 2
  MaxPosts = 2
  Callers = {w1, w2}
  Products = {mug, tray}
  Untracked = {}
  Threshold <- MCThreshold
  Baskets = {b1, b2}
  Lines <- MCLines
  Pickers = {w1, w2}
  StockAttempts = 2
  StockStalls = 1
  Quantities = {2}
  MaxStockFaults = 1
  MaxStockEdits = 1
SPECIFICATION DeskSpec
INVARIANT TakenOnce
CHECK_DEADLOCK FALSE
