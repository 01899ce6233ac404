CONSTANTS
  o1 = o1
  o2 = o2
  c1 = c1
  c2 = c2
  w1 = w1
  w2 = w2
  NoCard = NoCard
  Orders = {o1, o2}
  Digital = {o2}
  Manual = {}
  Total <- MCTotalShared
  Cards = {c1, c2}
  Balance <- MCBalanceShared
  StripeMinimum = 2
  MaxIntents = 2
  Workers = {w1, w2}
  MaxCrashes = 1
  MaxPublishFails = 1
  RefundAmounts = {}
  k1 = k1
  k2 = k2
  n1 = n1
  NoConn = NoConn
  Printify = {k1}
  Merchize = {k2}
  Pushers = {w1, w2}
  Postmen = {n1}
  PushAttempts = 2
  MaxPrints = 2
  PushStalls = 1
  Tellers = {w1, w2}
  MaxPaypalOrders = 2
  Price = 2
  MaxRefunds = 1
  MaxMishaps = 1
SPECIFICATION OutsideSpec
CONSTRAINTS Focussed OnePrinter RefundOrMishap
SYMMETRY WorkerSymmetry
INVARIANTS
  PaidInFull GiftCardConserved
  NothingForgotten ReportedIsReal
  PaypalPaidIsCaptured ChargedByOne
CHECK_DEADLOCK FALSE
