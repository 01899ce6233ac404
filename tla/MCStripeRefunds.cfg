CONSTANTS
  o1 = o1
  o2 = o2
  c1 = c1
  w1 = w1
  w2 = w2
  NoCard = NoCard
  Orders = {o1}
  Digital = {o1}
  Manual = {}
  Total <- MCTotalOne
  Cards = {c1}
  Balance <- MCBalancePart
  StripeMinimum = 1
  MaxIntents = 2
  Workers = {w1, w2}
  MaxCrashes = 1
  MaxPublishFails = 1
  RefundAmounts = {1}
SPECIFICATION PlainSpec
INVARIANT RefundNeverAhead
INVARIANT OneHandlerPerEvent
 
CHECK_DEADLOCK FALSE
