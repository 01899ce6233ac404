CONSTANTS
  o1 = o1
  o2 = o2
  c1 = c1
  w1 = w1
  w2 = w2
  NoCard = NoCard
  Orders = {o1}
  Digital = {}
  Manual = {}
  Total <- MCTotalOne
  Cards = {}
  Balance <- MCNoBalance
  StripeMinimum = 1
  MaxIntents = 1
  Workers = {w1}
  MaxCrashes = 0
  MaxPublishFails = 1
  RefundAmounts = {}
SPECIFICATION FairSpec
PROPERTY PaidOrderAnnounced
CHECK_DEADLOCK FALSE
