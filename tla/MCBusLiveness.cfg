CONSTANTS
  e1 = e1
  e2 = e2
  d1 = d1
  d2 = d2
  credit = credit
  mail = mail
  commission = commission
  orders = orders
  affiliate = affiliate
  events = events
  Event = "order.paid"
  Entities = {e1}
  Subscribers <- MCSubscribers3
  QueueOf <- MCQueueOf3
  KeepCompleted = 3
  KeepFailed = 3
  Dispatchers = {d1, d2}
  MaxPublishes = 2
  MaxFaults = 2
  Attempts = 2
  MaxStalls = 1
SPECIFICATION FairSpec
PROPERTY EveryoneServed
CHECK_DEADLOCK FALSE
