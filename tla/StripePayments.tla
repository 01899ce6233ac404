--------------------------- MODULE StripePayments ---------------------------
(***************************************************************************)
(* Paying for an order by card, by gift card or by both, cancelling it and *)
(* refunding it: PaymentsService, the Stripe webhook it answers, and       *)
(* OrdersService.cancelOrder / adminCancelOrder.                           *)
(*                                                                         *)
(* Every await of a handler is a point where another request may run.  A   *)
(* handler is therefore a job that a Worker (one request in flight of any  *)
(* API process) carries from one step to the next: what it read from the   *)
(* database before the await travels in the job, and the database may have *)
(* moved on when the job's next step runs.  A prisma.$transaction is one   *)
(* step.  Crash loses the job, and with it every local of the handler.     *)
(*                                                                         *)
(* Amounts are whole units of money.  Not in the model: the StoreOrder     *)
(* rows of an order (StoreOrders has them), order history rows, the cart   *)
(* the webhook empties, timestamps other than the cancellation and refund  *)
(* windows (either may be open or closed).                                 *)
(***************************************************************************)
EXTENDS Integers, Sequences, FiniteSets, Functions

CONSTANTS
  Orders,         \* orders that left checkout
  Digital,        \* the orders with nothing to ship (Order.isDigital)
  Manual,         \* orders placed while ONLINE_PAYMENTS_ENABLED was off
  Total,          \* Total[o]: Order.total
  Cards,          \* gift cards
  NoCard,         \* "no gift card code in the request"
  Balance,        \* Balance[c]: GiftCard.initialValue
  StripeMinimum,  \* the smallest amount Stripe charges ($0.50)
  MaxIntents,     \* bound: PaymentIntents ever created
  Workers,        \* bound: requests in flight at once
  MaxCrashes,     \* bound: handlers killed half way
  MaxPublishFails,\* bound: eventBus.publish calls that throw
  RefundAmounts   \* bound: amounts an admin asks to refund

ASSUME OrdersAssumption ==
  /\ Digital \subseteq Orders
  /\ Manual \subseteq Orders
  /\ IsFiniteSet(Orders)
  /\ Total \in [Orders -> Nat \ {0}]

ASSUME CardsAssumption ==
  /\ NoCard \notin Cards
  /\ Balance \in [Cards -> Nat]
  /\ StripeMinimum \in Nat \ {0}

ASSUME BoundsAssumption ==
  /\ MaxIntents \in Nat
  /\ MaxCrashes \in Nat
  /\ MaxPublishFails \in Nat
  /\ RefundAmounts \subseteq Nat \ {0}

VARIABLES
  order,          \* Order.status
  pay,            \* the Payment row; status "NONE" when there is no row
  balance,        \* GiftCard.balance
  usage,          \* usage[c][o]: sum of the GiftCardUsage rows
  intents,        \* Stripe: number of PaymentIntents created
  intent,         \* Stripe: the PaymentIntents 1 .. intents
  raised,         \* Stripe: webhook events raised
  acked,          \* Stripe: events some delivery of which was answered 200
  lock,           \* Redis: events whose idempotency key is set
  worker,         \* the job each worker carries
  published,      \* orders whose ORDER_PAID event is on the bus
  refundedAt,     \* refundedAt[o]: money Stripe gave back for the order
  crashed,        \* history: of each handler killed, the event it had, if any
  publishFails

rows == <<order, pay, balance, usage>>
stripe == <<intents, intent, raised, acked, refundedAt>>
vars == <<rows, stripe, lock, worker, published, crashed, publishFails>>

-----------------------------------------------------------------------------

\* No intent: a Payment row of a gift card, or of no payment at all.
NoIntent == 0
Intents == 1 .. MaxIntents
CardOrNone == Cards \cup {NoCard}

OrderStatus == {"PENDING_PAYMENT", "CONFIRMED", "COMPLETED", "CANCELLED",
                "REFUNDED"}

PaymentStatus == {"NONE", "PENDING", "PAID", "FAILED", "REFUNDED",
                  "PARTIALLY_REFUNDED"}

Payment == [status : PaymentStatus, intent : Intents \cup {NoIntent},
            card : CardOrNone, gift : Nat, refunded : Nat]

NoPayment == [status |-> "NONE", intent |-> NoIntent, card |-> NoCard,
              gift |-> 0, refunded |-> 0]

\* secret: the client gets the intent's client secret with the answer.
PaymentIntent == [order : Orders, amount : Nat, refunded : Nat,
                  secret : {"withheld", "given"}, state : {"open", "charged"}]

\* total: what Stripe gave back on the charge so far (charge.refunded).
Event == [type : {"succeeded", "failed", "refunded"}, intent : Intents,
          total : Nat]

Idle == [op |-> "idle"]

UpsertJob == [op : {"upsert"}, order : Orders, intent : Intents,
              card : CardOrNone, gift : Nat]
GiftJob == [op : {"fulfil", "deduct"}, order : Orders, card : Cards,
            gift : Nat]
SucceededJob == [op : {"succeeded"}, order : Orders, event : Event,
                 card : CardOrNone, gift : Nat]
ChargeJob == [op : {"failed", "refunded"}, order : Orders, event : Event]
AckJob == [op : {"publishThenAck"}, order : Orders, event : Event]
OrderJob == [op : {"publish", "cancel"}, order : Orders]
RefundJob == [op : {"refundCall", "refundWrite"}, order : Orders,
              intent : Intents, already : Nat, amount : Nat]

Job == {Idle} \cup UpsertJob \cup GiftJob \cup SucceededJob \cup ChargeJob
         \cup AckJob \cup OrderJob \cup RefundJob

\* The jobs of the Stripe webhook.
HasEvent(j) == j.op \in {"succeeded", "failed", "refunded", "publishThenAck"}

TypeOK ==
  /\ order \in [Orders -> OrderStatus]
  /\ pay \in [Orders -> Payment]
  /\ balance \in [Cards -> Nat]
  /\ usage \in [Cards -> [Orders -> Nat]]
  /\ intents \in 0 .. MaxIntents
  /\ intent \in [1 .. intents -> PaymentIntent]
  /\ raised \subseteq Event
  /\ acked \subseteq Event
  /\ lock \subseteq Event
  /\ worker \in [Workers -> Job]
  /\ published \subseteq Orders
  /\ refundedAt \in [Orders -> Nat]
  /\ crashed \in Seq(SUBSET Event) /\ Len(crashed) <= MaxCrashes
  /\ publishFails \in 0 .. MaxPublishFails

Init ==
  /\ order = [o \in Orders |->
                IF o \in Manual THEN "CONFIRMED" ELSE "PENDING_PAYMENT"]
  /\ pay = [o \in Orders |-> NoPayment]
  /\ balance = Balance
  /\ usage = [c \in Cards |-> [o \in Orders |-> 0]]
  /\ intents = 0
  /\ intent = << >>
  /\ raised = {} /\ acked = {} /\ lock = {}
  /\ worker = [w \in Workers |-> Idle]
  /\ published = {}
  /\ refundedAt = [o \in Orders |-> 0]
  /\ crashed = << >> /\ publishFails = 0

-----------------------------------------------------------------------------
(* Operators                                                               *)

\* createPaymentIntentForOrder's giftCardApplied.
GiftCardApplied(o, c) ==
  IF c = NoCard THEN 0
  ELSE IF balance[c] < Total[o] THEN balance[c] ELSE Total[o]

\* The status a payment gives its order: a digital order has nothing to ship.
ConfirmedStatus(o) == IF o \in Digital THEN "COMPLETED" ELSE "CONFIRMED"

\* Worker w goes on with job j.
Becomes(w, j) == worker' = [worker EXCEPT ![w] = j]

\* deductGiftCard: the balance check is in the UPDATE's WHERE clause.
CanDeduct(c, amount) == balance[c] >= amount

\* MUTANT of DeductGiftCard: one usage row per card and order.
DeductGiftCardUpserted(c, amount, o) ==
  /\ balance' = [balance EXCEPT ![c] = @ - amount]
  /\ usage' = [usage EXCEPT ![c][o] = amount]

DeductGiftCard(c, amount, o) ==
  /\ balance' = [balance EXCEPT ![c] = @ - amount]
  /\ usage' = [usage EXCEPT ![c][o] = @ + amount]

\* The Payment row after the upsert of job j: an update leaves the status
\* (and the refunds) of the row alone.
UpsertedRow(row, j) ==
  [status |-> IF row.status = "NONE" THEN "PENDING" ELSE row.status,
   intent |-> j.intent, card |-> j.card, gift |-> j.gift,
   refunded |-> row.refunded]

\* The Payment row fulfilWithGiftCard creates.
GiftCardRow(j) ==
  [status |-> "PAID", intent |-> NoIntent, card |-> j.card, gift |-> j.gift,
   refunded |-> 0]

\* The Payment row after Stripe gave back total of the order's amount.
Refunded(row, total, amount) ==
  [row EXCEPT !.refunded = total,
              !.status = IF total >= amount THEN "REFUNDED"
                                            ELSE "PARTIALLY_REFUNDED"]

\* The order whose Payment row names PaymentIntent i.
PaymentOf(i) == {o \in Orders : pay[o].intent = i}


\* The first check of onPaymentIntentSucceeded.
AlreadyProcessed(o) == pay[o].status = "PAID"

\* MUTANT of KeyFree: the key is set without NX.
KeyFreeAlways(e) == TRUE

\* The idempotency key of event e is free: SET ... NX succeeds.
KeyFree(e) == e \notin lock

\* MUTANT of DeductsCard: a confirmed payment leaves the card alone.
DeductsCardNever(j) == FALSE

\* A confirmed payment takes the gift card's part with it.
DeductsCard(j) == j.card # NoCard /\ j.gift > 0

\* MUTANT of NewRefundedTotal: the row is read again after the Stripe call.
NewRefundedTotalFresh(j) == pay[j.order].refunded + j.amount

\* createRefund's newRefundedTotal: what the row held when the handler read
\* it, plus this refund.
NewRefundedTotal(j) == j.already + j.amount

\* cancelOrder's guard: unpaid, or paid and inside the two-hour window
\* (windowOpen); hasPayment: the order has a Payment row.
MayCancel(status, hasPayment, windowOpen) ==
  \/ (status = "CONFIRMED" /\ hasPayment /\ windowOpen)
  \/ status = "PENDING_PAYMENT"

-----------------------------------------------------------------------------
(* createPaymentIntentForOrder                                             *)

\* Card (and gift card) pay the order: reads the order and the card, then
\* asks Stripe for a PaymentIntent of what the gift card does not cover.
CreatePaymentIntent(w, o, c) ==
  LET gift == GiftCardApplied(o, c)
      rest == Total[o] - gift
  IN
  /\ worker[w] = Idle
  /\ order[o] = "PENDING_PAYMENT"
  /\ c # NoCard => (balance[c] > 0 /\ rest >= StripeMinimum)
  /\ intents < MaxIntents
  /\ intents' = intents + 1
  /\ intent' = [i \in 1 .. intents + 1 |->
                  IF i = intents + 1
                  THEN [order |-> o, amount |-> rest, refunded |-> 0,
                        secret |-> "withheld", state |-> "open"]
                  ELSE intent[i]]
  /\ Becomes(w, [op |-> "upsert", order |-> o, intent |-> intents + 1,
                 card |-> c, gift |-> gift])
  /\ UNCHANGED <<rows, raised, acked, refundedAt, lock, published, crashed,
                 publishFails>>

\* ... upserts the Payment row, whatever it holds by now, and answers the
\* client with the intent's secret.
UpsertPayment(w) ==
  /\ worker[w].op = "upsert"
  /\ LET j == worker[w] IN
     /\ pay' = [pay EXCEPT ![j.order] = UpsertedRow(@, j)]
     /\ intent' = [intent EXCEPT ![j.intent].secret = "given"]
  /\ Becomes(w, Idle)
  /\ UNCHANGED <<order, balance, usage, intents, raised, acked,
                 refundedAt, lock, published, crashed, publishFails>>

\* What the card does not cover is below Stripe's minimum: the order counts
\* as covered by the gift card.
CreateIntentCoveredByCard(w, o, c) ==
  LET gift == GiftCardApplied(o, c) IN
  /\ worker[w] = Idle
  /\ order[o] = "PENDING_PAYMENT"
  /\ balance[c] > 0
  /\ Total[o] - gift < StripeMinimum
  /\ Becomes(w, [op |-> "fulfil", order |-> o, card |-> c, gift |-> gift])
  /\ UNCHANGED <<rows, stripe, lock, published, crashed, publishFails>>

-----------------------------------------------------------------------------
(* applyGiftCard, fulfilWithGiftCard                                       *)

ApplyGiftCard(w, o, c) ==
  /\ worker[w] = Idle
  /\ order[o] = "PENDING_PAYMENT"
  /\ Becomes(w, IF balance[c] >= Total[o]
                THEN [op |-> "fulfil", order |-> o, card |-> c,
                      gift |-> Total[o]]
                ELSE [op |-> "deduct", order |-> o, card |-> c,
                      gift |-> balance[c]])
  /\ UNCHANGED <<rows, stripe, lock, published, crashed, publishFails>>

\* The card covers part of the order: its balance is taken and the client is
\* told what remains.  The Payment row is not touched.
DeductPartially(w) ==
  /\ worker[w].op = "deduct"
  /\ LET j == worker[w] IN
     IF CanDeduct(j.card, j.gift)
     THEN DeductGiftCard(j.card, j.gift, j.order)
     ELSE UNCHANGED <<balance, usage>>
  /\ Becomes(w, Idle)
  /\ UNCHANGED <<order, pay, stripe, lock, published, crashed,
                 publishFails>>

\* fulfilWithGiftCard's transaction.  The INSERT of the Payment row fails
\* when the order has one (Payment.orderId is unique), the deduction when the
\* balance is gone: then nothing is written and the request fails.  The
\* order's status is not read again.
FulfilWithGiftCard(w) ==
  /\ worker[w].op = "fulfil"
  /\ LET j == worker[w] IN
     \/ /\ CanDeduct(j.card, j.gift)
        /\ pay[j.order].status = "NONE"
        /\ DeductGiftCard(j.card, j.gift, j.order)
        /\ pay' = [pay EXCEPT ![j.order] = GiftCardRow(j)]
        /\ order' = [order EXCEPT ![j.order] = ConfirmedStatus(j.order)]
        /\ Becomes(w, [op |-> "publish", order |-> j.order])
     \/ /\ ~ (CanDeduct(j.card, j.gift) /\ pay[j.order].status = "NONE")
        /\ Becomes(w, Idle)
        /\ UNCHANGED <<order, pay, balance, usage>>
  /\ UNCHANGED <<stripe, lock, published, crashed, publishFails>>

\* fulfilWithGiftCard publishes ORDER_PAID after the commit.
PublishGiftCardOrder(w) ==
  /\ worker[w].op = "publish"
  /\ published' = published \cup {worker[w].order}
  /\ Becomes(w, Idle)
  /\ UNCHANGED <<rows, stripe, lock, crashed, publishFails>>

-----------------------------------------------------------------------------
(* handleStripeWebhook                                                     *)

\* Stripe delivers an event until one delivery is answered 200.  A delivery
\* that finds the idempotency key set is answered 200 at once.
SkipDuplicate(w, e) ==
  /\ worker[w] = Idle
  /\ e \in raised \ acked
  /\ e \in lock
  /\ acked' = acked \cup {e}
  /\ UNCHANGED <<rows, intents, intent, raised, refundedAt, lock, worker,
                 published, crashed, publishFails>>

\* SET NX of the key, then the handler of the event's type reads the Payment
\* row of the intent.  With no row, or a succeeded event whose payment is
\* already PAID, it is done.
HandleStripeWebhook(w, e) ==
  /\ worker[w] = Idle
  /\ e \in raised \ acked
  /\ KeyFree(e)
  /\ lock' = lock \cup {e}
  /\ \/ /\ \A o \in PaymentOf(e.intent) :
             e.type = "succeeded" /\ AlreadyProcessed(o)
        /\ acked' = acked \cup {e}
        /\ UNCHANGED worker
     \/ \E o \in PaymentOf(e.intent) :
          /\ e.type = "succeeded"
          /\ ~ AlreadyProcessed(o)
          /\ Becomes(w, [op |-> "succeeded", event |-> e, order |-> o,
                         card |-> pay[o].card, gift |-> pay[o].gift])
          /\ UNCHANGED acked
     \/ \E o \in PaymentOf(e.intent) :
          /\ e.type \in {"failed", "refunded"}
          /\ Becomes(w, [op |-> e.type, event |-> e, order |-> o])
          /\ UNCHANGED acked
  /\ UNCHANGED <<rows, intents, intent, raised, refundedAt, published,
                 crashed, publishFails>>

\* The handler threw: the key is deleted and the delivery answered 500.
Fails(w) ==
  /\ lock' = lock \ {worker[w].event}
  /\ Becomes(w, Idle)

\* The handler returned: the key stays, the delivery is answered 200.
Succeeds(w) ==
  /\ acked' = acked \cup {worker[w].event}
  /\ Becomes(w, Idle)

\* onPaymentIntentSucceeded's transaction: payment, gift card and order move
\* together, or the card no longer covers its part and nothing does.
OnPaymentIntentSucceeded(w) ==
  /\ worker[w].op = "succeeded"
  /\ LET j == worker[w]
         o == j.order
     IN
     \/ /\ DeductsCard(j) => CanDeduct(j.card, j.gift)
        /\ pay' = [pay EXCEPT ![o].status = "PAID"]
        /\ IF DeductsCard(j)
           THEN DeductGiftCard(j.card, j.gift, o)
           ELSE UNCHANGED <<balance, usage>>
        /\ order' = [order EXCEPT ![o] = ConfirmedStatus(o)]
        /\ Becomes(w, [op |-> "publishThenAck", event |-> j.event,
                       order |-> o])
        /\ UNCHANGED lock
     \/ /\ DeductsCard(j) /\ ~ CanDeduct(j.card, j.gift)
        /\ Fails(w)
        /\ UNCHANGED <<order, pay, balance, usage>>
  /\ UNCHANGED <<stripe, published, crashed, publishFails>>

\* ... and then publishes ORDER_PAID.
PublishOrderPaid(w) ==
  /\ worker[w].op = "publishThenAck"
  /\ published' = published \cup {worker[w].order}
  /\ Succeeds(w)
  /\ UNCHANGED <<rows, intents, intent, raised, refundedAt, lock, crashed,
                 publishFails>>

\* eventBus.publish throws (Redis away): the caller's error path runs.
PublishThrows(w) ==
  /\ publishFails < MaxPublishFails
  /\ publishFails' = publishFails + 1
  /\ \/ /\ worker[w].op = "publishThenAck"
        /\ Fails(w)
     \/ /\ worker[w].op = "publish"
        /\ Becomes(w, Idle)
        /\ UNCHANGED lock
  /\ UNCHANGED <<rows, stripe, published, crashed>>

\* onPaymentIntentFailed: FAILED, whatever the row says by now.
OnPaymentIntentFailed(w) ==
  /\ worker[w].op = "failed"
  /\ pay' = [pay EXCEPT ![worker[w].order].status = "FAILED"]
  /\ Succeeds(w)
  /\ UNCHANGED <<order, balance, usage, intents, intent, raised,
                 refundedAt, lock, published, crashed, publishFails>>

\* onChargeRefunded: the Payment row takes Stripe's total; the order is not
\* touched.
OnChargeRefunded(w) ==
  /\ worker[w].op = "refunded"
  /\ LET j == worker[w] IN
     pay' = [pay EXCEPT ![j.order] = Refunded(@, j.event.total,
                                              Total[j.order])]
  /\ Succeeds(w)
  /\ UNCHANGED <<order, balance, usage, intents, intent, raised,
                 refundedAt, lock, published, crashed, publishFails>>

-----------------------------------------------------------------------------
(* cancelOrder, adminCancelOrder                                           *)

CancelOrder(w, o) ==
  /\ worker[w] = Idle
  /\ MayCancel(order[o], pay[o].status # "NONE", TRUE)
  /\ Becomes(w, [op |-> "cancel", order |-> o])
  /\ UNCHANGED <<rows, stripe, lock, published, crashed, publishFails>>

\* An admin may cancel in any status.  (An order that is cancelled already
\* only gets its shop rows repaired, which are not in this model.)
AdminCancelOrder(w, o) ==
  /\ worker[w] = Idle
  /\ order[o] # "CANCELLED"
  /\ Becomes(w, [op |-> "cancel", order |-> o])
  /\ UNCHANGED <<rows, stripe, lock, published, crashed, publishFails>>

\* The transaction both end in.  The status is not read again, and neither
\* the PaymentIntent nor the gift card is given back.
CancelTransaction(w) ==
  /\ worker[w].op = "cancel"
  /\ order' = [order EXCEPT ![worker[w].order] = "CANCELLED"]
  /\ Becomes(w, Idle)
  /\ UNCHANGED <<pay, balance, usage, stripe, lock, published, crashed,
                 publishFails>>

-----------------------------------------------------------------------------
(* createRefund                                                            *)

\* An admin refunds part of a payment, or (the default) all that is left.
CreateRefund(w, o, asked) ==
  LET left == Total[o] - pay[o].refunded IN
  /\ worker[w] = Idle
  /\ pay[o].status \in {"PAID", "PARTIALLY_REFUNDED"}
  /\ left > 0
  /\ asked \in RefundAmounts \cup {left}
  /\ asked <= left
  /\ pay[o].intent # NoIntent
  /\ Becomes(w, [op |-> "refundCall", order |-> o,
                 intent |-> pay[o].intent, already |-> pay[o].refunded,
                 amount |-> asked])
  /\ UNCHANGED <<rows, stripe, lock, published, crashed, publishFails>>

\* Stripe gives a back on intent i and raises charge.refunded.
StripeGivesBack(i, a) ==
  /\ intent[i].state = "charged"
  /\ intent[i].refunded + a <= intent[i].amount
  /\ intent' = [intent EXCEPT ![i].refunded = @ + a]
  /\ refundedAt' = [refundedAt EXCEPT ![intent[i].order] = @ + a]
  /\ raised' = raised \cup {[type |-> "refunded", intent |-> i,
                             total |-> intent[i].refunded + a]}

\* stripe.refunds.create: Stripe refuses what the charge does not cover.
CallStripeRefund(w) ==
  /\ worker[w].op = "refundCall"
  /\ LET j == worker[w] IN
     \/ /\ StripeGivesBack(j.intent, j.amount)
        /\ Becomes(w, [j EXCEPT !.op = "refundWrite"])
     \/ /\ \/ intent[j.intent].state # "charged"
           \/ intent[j.intent].refunded + j.amount > intent[j.intent].amount
        /\ Becomes(w, Idle)
        /\ UNCHANGED <<intent, refundedAt, raised>>
  /\ UNCHANGED <<rows, intents, acked, lock, published, crashed,
                 publishFails>>

\* The transaction after the Stripe call writes the total computed before it.
RefundTransaction(w) ==
  /\ worker[w].op = "refundWrite"
  /\ LET j == worker[w]
         total == NewRefundedTotal(j)
     IN
     /\ pay' = [pay EXCEPT ![j.order] = Refunded(@, total, Total[j.order])]
     /\ order' = IF total >= Total[j.order]
                 THEN [order EXCEPT ![j.order] = "REFUNDED"]
                 ELSE order
  /\ Becomes(w, Idle)
  /\ UNCHANGED <<balance, usage, stripe, lock, published, crashed,
                 publishFails>>

-----------------------------------------------------------------------------
(* Stripe, Redis and the processes                                         *)

\* The client confirms the intent whose secret it holds: charged ...
StripeCharges(i) ==
  /\ intent[i].secret = "given" /\ intent[i].state = "open"
  /\ intent' = [intent EXCEPT ![i].state = "charged"]
  /\ raised' = raised \cup {[type |-> "succeeded", intent |-> i, total |-> 0]}
  /\ UNCHANGED <<rows, intents, acked, refundedAt, lock, worker, published,
                 crashed, publishFails>>

\* ... or declined, and the client may try again.
StripeDeclines(i) ==
  /\ intent[i].secret = "given" /\ intent[i].state = "open"
  /\ raised' = raised \cup {[type |-> "failed", intent |-> i, total |-> 0]}
  /\ UNCHANGED <<rows, intents, intent, acked, refundedAt, lock, worker,
                 published, crashed, publishFails>>

\* A refund from the Stripe dashboard.
DashboardRefund(i, a) ==
  /\ StripeGivesBack(i, a)
  /\ UNCHANGED <<rows, intents, acked, lock, worker, published, crashed,
                 publishFails>>

\* Some worker handles event e.
Handling(e) == \E w \in Workers : HasEvent(worker[w]) /\ worker[w].event = e

\* A key lives WEBHOOK_IDEMPOTENCY_TTL (24 h), longer than any handler runs.
LockExpires(e) ==
  /\ e \in lock
  /\ ~ Handling(e)
  /\ lock' = lock \ {e}
  /\ UNCHANGED <<rows, stripe, worker, published, crashed, publishFails>>

\* The process dies: its job is gone, nothing else changes.
Crash(w) ==
  /\ worker[w] # Idle
  /\ Len(crashed) < MaxCrashes
  /\ crashed' = Append(crashed, {e \in lock : HasEvent(worker[w])
                                             /\ worker[w].event = e})
  /\ Becomes(w, Idle)
  /\ UNCHANGED <<rows, stripe, lock, published, publishFails>>

-----------------------------------------------------------------------------

Step(w) ==
  \/ UpsertPayment(w)
  \/ DeductPartially(w)
  \/ FulfilWithGiftCard(w)
  \/ PublishGiftCardOrder(w)
  \/ OnPaymentIntentSucceeded(w)
  \/ PublishOrderPaid(w)
  \/ OnPaymentIntentFailed(w)
  \/ OnChargeRefunded(w)
  \/ CancelTransaction(w)
  \/ CallStripeRefund(w)
  \/ RefundTransaction(w)

Request(w) ==
  \/ \E o \in Orders, c \in CardOrNone : CreatePaymentIntent(w, o, c)
  \/ \E o \in Orders, c \in Cards : CreateIntentCoveredByCard(w, o, c)
  \/ \E o \in Orders, c \in Cards : ApplyGiftCard(w, o, c)
  \/ \E e \in raised : SkipDuplicate(w, e)
  \/ \E e \in raised : HandleStripeWebhook(w, e)
  \/ \E o \in Orders : CancelOrder(w, o)
  \/ \E o \in Orders : AdminCancelOrder(w, o)
  \/ \E o \in Orders :
       \E a \in RefundAmounts \cup {Total[o] - pay[o].refunded} :
         CreateRefund(w, o, a)

Next ==
  \/ \E w \in Workers :
       Step(w) \/ Request(w) \/ PublishThrows(w) \/ Crash(w)
  \/ \E i \in 1 .. intents : StripeCharges(i) \/ StripeDeclines(i)
  \/ \E i \in 1 .. intents, a \in RefundAmounts : DashboardRefund(i, a)
  \/ \E e \in lock : LockExpires(e)

Spec == Init /\ [][Next]_vars

\* What the scheduling justifies.  A handler that runs goes on; Stripe keeps
\* delivering an event until a delivery is answered 200; a key expires.
Delivery(e) == \E w \in Workers : HandleStripeWebhook(w, e)

Fairness ==
  /\ \A w \in Workers : WF_vars(Step(w))
  /\ \A i \in Intents : \A t \in {"succeeded", "failed"} :
       LET e == [type |-> t, intent |-> i, total |-> 0] IN
       SF_vars(Delivery(e)) /\ WF_vars(LockExpires(e))

FairSpec == Spec /\ Fairness

-----------------------------------------------------------------------------
(* Properties                                                              *)

\* What the buyer paid for order o: a charged intent, gift card usage.
StripePaid(o) == {0} \cup {intent[i].amount : i \in
                   {k \in 1 .. intents : /\ intent[k].order = o
                                         /\ intent[k].state = "charged"}}
GiftPaid(o) == {0} \cup {usage[c][o] : c \in Cards}

Funded == {o \in Orders : \E a \in StripePaid(o), b \in GiftPaid(o) :
                              a + b > Total[o] - StripeMinimum}

\* No order is confirmed by a payment path, no payment is PAID and no
\* ORDER_PAID goes out before one charge and one gift card together hold the
\* order's total (short of less than Stripe's minimum): whatever order the
\* webhook, a replaced intent, a partial gift card and a cancellation run in.
PaidInFull == \A o \in Orders :
  \/ pay[o].status = "PAID"
  \/ o \in published
  \/ order[o] \in {"CONFIRMED", "COMPLETED"} /\ o \notin Manual
  => o \in Funded

\* The refunded amount on the Payment row never runs ahead of the money
\* Stripe gave back, though createRefund writes a total it read before the
\* Stripe call and charge.refunded events overwrite it in any order.
RefundNeverAhead == \A o \in Orders : pay[o].refunded <= refundedAt[o]

\* One event is never in two handlers at once: the Redis key excludes the
\* second delivery, even after a crash, an error or the key's expiry.
OneHandlerPerEvent == \A v, w \in Workers :
  /\ HasEvent(worker[v])
  /\ HasEvent(worker[w])
  /\ worker[v].event = worker[w].event
  => v = w

\* The inductive invariant behind these three: what the Payment rows, the
\* jobs in flight and Stripe's events promise each other.

\* Intent i, with gift taken off card, pays order o.
PaysFor(o, i, card, gift) ==
  /\ i \in 1 .. intents
  /\ intent[i].order = o
  /\ intent[i].amount + gift >= Total[o]
  /\ card = NoCard => gift = 0

RowsMatch == \A o \in Orders :
  pay[o].intent # NoIntent =>
    PaysFor(o, pay[o].intent, pay[o].card, pay[o].gift)

\* What a handler read before its last await still says enough.
JobMatches(j) ==
  /\ j.op = "upsert" => PaysFor(j.order, j.intent, j.card, j.gift)
  /\ j.op = "fulfil" => j.gift > Total[j.order] - StripeMinimum
  /\ j.op = "succeeded" =>
       /\ PaysFor(j.order, j.event.intent, j.card, j.gift)
       /\ intent[j.event.intent].state = "charged"
  /\ j.op = "refunded" => j.event.total <= refundedAt[j.order]
  /\ j.op \in {"publish", "publishThenAck"} => j.order \in Funded
  /\ j.op \in {"refundCall", "refundWrite"} =>
       j.intent \in 1 .. intents /\ intent[j.intent].order = j.order
  /\ j.op = "refundCall" => j.already <= refundedAt[j.order]
  /\ j.op = "refundWrite" => NewRefundedTotal(j) <= refundedAt[j.order]

JobsMatch == \A w \in Workers : JobMatches(worker[w])

EventsMatch == \A e \in raised :
  /\ e.intent \in 1 .. intents
  /\ e.type = "succeeded" => intent[e.intent].state = "charged"
  /\ e.type = "refunded" => e.total <= refundedAt[intent[e.intent].order]

RefundsMatch == \A i \in 1 .. intents :
  intent[i].refunded <= refundedAt[intent[i].order]

HandlersHoldKeys == \A w \in Workers :
  HasEvent(worker[w]) => worker[w].event \in lock

\* What the database, the handlers in flight, Stripe and Redis say of each
\* other after any number of interleaved requests, crashes and redeliveries.
Coherent ==
  /\ RowsMatch
  /\ JobsMatch
  /\ EventsMatch
  /\ RefundsMatch
  /\ HandlersHoldKeys
  /\ PaidInFull
  /\ RefundNeverAhead
  /\ OneHandlerPerEvent

\* Gift card money is conserved: what left the balance is in GiftCardUsage
\* rows, and it never was more than the card held.
GiftCardConserved == \A c \in Cards :
  /\ balance[c] >= 0
  /\ balance[c] + SumFunction(usage[c]) = Balance[c]

\* "process each event exactly once" (payments.service.ts,
\* handleStripeWebhook): a charge of the intent on the Payment row takes its
\* order out of PENDING_PAYMENT, however often Stripe has to deliver it and
\* whatever else throws or dies; but for two cases.  The handler that held
\* that very event was killed, and its key still answers for it; or the gift
\* card on the row was spent elsewhere, and deductGiftCard throws on every
\* delivery.
ChargedUnconfirmed(i) ==
  /\ i <= intents
  /\ intent[i].state = "charged"
  /\ pay[intent[i].order].intent = i
  /\ order[intent[i].order] = "PENDING_PAYMENT"

Killed(i) == \E n \in DOMAIN crashed : \E e \in crashed[n] :
               e.type = "succeeded" /\ e.intent = i

CardSpent(i) == LET row == pay[intent[i].order] IN
                DeductsCard(row) /\ ~ CanDeduct(row.card, row.gift)


\* A paid order's ORDER_PAID event goes out ("if the event cannot be queued
\* we want the webhook to fail so Stripe redelivers it").
PaidOrderAnnounced == \A o \in Orders :
  (pay[o].status = "PAID") ~> (o \in published)

=============================================================================
