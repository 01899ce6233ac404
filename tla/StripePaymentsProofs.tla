------------------------ MODULE StripePaymentsProofs ------------------------
(***************************************************************************)
(* What TLAPS proves of the payment paths, for any orders, cards, intents, *)
(* workers and amounts: types, that nothing is confirmed before it is paid *)
(* in full, that the refunds on record never exceed those made, that an    *)
(* event has one handler at a time, and that gift card money is neither    *)
(* made nor lost.                                                          *)
(*                                                                         *)
(* The argument is monotonicity: charges, usage of cards and refunded      *)
(* totals only grow, so what was true when a handler read it stays true.   *)
(* Coherent says what each row, event and job in flight carries; a step    *)
(* has to show only the facts it makes.                                    *)
(*                                                                         *)
(* For the cards: a deduction takes an amount off one balance and adds one *)
(* usage row of that amount, so that the balance and the sum of the card's *)
(* usage move by the same (the lemmas about sums are those of              *)
(* SumTheorems).                                                           *)
(***************************************************************************)
EXTENDS StripePayments, SumTheorems, TLAPS

-----------------------------------------------------------------------------
(* The jobs, the rows and the gift cards                                   *)

\* The op field tells the kinds of job apart.
LEMMA JobKinds ==
  ASSUME NEW j \in Job
  PROVE  /\ j.op = "upsert" => j \in UpsertJob
         /\ j.op \in {"fulfil", "deduct"} => j \in GiftJob
         /\ j.op = "succeeded" => j \in SucceededJob
         /\ j.op \in {"failed", "refunded"} => j \in ChargeJob
         /\ j.op = "publishThenAck" => j \in AckJob
         /\ j.op \in {"publish", "cancel"} => j \in OrderJob
         /\ j.op \in {"refundCall", "refundWrite"} => j \in RefundJob
         /\ HasEvent(j) => j \in SucceededJob \cup ChargeJob \cup AckJob
  BY DEF Job, Idle, UpsertJob, GiftJob, SucceededJob, ChargeJob, AckJob,
         OrderJob, RefundJob, HasEvent

\* Every kind of job is a job.
LEMMA JobsAreJobs ==
  /\ Idle \in Job
  /\ UpsertJob \cup GiftJob \cup SucceededJob \cup ChargeJob \cup AckJob
       \cup OrderJob \cup RefundJob \subseteq Job
  BY DEF Job

\* Giving a worker a job keeps the type of worker.
LEMMA BecomesType ==
  ASSUME worker \in [Workers -> Job], NEW w \in Workers, NEW j \in Job,
         Becomes(w, j)
  PROVE  worker' \in [Workers -> Job]
  BY DEF Becomes

\* A deduction the balance covers keeps the balance a natural number.
LEMMA DeductType ==
  ASSUME balance \in [Cards -> Nat], usage \in [Cards -> [Orders -> Nat]],
         NEW c \in Cards, NEW amount \in Nat, NEW o \in Orders,
         CanDeduct(c, amount), DeductGiftCard(c, amount, o)
  PROVE  /\ balance' \in [Cards -> Nat]
         /\ usage' \in [Cards -> [Orders -> Nat]]
  BY DEF CanDeduct, DeductGiftCard

\* Every way a handler rewrites a Payment row gives a Payment row.
LEMMA RowTypes ==
  ASSUME CardsAssumption, NEW row \in Payment
  PROVE  /\ \A t, a \in Nat : Refunded(row, t, a) \in Payment
         /\ \A j \in UpsertJob : UpsertedRow(row, j) \in Payment
         /\ \A j \in GiftJob : GiftCardRow(j) \in Payment
         /\ [row EXCEPT !.status = "PAID"] \in Payment
         /\ [row EXCEPT !.status = "FAILED"] \in Payment
  BY DEF Refunded, UpsertedRow, GiftCardRow, UpsertJob, GiftJob, Payment,
         PaymentStatus, NoIntent, CardOrNone, CardsAssumption

\* What the gift card covers is at most the order's total.
LEMMA GiftCardAppliedType ==
  ASSUME OrdersAssumption, balance \in [Cards -> Nat], NEW o \in Orders,
         NEW c \in CardOrNone
  PROVE  /\ GiftCardApplied(o, c) \in Nat
         /\ Total[o] - GiftCardApplied(o, c) \in Nat
         /\ c = NoCard => GiftCardApplied(o, c) = 0
  BY DEF GiftCardApplied, CardOrNone, OrdersAssumption

\* Stripe's refund keeps its records' types.
LEMMA StripeGivesBackType ==
  ASSUME TypeOK, NEW i \in 1 .. intents, NEW a \in Nat, StripeGivesBack(i, a)
  PROVE  /\ intent' \in [1 .. intents -> PaymentIntent]
         /\ refundedAt' \in [Orders -> Nat]
         /\ raised' \subseteq Event
<1>1. intents \in Nat /\ intents <= MaxIntents
  BY DEF TypeOK
<1>2. intent[i] \in PaymentIntent
  BY DEF TypeOK
<1>3. [intent[i] EXCEPT !.refunded = @ + a] \in PaymentIntent
  BY <1>2 DEF PaymentIntent
<1>4. intent' \in [1 .. intents -> PaymentIntent]
  BY <1>3 DEF StripeGivesBack, TypeOK
<1>5. refundedAt' \in [Orders -> Nat]
  BY <1>2 DEF StripeGivesBack, TypeOK, PaymentIntent
<1>6. [type |-> "refunded", intent |-> i, total |-> intent[i].refunded + a]
        \in Event
  BY <1>2, BoundsAssumption
  DEF Event, Intents, PaymentIntent, TypeOK, BoundsAssumption
<1> QED
  BY <1>4, <1>5, <1>6 DEF StripeGivesBack, TypeOK

-----------------------------------------------------------------------------
(* Type correctness                                                        *)

\* Requests only start a job; nothing of theirs but the job, the PaymentIntent
\* and the repaired shop rows is written.
LEMMA RequestType ==
  ASSUME TypeOK, NEW w \in Workers, Request(w)
  PROVE  TypeOK'
<1> USE OrdersAssumption, CardsAssumption, BoundsAssumption
<1>1. ASSUME NEW o \in Orders, NEW c \in CardOrNone,
             CreatePaymentIntent(w, o, c)
      PROVE  TypeOK'
  <2>1. /\ GiftCardApplied(o, c) \in Nat
        /\ Total[o] - GiftCardApplied(o, c) \in Nat
    BY GiftCardAppliedType DEF TypeOK
  <2>2. /\ intents' = intents + 1 /\ intents' \in 0 .. MaxIntents
        /\ intents + 1 \in Intents
    BY <1>1 DEF CreatePaymentIntent, TypeOK, BoundsAssumption, Intents
  <2>3. [op |-> "upsert", order |-> o, intent |-> intents + 1, card |-> c,
         gift |-> GiftCardApplied(o, c)] \in UpsertJob
    BY <2>1, <2>2 DEF UpsertJob
  <2>4. worker' \in [Workers -> Job]
    BY <1>1, <2>3, JobsAreJobs, BecomesType DEF CreatePaymentIntent, TypeOK
  <2>5. [order |-> o, amount |-> Total[o] - GiftCardApplied(o, c),
         refunded |-> 0, secret |-> "withheld", state |-> "open"] \in PaymentIntent
    BY <2>1 DEF PaymentIntent
  <2>6. intent' \in [1 .. intents + 1 -> PaymentIntent]
    BY <1>1, <2>5 DEF CreatePaymentIntent, TypeOK
  <2> QED
    BY <1>1, <2>2, <2>4, <2>6 DEF CreatePaymentIntent, TypeOK, rows
<1>2. ASSUME NEW o \in Orders, NEW c \in Cards,
             CreateIntentCoveredByCard(w, o, c)
      PROVE  TypeOK'
  <2>1. GiftCardApplied(o, c) \in Nat
    BY GiftCardAppliedType DEF TypeOK, CardOrNone
  <2>2. [op |-> "fulfil", order |-> o, card |-> c,
         gift |-> GiftCardApplied(o, c)] \in GiftJob
    BY <2>1 DEF GiftJob
  <2>3. worker' \in [Workers -> Job]
    BY <1>2, <2>2, JobsAreJobs, BecomesType
    DEF CreateIntentCoveredByCard, TypeOK
  <2> QED
    BY <1>2, <2>3 DEF CreateIntentCoveredByCard, TypeOK, rows, stripe
<1>3. ASSUME NEW o \in Orders, NEW c \in Cards, ApplyGiftCard(w, o, c)
      PROVE  TypeOK'
  <2>1. /\ [op |-> "fulfil", order |-> o, card |-> c, gift |-> Total[o]]
             \in GiftJob
        /\ [op |-> "deduct", order |-> o, card |-> c, gift |-> balance[c]]
             \in GiftJob
    BY DEF GiftJob, TypeOK, OrdersAssumption
  <2>2. worker' \in [Workers -> Job]
    BY <1>3, <2>1, JobsAreJobs, BecomesType DEF ApplyGiftCard, TypeOK
  <2> QED
    BY <1>3, <2>2 DEF ApplyGiftCard, TypeOK, rows, stripe
<1>4. ASSUME NEW e \in raised, SkipDuplicate(w, e)
      PROVE  TypeOK'
  BY <1>4 DEF SkipDuplicate, TypeOK, rows
<1>5. ASSUME NEW e \in raised, HandleStripeWebhook(w, e)
      PROVE  TypeOK'
  <2>1. ASSUME NEW o \in PaymentOf(e.intent)
        PROVE  /\ [op |-> "succeeded", event |-> e, order |-> o,
                   card |-> pay[o].card, gift |-> pay[o].gift] \in Job
               /\ e.type \in {"failed", "refunded"} =>
                    [op |-> e.type, event |-> e, order |-> o] \in Job
    <3>1. o \in Orders /\ pay[o] \in Payment /\ e \in Event
      BY DEF PaymentOf, TypeOK
    <3>2. [op |-> "succeeded", event |-> e, order |-> o,
           card |-> pay[o].card, gift |-> pay[o].gift] \in SucceededJob
      BY <3>1 DEF Payment, SucceededJob
    <3>3. e.type \in {"failed", "refunded"} =>
            [op |-> e.type, event |-> e, order |-> o] \in ChargeJob
      BY <3>1 DEF ChargeJob
    <3> QED
      BY <3>2, <3>3, JobsAreJobs
  <2>2. worker' \in [Workers -> Job]
    BY <1>5, <2>1, BecomesType DEF HandleStripeWebhook, TypeOK
  <2> QED
    BY <1>5, <2>2 DEF HandleStripeWebhook, TypeOK, rows
<1>6. ASSUME NEW o \in Orders, CancelOrder(w, o)
      PROVE  TypeOK'
  <2>1. [op |-> "cancel", order |-> o] \in OrderJob
    BY DEF OrderJob
  <2>2. worker' \in [Workers -> Job]
    BY <1>6, <2>1, JobsAreJobs, BecomesType DEF CancelOrder, TypeOK
  <2> QED
    BY <1>6, <2>2 DEF CancelOrder, TypeOK, rows, stripe
<1>7. ASSUME NEW o \in Orders, AdminCancelOrder(w, o)
      PROVE  TypeOK'
  <2>1. [op |-> "cancel", order |-> o] \in OrderJob
    BY DEF OrderJob
  <2>2. worker' \in [Workers -> Job]
    BY <1>7, <2>1, JobsAreJobs, BecomesType DEF AdminCancelOrder, TypeOK
  <2> QED
    BY <1>7, <2>2 DEF AdminCancelOrder, TypeOK, rows, stripe
<1>8. ASSUME NEW o \in Orders,
             NEW a \in RefundAmounts \cup {Total[o] - pay[o].refunded},
             CreateRefund(w, o, a)
      PROVE  TypeOK'
  <2>1. pay[o] \in Payment /\ Total[o] \in Nat
    BY DEF TypeOK, OrdersAssumption
  <2>2. /\ pay[o].intent \in Intents \cup {NoIntent}
        /\ pay[o].refunded \in Nat
    BY <2>1 DEF Payment
  <2>2a. pay[o].intent \in Intents
    BY <1>8, <2>2 DEF CreateRefund
  <2>2b. a \in Nat
    <3>1. Total[o] - pay[o].refunded \in Int
      BY <2>1, <2>2
    <3>2. Total[o] - pay[o].refunded > 0
      BY <1>8 DEF CreateRefund
    <3> QED
      BY <3>1, <3>2 DEF BoundsAssumption
  <2>3. [op |-> "refundCall", order |-> o, intent |-> pay[o].intent,
         already |-> pay[o].refunded, amount |-> a] \in RefundJob
    BY <2>2, <2>2a, <2>2b DEF RefundJob
  <2>4. worker' \in [Workers -> Job]
    BY <1>8, <2>3, JobsAreJobs, BecomesType DEF CreateRefund, TypeOK
  <2> QED
    BY <1>8, <2>4 DEF CreateRefund, TypeOK, rows, stripe
<1> QED
  BY <1>1, <1>2, <1>3, <1>4, <1>5, <1>6, <1>7, <1>8 DEF Request

\* The later steps of a handler use what its job carries.
LEMMA StepType ==
  ASSUME TypeOK, JobsMatch, NEW w \in Workers, Step(w)
  PROVE  TypeOK'
<1> USE OrdersAssumption, CardsAssumption, BoundsAssumption
<1>0. worker[w] \in Job
  BY DEF TypeOK
<1>1. CASE UpsertPayment(w)
  <2>1. worker[w] \in UpsertJob
    BY <1>0, <1>1, JobKinds DEF UpsertPayment
  <2>2. pay' \in [Orders -> Payment]
    BY <1>1, <2>1, RowTypes DEF UpsertPayment, TypeOK, UpsertJob
  <2>3. \A i \in 1 .. intents :
          [intent[i] EXCEPT !.secret = "given"] \in PaymentIntent
    BY DEF TypeOK, PaymentIntent
  <2>4. intent' \in [1 .. intents -> PaymentIntent]
    BY <1>1, <2>3 DEF UpsertPayment, TypeOK
  <2>5. worker' \in [Workers -> Job]
    BY <1>1, JobsAreJobs, BecomesType DEF UpsertPayment, TypeOK
  <2> QED
    BY <1>1, <2>2, <2>4, <2>5 DEF UpsertPayment, TypeOK
<1>2. CASE DeductPartially(w)
  <2>1. worker[w] \in GiftJob
    BY <1>0, <1>2, JobKinds DEF DeductPartially
  <2>2. /\ balance' \in [Cards -> Nat]
        /\ usage' \in [Cards -> [Orders -> Nat]]
    BY <1>2, <2>1, DeductType DEF DeductPartially, TypeOK, GiftJob
  <2>3. worker' \in [Workers -> Job]
    BY <1>2, JobsAreJobs, BecomesType DEF DeductPartially, TypeOK
  <2> QED
    BY <1>2, <2>2, <2>3 DEF DeductPartially, TypeOK, stripe
<1>3. CASE FulfilWithGiftCard(w)
  <2>1. worker[w] \in GiftJob
    BY <1>0, <1>3, JobKinds DEF FulfilWithGiftCard
  <2>2. /\ balance' \in [Cards -> Nat]
        /\ usage' \in [Cards -> [Orders -> Nat]]
    BY <1>3, <2>1, DeductType DEF FulfilWithGiftCard, TypeOK, GiftJob
  <2>3. pay' \in [Orders -> Payment]
    <3>1. GiftCardRow(worker[w]) \in Payment
      BY <2>1, RowTypes DEF GiftCardRow, Payment, GiftJob, PaymentStatus,
                            NoIntent, CardOrNone
    <3> QED
      BY <1>3, <3>1 DEF FulfilWithGiftCard, TypeOK
  <2>4. order' \in [Orders -> OrderStatus]
    BY <1>3, <2>1
    DEF FulfilWithGiftCard, TypeOK, ConfirmedStatus, OrderStatus
  <2>5. [op |-> "publish", order |-> worker[w].order] \in OrderJob
    BY <2>1 DEF GiftJob, OrderJob
  <2>6. worker' \in [Workers -> Job]
    BY <1>3, <2>5, JobsAreJobs, BecomesType DEF FulfilWithGiftCard, TypeOK
  <2> QED
    BY <1>3, <2>2, <2>3, <2>4, <2>6 DEF FulfilWithGiftCard, TypeOK, stripe
<1>4. CASE PublishGiftCardOrder(w)
  <2>1. worker[w] \in OrderJob
    BY <1>0, <1>4, JobKinds DEF PublishGiftCardOrder
  <2>2. worker' \in [Workers -> Job]
    BY <1>4, JobsAreJobs, BecomesType DEF PublishGiftCardOrder, TypeOK
  <2> QED
    BY <1>4, <2>1, <2>2
    DEF PublishGiftCardOrder, TypeOK, OrderJob, rows, stripe
<1>5. CASE OnPaymentIntentSucceeded(w)
  <2>1. worker[w] \in SucceededJob
    BY <1>0, <1>5, JobKinds DEF OnPaymentIntentSucceeded
  <2>2. /\ balance' \in [Cards -> Nat]
        /\ usage' \in [Cards -> [Orders -> Nat]]
    BY <1>5, <2>1, DeductType
    DEF OnPaymentIntentSucceeded, TypeOK, SucceededJob, DeductsCard,
        CardOrNone
  <2>3. pay' \in [Orders -> Payment]
    <3>1. /\ worker[w].order \in Orders
          /\ pay[worker[w].order] \in Payment
      BY <2>1 DEF SucceededJob, TypeOK
    <3>2. [pay[worker[w].order] EXCEPT !.status = "PAID"] \in Payment
      BY <3>1, RowTypes
    <3> QED
      BY <1>5, <3>1, <3>2 DEF OnPaymentIntentSucceeded, TypeOK
  <2>4. order' \in [Orders -> OrderStatus]
    BY <1>5, <2>1
    DEF OnPaymentIntentSucceeded, TypeOK, ConfirmedStatus, OrderStatus
  <2>5. [op |-> "publishThenAck", event |-> worker[w].event,
         order |-> worker[w].order] \in AckJob
    BY <2>1 DEF SucceededJob, AckJob
  <2>6. worker' \in [Workers -> Job] /\ lock' \subseteq Event
    BY <1>5, <2>5, JobsAreJobs, BecomesType
    DEF OnPaymentIntentSucceeded, Fails, TypeOK
  <2> QED
    BY <1>5, <2>2, <2>3, <2>4, <2>6
    DEF OnPaymentIntentSucceeded, TypeOK, stripe
<1>6. CASE PublishOrderPaid(w)
  <2>1. worker[w] \in AckJob
    BY <1>0, <1>6, JobKinds DEF PublishOrderPaid
  <2>2. worker' \in [Workers -> Job] /\ acked' \subseteq Event
    BY <1>6, <2>1, JobsAreJobs, BecomesType
    DEF PublishOrderPaid, Succeeds, TypeOK, AckJob
  <2> QED
    BY <1>6, <2>1, <2>2 DEF PublishOrderPaid, TypeOK, AckJob, rows
<1>7. CASE OnPaymentIntentFailed(w)
  <2>1. worker[w] \in ChargeJob
    BY <1>0, <1>7, JobKinds DEF OnPaymentIntentFailed
  <2>2. worker' \in [Workers -> Job] /\ acked' \subseteq Event
    BY <1>7, <2>1, JobsAreJobs, BecomesType
    DEF OnPaymentIntentFailed, Succeeds, TypeOK, ChargeJob
  <2>3. pay' \in [Orders -> Payment]
    BY <1>7, <2>1, RowTypes DEF OnPaymentIntentFailed, TypeOK, ChargeJob
  <2> QED
    BY <1>7, <2>2, <2>3 DEF OnPaymentIntentFailed, TypeOK
<1>8. CASE OnChargeRefunded(w)
  <2>1. worker[w] \in ChargeJob
    BY <1>0, <1>8, JobKinds DEF OnChargeRefunded
  <2>2. worker' \in [Workers -> Job] /\ acked' \subseteq Event
    BY <1>8, <2>1, JobsAreJobs, BecomesType
    DEF OnChargeRefunded, Succeeds, TypeOK, ChargeJob
  <2>3. pay' \in [Orders -> Payment]
    <3>1. Refunded(pay[worker[w].order], worker[w].event.total,
                   Total[worker[w].order]) \in Payment
      BY <2>1, RowTypes DEF TypeOK, ChargeJob, Event, OrdersAssumption
    <3> QED
      BY <1>8, <3>1 DEF OnChargeRefunded, TypeOK
  <2> QED
    BY <1>8, <2>2, <2>3 DEF OnChargeRefunded, TypeOK
<1>9. CASE CancelTransaction(w)
  <2>1. worker' \in [Workers -> Job]
    BY <1>9, JobsAreJobs, BecomesType DEF CancelTransaction, TypeOK
  <2>2. order' \in [Orders -> OrderStatus]
    BY <1>9 DEF CancelTransaction, TypeOK, OrderStatus
  <2> QED
    BY <1>9, <2>1, <2>2 DEF CancelTransaction, TypeOK, stripe
<1>10. CASE CallStripeRefund(w)
  <2>1. worker[w] \in RefundJob
    BY <1>0, <1>10, JobKinds DEF CallStripeRefund
  <2>2. [worker[w] EXCEPT !.op = "refundWrite"] \in RefundJob
    BY <2>1 DEF RefundJob
  <2>3. worker' \in [Workers -> Job]
    BY <1>10, <2>2, JobsAreJobs, BecomesType DEF CallStripeRefund, TypeOK
  <2>4. /\ intent' \in [1 .. intents -> PaymentIntent]
        /\ refundedAt' \in [Orders -> Nat]
        /\ raised' \subseteq Event
    <3>1. worker[w].intent \in 1 .. intents /\ worker[w].amount \in Nat
      BY <1>10, <2>1 DEF RefundJob, JobsMatch, JobMatches, CallStripeRefund
    <3> QED
      BY <1>10, <3>1, StripeGivesBackType DEF CallStripeRefund, TypeOK
  <2> QED
    BY <1>10, <2>3, <2>4 DEF CallStripeRefund, TypeOK, rows
<1>11. CASE RefundTransaction(w)
  <2>1. worker[w] \in RefundJob
    BY <1>0, <1>11, JobKinds DEF RefundTransaction
  <2>2. worker' \in [Workers -> Job]
    BY <1>11, JobsAreJobs, BecomesType DEF RefundTransaction, TypeOK
  <2>3. pay' \in [Orders -> Payment]
    <3>1. /\ worker[w].order \in Orders
          /\ pay[worker[w].order] \in Payment
          /\ NewRefundedTotal(worker[w]) \in Nat
          /\ Total[worker[w].order] \in Nat
      BY <2>1 DEF RefundJob, TypeOK, NewRefundedTotal, OrdersAssumption
    <3>2. Refunded(pay[worker[w].order], NewRefundedTotal(worker[w]),
                   Total[worker[w].order]) \in Payment
      BY <3>1, RowTypes
    <3> QED
      BY <1>11, <3>2 DEF RefundTransaction, TypeOK
  <2>4. order' \in [Orders -> OrderStatus]
    BY <1>11 DEF RefundTransaction, TypeOK, OrderStatus
  <2> QED
    BY <1>11, <2>2, <2>3, <2>4 DEF RefundTransaction, TypeOK, stripe
<1> QED
  BY <1>1, <1>2, <1>3, <1>4, <1>5, <1>6, <1>7, <1>8, <1>9, <1>10, <1>11
  DEF Step

\* The initial state is well typed.
LEMMA InitType == Init => TypeOK
  BY JobsAreJobs, OrdersAssumption, CardsAssumption, BoundsAssumption
  DEF Init, TypeOK, OrderStatus, NoPayment, Payment, PaymentStatus, NoIntent,
      CardOrNone, PaymentIntent, CardsAssumption, BoundsAssumption

\* Every step keeps the types.  The refund a worker asks Stripe for must name
\* an intent that exists: that is JobsMatch.
LEMMA NextType ==
  ASSUME TypeOK, JobsMatch, [Next]_vars
  PROVE  TypeOK'
<1> USE OrdersAssumption, CardsAssumption, BoundsAssumption
<1>1. ASSUME NEW w \in Workers, Step(w) PROVE TypeOK'
  BY <1>1, StepType
<1>2. ASSUME NEW w \in Workers, Request(w) PROVE TypeOK'
  BY <1>2, RequestType
<1>3. ASSUME NEW w \in Workers, PublishThrows(w) PROVE TypeOK'
  <2>1. worker' \in [Workers -> Job] /\ lock' \subseteq Event
    BY <1>3, JobsAreJobs, BecomesType DEF PublishThrows, Fails, TypeOK
  <2>2. publishFails' \in 0 .. MaxPublishFails
    BY <1>3 DEF PublishThrows, TypeOK, BoundsAssumption
  <2> QED
    BY <1>3, <2>1, <2>2 DEF PublishThrows, TypeOK, rows, stripe
<1>4. ASSUME NEW w \in Workers, Crash(w) PROVE TypeOK'
  <2>1. worker' \in [Workers -> Job]
    BY <1>4, JobsAreJobs, BecomesType DEF Crash, TypeOK
  <2> DEFINE had == {e \in lock : HasEvent(worker[w]) /\ worker[w].event = e}
  <2>2. crashed \in Seq(SUBSET Event) /\ had \in SUBSET Event
    BY DEF TypeOK
  <2> HIDE DEF had
  <2>3. /\ Append(crashed, had) \in Seq(SUBSET Event)
        /\ Len(Append(crashed, had)) = Len(crashed) + 1
        /\ Len(crashed) \in Nat
    BY <2>2
  <2>4. crashed' = Append(crashed, had) /\ Len(crashed) < MaxCrashes
    BY <1>4 DEF Crash, had
  <2>5. crashed' \in Seq(SUBSET Event) /\ Len(crashed') <= MaxCrashes
    BY <2>3, <2>4, BoundsAssumption
  <2> QED
    BY <1>4, <2>1, <2>5 DEF Crash, TypeOK, rows, stripe
<1>5. ASSUME NEW i \in 1 .. intents, StripeCharges(i) PROVE TypeOK'
  <2>0. intent[i] \in PaymentIntent
    BY DEF TypeOK
  <2>1. [intent[i] EXCEPT !.state = "charged"] \in PaymentIntent
    BY <2>0 DEF PaymentIntent
  <2>2. intent' \in [1 .. intents -> PaymentIntent]
    BY <1>5, <2>1 DEF StripeCharges, TypeOK
  <2>3. [type |-> "succeeded", intent |-> i, total |-> 0] \in Event
    BY DEF Event, Intents, TypeOK, BoundsAssumption
  <2> QED
    BY <1>5, <2>2, <2>3 DEF StripeCharges, TypeOK, rows
<1>6. ASSUME NEW i \in 1 .. intents, StripeDeclines(i) PROVE TypeOK'
  <2>1. [type |-> "failed", intent |-> i, total |-> 0] \in Event
    BY DEF Event, Intents, TypeOK, BoundsAssumption
  <2> QED
    BY <1>6, <2>1 DEF StripeDeclines, TypeOK, rows
<1>7. ASSUME NEW i \in 1 .. intents, NEW a \in RefundAmounts,
             DashboardRefund(i, a)
      PROVE  TypeOK'
  <2>1. a \in Nat
    BY DEF BoundsAssumption
  <2> QED
    BY <1>7, <2>1, StripeGivesBackType DEF DashboardRefund, TypeOK, rows
<1>8. ASSUME NEW e \in lock, LockExpires(e) PROVE TypeOK'
  BY <1>8 DEF LockExpires, TypeOK, rows, stripe
<1>9. CASE UNCHANGED vars
  BY <1>9 DEF vars, TypeOK, rows, stripe
<1> QED
  BY <1>1, <1>2, <1>3, <1>4, <1>5, <1>6, <1>7, <1>8, <1>9 DEF Next

-----------------------------------------------------------------------------
(* What only grows                                                         *)

\* Intents are never forgotten or changed but for a charge, and neither the
\* money given back nor the gift card usage of an order shrinks.
Grows ==
  /\ intents <= intents'
  /\ \A i \in 1 .. intents :
       /\ intent'[i].order = intent[i].order
       /\ intent'[i].amount = intent[i].amount
       /\ intent[i].state = "charged" => intent'[i].state = "charged"
  /\ \A o \in Orders : refundedAt[o] <= refundedAt'[o]
  /\ \A c \in Cards, o \in Orders : usage[c][o] <= usage'[c][o]

\* Steps that leave Stripe and the gift cards alone.
LEMMA NothingGrows ==
  ASSUME TypeOK, UNCHANGED <<usage, intents, intent, refundedAt>>
  PROVE  Grows
  BY DEF TypeOK, Grows

\* Deducting from a gift card.
LEMMA DeductGrows ==
  ASSUME TypeOK, NEW c \in Cards, NEW a \in Nat, NEW o \in Orders,
         DeductGiftCard(c, a, o), UNCHANGED <<intents, intent, refundedAt>>
  PROVE  Grows
<1>1. \A d \in Cards, p \in Orders : usage[d][p] <= usage'[d][p]
  BY DEF TypeOK, DeductGiftCard
<1> QED
  BY <1>1 DEF TypeOK, Grows

\* Stripe giving money back.
LEMMA GiveBackGrows ==
  ASSUME TypeOK, NEW i \in 1 .. intents, NEW a \in Nat,
         StripeGivesBack(i, a), UNCHANGED <<intents, usage>>
  PROVE  Grows
<1>1. intent[i] \in PaymentIntent /\ intents \in Nat
  BY DEF TypeOK
<1>2. intent[i].order \in Orders
  BY <1>1 DEF PaymentIntent
<1>3. \A o \in Orders : refundedAt[o] <= refundedAt'[o]
  BY <1>2 DEF StripeGivesBack, TypeOK
<1>4. \A k \in 1 .. intents :
        /\ intent'[k].order = intent[k].order
        /\ intent'[k].amount = intent[k].amount
        /\ intent'[k].state = intent[k].state
  <2> TAKE k \in 1 .. intents
  <2>1. intent[k] \in PaymentIntent
    BY DEF TypeOK
  <2>2. intent'[k] = IF k = i THEN [intent[i] EXCEPT !.refunded = @ + a]
                              ELSE intent[k]
    BY DEF StripeGivesBack, TypeOK
  <2> QED
    BY <1>1, <2>1, <2>2 DEF PaymentIntent
<1>5. \A c \in Cards, o \in Orders : usage[c][o] <= usage'[c][o]
  BY DEF TypeOK
<1> QED
  BY <1>1, <1>3, <1>4, <1>5 DEF Grows

\* Giving an intent's secret to the client, or charging the intent.
LEMMA IntentGrows ==
  ASSUME TypeOK, NEW i \in Intents,
         \/ intent' = [intent EXCEPT ![i].secret = "given"]
         \/ intent' = [intent EXCEPT ![i].state = "charged"],
         UNCHANGED <<intents, usage, refundedAt>>
  PROVE  /\ Grows
         /\ \A k \in 1 .. intents : intent'[k].refunded = intent[k].refunded
<1>1. ASSUME NEW k \in 1 .. intents
      PROVE  /\ intent'[k].order = intent[k].order
             /\ intent'[k].amount = intent[k].amount
             /\ intent'[k].refunded = intent[k].refunded
             /\ intent[k].state = "charged" => intent'[k].state = "charged"
  <2>1. intent[k] \in PaymentIntent
    BY DEF TypeOK
  <2>2. \/ intent'[k] = [intent[k] EXCEPT !.secret = "given"]
        \/ intent'[k] = [intent[k] EXCEPT !.state = "charged"]
        \/ intent'[k] = intent[k]
    BY DEF TypeOK
  <2> QED
    BY <2>1, <2>2 DEF PaymentIntent
<1> QED
  BY <1>1 DEF Grows, TypeOK

\* An order that is paid for stays paid for.
LEMMA FundedGrows ==
  ASSUME TypeOK, TypeOK', Grows
  PROVE  Funded \subseteq Funded'
<1> USE OrdersAssumption, CardsAssumption
<1> SUFFICES ASSUME NEW o \in Orders,
                    NEW a \in StripePaid(o), NEW b \in GiftPaid(o),
                    a + b > Total[o] - StripeMinimum
             PROVE  o \in Funded'
  BY DEF Funded
<1>1. a \in StripePaid(o)'
  <2>1. CASE a = 0
    BY <2>1 DEF StripePaid
  <2>2. CASE \E k \in 1 .. intents : /\ intent[k].order = o
                                     /\ intent[k].state = "charged"
                                     /\ a = intent[k].amount
    <3>1. PICK k \in 1 .. intents : /\ intent[k].order = o
                                    /\ intent[k].state = "charged"
                                    /\ a = intent[k].amount
      BY <2>2
    <3>2. k \in 1 .. intents'
      BY DEF Grows, TypeOK
    <3>3. /\ intent'[k].order = o
          /\ intent'[k].state = "charged"
          /\ a = intent'[k].amount
      BY <3>1 DEF Grows
    <3> QED
      BY <3>2, <3>3 DEF StripePaid
  <2> QED
    BY <2>1, <2>2 DEF StripePaid
<1>2. \E c \in GiftPaid(o)' : b <= c /\ c \in Nat
  <2>1. CASE b = 0
    BY <2>1 DEF GiftPaid
  <2>2. CASE \E c \in Cards : b = usage[c][o]
    <3>1. PICK c \in Cards : b = usage[c][o]
      BY <2>2
    <3>2. b <= usage'[c][o] /\ usage'[c][o] \in Nat
      BY <3>1 DEF Grows, TypeOK
    <3> QED
      BY <3>2 DEF GiftPaid
  <2> QED
    BY <2>1, <2>2 DEF GiftPaid
<1>3. a \in Nat /\ b \in Nat
  BY DEF StripePaid, GiftPaid, TypeOK, PaymentIntent
<1>4. PICK c \in GiftPaid(o)' : b <= c /\ c \in Nat
  BY <1>2
<1>5. a + c > Total[o] - StripeMinimum
  BY <1>3, <1>4
<1> QED
  BY <1>1, <1>4, <1>5 DEF Funded

\* A deduction shows in the usage of the order.
LEMMA DeductShows ==
  ASSUME TypeOK, NEW c \in Cards, NEW a \in Nat, NEW o \in Orders,
         DeductGiftCard(c, a, o)
  PROVE  usage'[c][o] >= a
<1>1. usage[c][o] \in Nat
  BY DEF TypeOK
<1>2. usage'[c][o] = usage[c][o] + a
  BY DEF TypeOK, DeductGiftCard
<1> QED
  BY <1>1, <1>2

\* A charged intent and the gift card usage that goes with it pay the order.
LEMMA PaidByBoth ==
  ASSUME TypeOK', NEW o \in Orders, NEW i \in 1 .. intents',
         intent'[i].order = o, intent'[i].state = "charged",
         NEW b \in Nat, intent'[i].amount + b >= Total[o],
         b = 0 \/ \E c \in Cards : usage'[c][o] >= b
  PROVE  o \in Funded'
<1> USE OrdersAssumption, CardsAssumption
<1>1. intent'[i].amount \in StripePaid(o)' /\ intent'[i].amount \in Nat
  BY DEF StripePaid, TypeOK, PaymentIntent
<1>2. PICK d \in GiftPaid(o)' : d \in Nat /\ d >= b
  <2>1. CASE b = 0
    BY <2>1 DEF GiftPaid
  <2>2. CASE \E c \in Cards : usage'[c][o] >= b
    BY <2>2 DEF GiftPaid, TypeOK
  <2> QED
    BY <2>1, <2>2
<1>3. intent'[i].amount + d > Total[o] - StripeMinimum
  BY <1>1, <1>2
<1> QED
  BY <1>1, <1>2, <1>3 DEF Funded

\* A gift card that alone holds the total (short of less than the minimum).
LEMMA PaidByCard ==
  ASSUME TypeOK', NEW o \in Orders, NEW c \in Cards, NEW b \in Nat,
         usage'[c][o] >= b, b > Total[o] - StripeMinimum
  PROVE  o \in Funded'
<1> USE OrdersAssumption, CardsAssumption
<1>1. usage'[c][o] \in GiftPaid(o)' /\ usage'[c][o] \in Nat
  BY DEF GiftPaid, TypeOK
<1>2. 0 + usage'[c][o] > Total[o] - StripeMinimum /\ 0 \in StripePaid(o)'
  BY <1>1 DEF StripePaid
<1> QED
  BY <1>1, <1>2 DEF Funded

-----------------------------------------------------------------------------
(* Keeping each part of Coherent                                           *)

\* An idle worker's job promises nothing.
LEMMA IdleMatches == JobMatches(Idle)
  BY DEF JobMatches, Idle

\* What a job relies on only grows: a job that is kept keeps matching.
LEMMA JobKept ==
  ASSUME TypeOK, TypeOK', JobsMatch, Grows, NEW v \in Workers,
         worker'[v] = worker[v]
  PROVE  JobMatches(worker[v])'
<1>1. Funded \subseteq Funded'
  BY FundedGrows
<1>2. worker[v] \in Job
  BY DEF TypeOK
<1>3. JobMatches(worker[v])
  BY DEF JobsMatch
<1> DEFINE j0 == worker[v]
<1>4. PaysFor(j0.order, j0.intent, j0.card, j0.gift) =>
        PaysFor(j0.order, j0.intent, j0.card, j0.gift)'
  BY <1>2 DEF PaysFor, Grows, TypeOK
<1>5. PaysFor(j0.order, j0.event.intent, j0.card, j0.gift)
        /\ intent[j0.event.intent].state = "charged" =>
      /\ PaysFor(j0.order, j0.event.intent, j0.card, j0.gift)'
      /\ intent'[j0.event.intent].state = "charged"
  <2> DEFINE i0 == j0.event.intent
  <2> SUFFICES ASSUME PaysFor(j0.order, i0, j0.card, j0.gift),
                      intent[i0].state = "charged"
               PROVE  /\ PaysFor(j0.order, i0, j0.card, j0.gift)'
                      /\ intent'[i0].state = "charged"
    OBVIOUS
  <2>1. i0 \in 1 .. intents
    BY DEF PaysFor
  <2>2. /\ i0 \in 1 .. intents'
        /\ intent'[i0].order = intent[i0].order
        /\ intent'[i0].amount = intent[i0].amount
        /\ intent'[i0].state = "charged"
    BY <2>1 DEF Grows, TypeOK
  <2> QED
    BY <2>2 DEF PaysFor
<1>6. j0.op = "refunded" => j0.event.total <= refundedAt'[j0.order]
  <2> SUFFICES ASSUME j0.op = "refunded"
               PROVE  j0.event.total <= refundedAt'[j0.order]
    OBVIOUS
  <2>1. j0.order \in Orders /\ j0.event.total \in Nat
    BY <1>2, JobKinds DEF ChargeJob, Event
  <2>2. j0.event.total <= refundedAt[j0.order]
    BY <1>3 DEF JobMatches
  <2>3. refundedAt[j0.order] \in Nat /\ refundedAt'[j0.order] \in Nat
    BY <2>1 DEF TypeOK
  <2>4. refundedAt[j0.order] <= refundedAt'[j0.order]
    BY <2>1 DEF Grows
  <2> HIDE DEF j0
  <2> QED
    BY <2>1, <2>2, <2>3, <2>4
<1>7. j0.op \in {"refundCall", "refundWrite"} =>
        /\ j0.intent \in 1 .. intents' /\ intent'[j0.intent].order = j0.order
        /\ j0.op = "refundCall" => j0.already <= refundedAt'[j0.order]
        /\ j0.op = "refundWrite" =>
             NewRefundedTotal(j0) <= refundedAt'[j0.order]
  <2> SUFFICES ASSUME j0.op \in {"refundCall", "refundWrite"}
               PROVE  /\ j0.intent \in 1 .. intents'
                      /\ intent'[j0.intent].order = j0.order
                      /\ j0.op = "refundCall" =>
                           j0.already <= refundedAt'[j0.order]
                      /\ j0.op = "refundWrite" =>
                           NewRefundedTotal(j0) <= refundedAt'[j0.order]
    OBVIOUS
  <2>1. /\ j0.order \in Orders /\ j0.already \in Nat
        /\ NewRefundedTotal(j0) \in Nat
    BY <1>2, JobKinds DEF RefundJob, NewRefundedTotal
  <2>2. /\ j0.intent \in 1 .. intents /\ intent[j0.intent].order = j0.order
        /\ j0.op = "refundCall" => j0.already <= refundedAt[j0.order]
        /\ j0.op = "refundWrite" =>
             NewRefundedTotal(j0) <= refundedAt[j0.order]
    BY <1>3 DEF JobMatches
  <2>3. refundedAt[j0.order] \in Nat /\ refundedAt'[j0.order] \in Nat
    BY <2>1 DEF TypeOK
  <2>4. refundedAt[j0.order] <= refundedAt'[j0.order]
    BY <2>1 DEF Grows
  <2>5. j0.intent \in 1 .. intents' /\ intent'[j0.intent].order = j0.order
    BY <2>2 DEF Grows, TypeOK
  <2> HIDE DEF j0
  <2> QED
    BY <2>1, <2>2, <2>3, <2>4, <2>5
<1> QED
  BY <1>1, <1>2, <1>3, <1>4, <1>5, <1>6, <1>7
  DEF JobMatches, PaysFor, NewRefundedTotal

\* A worker's new job is all there is to check.
LEMMA JobsKept ==
  ASSUME TypeOK, TypeOK', JobsMatch, Grows, NEW w \in Workers, NEW j \in Job,
         Becomes(w, j), JobMatches(j)'
  PROVE  JobsMatch'
<1> SUFFICES ASSUME NEW v \in Workers
             PROVE  JobMatches(worker[v])'
  BY DEF JobsMatch
<1>1. CASE v = w
  <2>1. worker'[w] = j
    BY DEF Becomes, TypeOK
  <2> QED
    BY <1>1, <2>1 DEF JobMatches, PaysFor, NewRefundedTotal
<1>2. CASE v # w
  <2>1. worker'[v] = worker[v]
    BY <1>2 DEF Becomes, TypeOK
  <2> QED
    BY <2>1, JobKept
<1> QED
  BY <1>1, <1>2

\* With no worker moving, all jobs keep matching.
LEMMA JobsStillMatch ==
  ASSUME TypeOK, TypeOK', JobsMatch, Grows, UNCHANGED worker
  PROVE  JobsMatch'
  BY JobKept DEF JobsMatch

\* A worker that keeps its event, or ends up with none, keeps the Redis keys
\* in order.
LEMMA KeysKept ==
  ASSUME TypeOK, HandlersHoldKeys, OneHandlerPerEvent,
         NEW w \in Workers, NEW j \in Job, Becomes(w, j), UNCHANGED lock,
         HasEvent(j) => HasEvent(worker[w]) /\ j.event = worker[w].event
  PROVE  HandlersHoldKeys' /\ OneHandlerPerEvent'
  BY DEF TypeOK, HandlersHoldKeys, OneHandlerPerEvent, Becomes, HasEvent

\* A worker that takes an event takes a key nobody held.
LEMMA KeyTaken ==
  ASSUME TypeOK, HandlersHoldKeys, OneHandlerPerEvent,
         NEW w \in Workers, NEW j \in Job, Becomes(w, j), NEW e,
         e \notin lock, lock' = lock \cup {e},
         HasEvent(j) => j.event = e
  PROVE  HandlersHoldKeys' /\ OneHandlerPerEvent'
  BY DEF TypeOK, HandlersHoldKeys, OneHandlerPerEvent, Becomes, HasEvent

\* A worker that fails gives back its own key, which no other worker needs.
LEMMA KeyFreed ==
  ASSUME TypeOK, HandlersHoldKeys, OneHandlerPerEvent,
         NEW w \in Workers, HasEvent(worker[w]), Fails(w)
  PROVE  HandlersHoldKeys' /\ OneHandlerPerEvent'
  BY DEF TypeOK, HandlersHoldKeys, OneHandlerPerEvent, Fails, Becomes,
         HasEvent, Idle

\* Payment rows that keep their intent, card and gift keep matching it.
LEMMA RowsKept ==
  ASSUME TypeOK, TypeOK', RowsMatch, Grows,
         \A o \in Orders : /\ pay'[o].intent = pay[o].intent
                           /\ pay'[o].card = pay[o].card
                           /\ pay'[o].gift = pay[o].gift
  PROVE  RowsMatch'
<1> SUFFICES ASSUME NEW o \in Orders, pay'[o].intent # NoIntent
             PROVE  PaysFor(o, pay[o].intent, pay[o].card, pay[o].gift)'
  BY DEF RowsMatch
<1>1. PaysFor(o, pay[o].intent, pay[o].card, pay[o].gift)
  BY DEF RowsMatch
<1> QED
  BY <1>1 DEF PaysFor, Grows, TypeOK

\* Events already raised stay true.
LEMMA EventKept ==
  ASSUME TypeOK, TypeOK', EventsMatch, Grows, NEW e \in raised
  PROVE  /\ e.intent \in 1 .. intents'
         /\ e.type = "succeeded" => intent'[e.intent].state = "charged"
         /\ e.type = "refunded" =>
              e.total <= refundedAt'[intent'[e.intent].order]
<1>1. /\ e.intent \in 1 .. intents
      /\ e.type = "succeeded" => intent[e.intent].state = "charged"
      /\ e.type = "refunded" => e.total <= refundedAt[intent[e.intent].order]
  BY DEF EventsMatch
<1>2. /\ e.intent \in 1 .. intents'
      /\ e.type = "succeeded" => intent'[e.intent].state = "charged"
      /\ intent'[e.intent].order = intent[e.intent].order
  BY <1>1 DEF Grows, TypeOK
<1>3. /\ intent[e.intent].order \in Orders
      /\ e.total \in Nat
  BY <1>1 DEF TypeOK, PaymentIntent, Event
<1>4. /\ refundedAt[intent[e.intent].order] \in Nat
      /\ refundedAt'[intent[e.intent].order] \in Nat
      /\ refundedAt[intent[e.intent].order]
           <= refundedAt'[intent[e.intent].order]
  BY <1>3 DEF TypeOK, Grows
<1> QED
  BY <1>1, <1>2, <1>3, <1>4

\* No intent was refunded more than its order: nothing to show for an action
\* that leaves the refunds alone.
LEMMA RefundsKept ==
  ASSUME TypeOK, TypeOK', RefundsMatch, Grows, UNCHANGED <<intents, refundedAt>>,
         \A i \in 1 .. intents : intent'[i].refunded = intent[i].refunded
  PROVE  RefundsMatch'
  BY DEF RefundsMatch, Grows

\* PaidInFull only has to be checked where an order is newly called paid.
LEMMA PaidKept ==
  ASSUME TypeOK, TypeOK', PaidInFull, Grows, NEW p \in Orders,
         \A o \in Orders \ {p} : /\ pay'[o].status = pay[o].status
                                 /\ order'[o] = order[o]
                                 /\ o \in published' => o \in published,
         \/ p \in Funded'
         \/ /\ pay'[p].status = "PAID" => pay[p].status = "PAID"
            /\ order'[p] \in {"CONFIRMED", "COMPLETED"} => order'[p] = order[p]
            /\ p \in published' => p \in published
  PROVE  PaidInFull'
<1>1. Funded \subseteq Funded'
  BY FundedGrows
<1> QED
  BY <1>1 DEF PaidInFull

\* The refunds on the rows stay behind money given back that only grows.
LEMMA RefundsGrow ==
  ASSUME TypeOK, TypeOK', RefundNeverAhead, Grows, UNCHANGED pay
  PROVE  RefundNeverAhead'
<1> SUFFICES ASSUME NEW o \in Orders
             PROVE  pay'[o].refunded <= refundedAt'[o]
  BY DEF RefundNeverAhead
<1>1. /\ pay[o].refunded \in Nat /\ refundedAt[o] \in Nat
      /\ refundedAt'[o] \in Nat /\ pay'[o] = pay[o]
  BY DEF TypeOK, Payment
<1>2. pay[o].refunded <= refundedAt[o] /\ refundedAt[o] <= refundedAt'[o]
  BY DEF RefundNeverAhead, Grows
<1> QED
  BY <1>1, <1>2

\* Money given back on an intent is covered by what the order got back, and
\* the event says no more than that.
LEMMA GiveBackMatches ==
  ASSUME TypeOK, TypeOK', EventsMatch, RefundsMatch, Grows,
         NEW i \in 1 .. intents, NEW a \in Nat, StripeGivesBack(i, a),
         UNCHANGED intents
  PROVE  EventsMatch' /\ RefundsMatch'
<1> PICK o : o = intent[i].order
  OBVIOUS
<1>1. /\ intent[i] \in PaymentIntent /\ o \in Orders
      /\ intent[i].refunded \in Nat /\ refundedAt[o] \in Nat
  BY DEF TypeOK, PaymentIntent
<1>2. intent[i].refunded <= refundedAt[o]
  BY DEF RefundsMatch
<1>3. /\ refundedAt'[o] = refundedAt[o] + a
      /\ intent'[i] = [intent[i] EXCEPT !.refunded = @ + a]
      /\ \A k \in 1 .. intents \ {i} : intent'[k] = intent[k]
      /\ raised' = raised \cup {[type |-> "refunded", intent |-> i,
                                 total |-> intent[i].refunded + a]}
  BY <1>1 DEF StripeGivesBack, TypeOK
<1>4. intent'[i].refunded = intent[i].refunded + a /\ intent'[i].order = o
  BY <1>1, <1>3 DEF PaymentIntent
<1>4a. intent[i].refunded + a <= refundedAt'[o]
  BY <1>1, <1>2, <1>3
<1>5. RefundsMatch'
  <2> SUFFICES ASSUME NEW k \in 1 .. intents, k # i
               PROVE  intent'[k].refunded <= refundedAt'[intent'[k].order]
    BY <1>4, <1>4a DEF RefundsMatch
  <2>1. /\ intent'[k] = intent[k] /\ intent[k].order \in Orders
        /\ intent[k].refunded \in Nat
    BY <1>3 DEF TypeOK, PaymentIntent
  <2>2. /\ refundedAt[intent[k].order] \in Nat
        /\ refundedAt'[intent[k].order] \in Nat
        /\ refundedAt[intent[k].order] <= refundedAt'[intent[k].order]
    BY <2>1 DEF TypeOK, Grows
  <2>3. intent[k].refunded <= refundedAt[intent[k].order]
    BY DEF RefundsMatch
  <2> QED
    BY <2>1, <2>2, <2>3
<1>6. EventsMatch'
  <2> SUFFICES ASSUME NEW e \in raised', e \notin raised
               PROVE  /\ e.intent \in 1 .. intents'
                      /\ e.type # "succeeded"
                      /\ e.total <= refundedAt'[intent'[e.intent].order]
    BY EventKept DEF EventsMatch
  <2>1. e.intent = i /\ e.type = "refunded" /\
        e.total = intent[i].refunded + a
    BY <1>3 DEF TypeOK
  <2> QED
    BY <1>4, <1>4a, <2>1
<1> QED
  BY <1>5, <1>6

\* An action that leaves all rows and Stripe alone and gives one worker a
\* job that matches.
LEMMA OnlyJob ==
  ASSUME TypeOK, TypeOK', Coherent, NEW w \in Workers, NEW j \in Job,
         Becomes(w, j), JobMatches(j),
         UNCHANGED <<order, pay, usage, intents, intent, raised, refundedAt,
                     published>>,
         HandlersHoldKeys' /\ OneHandlerPerEvent'
  PROVE  Coherent'
<1>1. UNCHANGED Funded
  BY DEF Funded, StripePaid, GiftPaid
<1>2. JobMatches(j)'
  BY <1>1 DEF JobMatches, PaysFor, NewRefundedTotal
<1>3. Grows
  BY NothingGrows
<1>4. JobsMatch'
  BY <1>2, <1>3, JobsKept DEF Coherent
<1>5. RowsMatch' /\ EventsMatch' /\ RefundsMatch'
  BY DEF Coherent, RowsMatch, EventsMatch, RefundsMatch, PaysFor
<1>6. PaidInFull' /\ RefundNeverAhead'
  BY <1>1 DEF Coherent, PaidInFull, RefundNeverAhead
<1> QED
  BY <1>4, <1>5, <1>6 DEF Coherent

-----------------------------------------------------------------------------
(* Coherent is inductive                                                   *)

\* Requests: each but the creation of a PaymentIntent only starts a job.
LEMMA RequestCoherent ==
  ASSUME TypeOK, TypeOK', Coherent, NEW w \in Workers, Request(w)
  PROVE  Coherent'
<1> USE OrdersAssumption, CardsAssumption, BoundsAssumption
<1>0. HandlersHoldKeys /\ OneHandlerPerEvent
  BY DEF Coherent
<1>1. ASSUME NEW o \in Orders, NEW c \in CardOrNone,
             CreatePaymentIntent(w, o, c)
      PROVE  Coherent'
  <2> DEFINE gift == GiftCardApplied(o, c)
             rest == Total[o] - gift
             new == [order |-> o, amount |-> rest, refunded |-> 0,
                     secret |-> "withheld", state |-> "open"]
  <2>1. gift \in Nat /\ rest \in Nat /\ (c = NoCard => gift = 0)
    BY GiftCardAppliedType DEF TypeOK
  <2>2. PICK j : /\ j = [op |-> "upsert", order |-> o,
                         intent |-> intents + 1, card |-> c, gift |-> gift]
                 /\ Becomes(w, j)
    BY <1>1 DEF CreatePaymentIntent
  <2>3. j \in Job
    <3>1. intents + 1 \in Intents
      BY <1>1 DEF CreatePaymentIntent, TypeOK, Intents, BoundsAssumption
    <3> QED
      BY <2>1, <2>2, <3>1, JobsAreJobs DEF UpsertJob
  <2>4. /\ intents' = intents + 1 /\ intents \in Nat
        /\ \A i \in 1 .. intents : intent'[i] = intent[i]
        /\ intent'[intents + 1] = new
    BY <1>1 DEF CreatePaymentIntent, TypeOK
  <2>5. UNCHANGED <<order, pay, usage, raised, refundedAt, lock, published>>
    BY <1>1 DEF CreatePaymentIntent, rows
  <2>6. Grows
    BY <2>4, <2>5 DEF Grows, TypeOK
  <2>7. JobMatches(j)'
    <3>1. /\ j.op = "upsert" /\ j.order = o /\ j.intent = intents + 1
          /\ j.card = c /\ j.gift = gift
      BY <2>2
    <3>2. /\ j.intent \in 1 .. intents'
          /\ intent'[j.intent].order = j.order
          /\ intent'[j.intent].amount + j.gift >= Total[j.order]
          /\ j.card = NoCard => j.gift = 0
      BY <2>1, <2>4, <3>1 DEF OrdersAssumption
    <3>3. PaysFor(j.order, j.intent, j.card, j.gift)'
      BY <3>2 DEF PaysFor
    <3> QED
      BY <3>1, <3>3 DEF JobMatches
  <2>8. JobsMatch'
    BY <2>2, <2>3, <2>6, <2>7, JobsKept DEF Coherent
  <2>9. RowsMatch'
    BY <2>5, <2>6, RowsKept DEF Coherent
  <2>10. EventsMatch'
    BY <2>5, <2>6, EventKept DEF Coherent, EventsMatch
  <2>11. RefundsMatch'
    BY <2>1, <2>4, <2>5 DEF Coherent, RefundsMatch, TypeOK
  <2>12. PaidInFull'
    BY <2>5, <2>6, PaidKept DEF Coherent
  <2>13. RefundNeverAhead'
    BY <2>5 DEF Coherent, RefundNeverAhead
  <2>14. HandlersHoldKeys' /\ OneHandlerPerEvent'
    BY <1>0, <2>2, <2>3, <2>5, KeysKept DEF HasEvent
  <2> QED
    BY <2>8, <2>9, <2>10, <2>11, <2>12, <2>13, <2>14 DEF Coherent
<1>2. ASSUME NEW o \in Orders, NEW c \in Cards,
             CreateIntentCoveredByCard(w, o, c)
      PROVE  Coherent'
  <2>1. GiftCardApplied(o, c) \in Nat /\ Total[o] \in Nat
    BY GiftCardAppliedType DEF TypeOK, CardOrNone, OrdersAssumption
  <2>2. PICK j : /\ j = [op |-> "fulfil", order |-> o, card |-> c,
                         gift |-> GiftCardApplied(o, c)]
                 /\ Becomes(w, j)
    BY <1>2 DEF CreateIntentCoveredByCard
  <2>3. j \in Job
    BY <2>1, <2>2, JobsAreJobs DEF GiftJob
  <2>4. Total[o] - GiftCardApplied(o, c) < StripeMinimum
    BY <1>2 DEF CreateIntentCoveredByCard
  <2>5. GiftCardApplied(o, c) > Total[o] - StripeMinimum
    BY <2>1, <2>4 DEF CardsAssumption
  <2>6. JobMatches(j)
    BY <2>2, <2>5 DEF JobMatches
  <2>7. HandlersHoldKeys' /\ OneHandlerPerEvent'
    BY <1>0, <1>2, <2>2, <2>3, KeysKept
    DEF HasEvent, CreateIntentCoveredByCard
  <2> QED
    BY <1>2, <2>2, <2>3, <2>6, <2>7, OnlyJob
    DEF CreateIntentCoveredByCard, rows, stripe
<1>3. ASSUME NEW o \in Orders, NEW c \in Cards, ApplyGiftCard(w, o, c)
      PROVE  Coherent'
  <2>1. balance[c] \in Nat /\ Total[o] \in Nat
    BY DEF TypeOK, OrdersAssumption
  <2>2. PICK j : /\ j = (IF balance[c] >= Total[o]
                         THEN [op |-> "fulfil", order |-> o, card |-> c,
                               gift |-> Total[o]]
                         ELSE [op |-> "deduct", order |-> o, card |-> c,
                               gift |-> balance[c]])
                 /\ Becomes(w, j)
    BY <1>3 DEF ApplyGiftCard
  <2>3. j \in Job /\ ~ HasEvent(j)
    BY <2>1, <2>2, JobsAreJobs DEF GiftJob, HasEvent
  <2>4. JobMatches(j)
    BY <2>1, <2>2 DEF JobMatches, CardsAssumption
  <2>5. HandlersHoldKeys' /\ OneHandlerPerEvent'
    BY <1>0, <1>3, <2>2, <2>3, KeysKept DEF ApplyGiftCard
  <2> QED
    BY <1>3, <2>2, <2>3, <2>4, <2>5, OnlyJob DEF ApplyGiftCard, rows, stripe
<1>4. ASSUME NEW e \in raised, SkipDuplicate(w, e)
      PROVE  Coherent'
  BY <1>4
  DEF SkipDuplicate, rows, Coherent, RowsMatch, PaysFor, JobsMatch,
      JobMatches, Funded, StripePaid, GiftPaid, EventsMatch, RefundsMatch,
      HandlersHoldKeys, PaidInFull, RefundNeverAhead, OneHandlerPerEvent
<1>5. ASSUME NEW e \in raised, HandleStripeWebhook(w, e)
      PROVE  Coherent'
  <2>1. /\ e \notin lock /\ lock' = lock \cup {e} /\ worker[w] = Idle
        /\ UNCHANGED <<order, pay, usage, intents, intent, raised,
                       refundedAt, published>>
    BY <1>5 DEF HandleStripeWebhook, KeyFree, rows
  <2>2. ASSUME NEW j \in Job, Becomes(w, j), JobMatches(j),
               HasEvent(j) => j.event = e
        PROVE  Coherent'
    <3>1. HandlersHoldKeys' /\ OneHandlerPerEvent'
      BY <1>0, <2>1, <2>2, KeyTaken
    <3> QED
      BY <2>1, <2>2, <3>1, OnlyJob
  <2>3. CASE UNCHANGED worker
    <3>1. Becomes(w, Idle)
      BY <2>1, <2>3 DEF Becomes, TypeOK
    <3> QED
      BY <2>2, <3>1, IdleMatches, JobsAreJobs DEF Idle, HasEvent
  <2>4. ASSUME NEW o \in PaymentOf(e.intent), e.type = "succeeded",
               Becomes(w, [op |-> "succeeded", event |-> e, order |-> o,
                           card |-> pay[o].card, gift |-> pay[o].gift])
        PROVE  Coherent'
    <3>1. /\ o \in Orders /\ pay[o] \in Payment /\ e \in Event
          /\ pay[o].intent = e.intent /\ e.intent # NoIntent
      BY DEF PaymentOf, TypeOK, Event, Intents, NoIntent
    <3>2. PICK j : /\ j = [op |-> "succeeded", event |-> e, order |-> o,
                           card |-> pay[o].card, gift |-> pay[o].gift]
                   /\ Becomes(w, j)
      BY <2>4
    <3>3. j \in Job
      BY <3>1, <3>2, JobsAreJobs DEF Payment, SucceededJob
    <3>4. /\ PaysFor(o, e.intent, pay[o].card, pay[o].gift)
          /\ intent[e.intent].state = "charged"
      BY <2>4, <3>1 DEF Coherent, RowsMatch, EventsMatch
    <3>5. JobMatches(j) /\ j.event = e
      BY <3>2, <3>4 DEF JobMatches
    <3> QED
      BY <2>2, <3>2, <3>3, <3>5
  <2>5. ASSUME NEW o \in PaymentOf(e.intent),
               e.type \in {"failed", "refunded"},
               Becomes(w, [op |-> e.type, event |-> e, order |-> o])
        PROVE  Coherent'
    <3>1. /\ o \in Orders /\ e \in Event
          /\ pay[o].intent = e.intent /\ e.intent # NoIntent
      BY DEF PaymentOf, TypeOK, Event, Intents, NoIntent
    <3>2. PICK j : /\ j = [op |-> e.type, event |-> e, order |-> o]
                   /\ Becomes(w, j)
      BY <2>5
    <3>3. j \in Job
      BY <2>5, <3>1, <3>2, JobsAreJobs DEF ChargeJob
    <3>4. e.type = "refunded" => e.total <= refundedAt[o]
      BY <3>1 DEF Coherent, RowsMatch, EventsMatch, PaysFor
    <3>5. JobMatches(j) /\ j.event = e
      BY <2>5, <3>2, <3>4 DEF JobMatches
    <3> QED
      BY <2>2, <3>2, <3>3, <3>5
  <2> QED
    BY <1>5, <2>3, <2>4, <2>5 DEF HandleStripeWebhook
<1>6. ASSUME NEW o \in Orders, CancelOrder(w, o) \/ AdminCancelOrder(w, o)
      PROVE  Coherent'
  <2>1. PICK j : j = [op |-> "cancel", order |-> o] /\ Becomes(w, j)
    BY <1>6 DEF CancelOrder, AdminCancelOrder
  <2>2. j \in Job /\ ~ HasEvent(j) /\ JobMatches(j)
    BY <2>1, JobsAreJobs DEF OrderJob, HasEvent, JobMatches
  <2>3. UNCHANGED <<rows, stripe, lock, published>>
    BY <1>6 DEF CancelOrder, AdminCancelOrder
  <2>4. HandlersHoldKeys' /\ OneHandlerPerEvent'
    BY <1>0, <2>1, <2>2, <2>3, KeysKept
  <2> QED
    BY <2>1, <2>2, <2>3, <2>4, OnlyJob DEF rows, stripe
<1>7. ASSUME NEW o \in Orders,
             NEW a \in RefundAmounts \cup {Total[o] - pay[o].refunded},
             CreateRefund(w, o, a)
      PROVE  Coherent'
  <2>1. PICK j : /\ j = [op |-> "refundCall", order |-> o,
                         intent |-> pay[o].intent,
                         already |-> pay[o].refunded, amount |-> a]
                 /\ Becomes(w, j)
    BY <1>7 DEF CreateRefund
  <2>2. worker'[w] = j
    BY <2>1 DEF Becomes, TypeOK
  <2>3. j \in Job /\ ~ HasEvent(j)
    BY <2>1, <2>2 DEF TypeOK, HasEvent
  <2>4. /\ pay[o].intent \in 1 .. intents
        /\ intent[pay[o].intent].order = o
    BY <1>7 DEF CreateRefund, Coherent, RowsMatch, PaysFor
  <2>5. pay[o].refunded <= refundedAt[o]
    BY DEF Coherent, RefundNeverAhead
  <2>6. JobMatches(j)
    BY <2>1, <2>4, <2>5 DEF JobMatches
  <2>7. HandlersHoldKeys' /\ OneHandlerPerEvent'
    BY <1>0, <1>7, <2>1, <2>3, KeysKept DEF CreateRefund
  <2> QED
    BY <1>7, <2>1, <2>3, <2>6, <2>7, OnlyJob DEF CreateRefund, rows, stripe
<1> QED
  BY <1>1, <1>2, <1>3, <1>4, <1>5, <1>6, <1>7 DEF Request

\* The later steps of the handlers that write Payment rows.
LEMMA PaymentStepCoherent ==
  ASSUME TypeOK, TypeOK', Coherent, NEW w \in Workers,
         \/ UpsertPayment(w)
         \/ FulfilWithGiftCard(w)
         \/ OnPaymentIntentSucceeded(w)
         \/ OnPaymentIntentFailed(w)
         \/ OnChargeRefunded(w)
  PROVE  Coherent'
<1> USE OrdersAssumption, CardsAssumption, BoundsAssumption
<1>0. /\ HandlersHoldKeys /\ OneHandlerPerEvent /\ PaidInFull
      /\ RowsMatch /\ RefundsMatch /\ RefundNeverAhead /\ JobsMatch
      /\ EventsMatch
  BY DEF Coherent
<1> PICK j : j = worker[w]
  OBVIOUS
<1>j. j \in Job /\ JobMatches(j)
  BY <1>0 DEF TypeOK, JobsMatch
<1>i. Idle \in Job /\ ~ HasEvent(Idle) /\ JobMatches(Idle)'
  BY JobsAreJobs, IdleMatches DEF HasEvent, Idle, JobMatches
<1>1. CASE UpsertPayment(w)
  <2>1. j \in UpsertJob /\ PaysFor(j.order, j.intent, j.card, j.gift)
    BY <1>j, <1>1, JobKinds DEF UpsertPayment, JobMatches
  <2>2. /\ Becomes(w, Idle) /\ j.order \in Orders /\ j.intent \in Intents
        /\ pay' = [pay EXCEPT ![j.order] = UpsertedRow(@, j)]
        /\ intent' = [intent EXCEPT ![j.intent].secret = "given"]
        /\ UNCHANGED <<order, usage, intents, raised, refundedAt, lock,
                       published>>
    BY <1>1, <2>1 DEF UpsertPayment, UpsertJob
  <2>3. /\ Grows
        /\ \A k \in 1 .. intents : intent'[k].refunded = intent[k].refunded
    BY <2>2, IntentGrows
  <2>4. /\ pay'[j.order].intent = j.intent /\ pay'[j.order].card = j.card
        /\ pay'[j.order].gift = j.gift
        /\ pay'[j.order].refunded = pay[j.order].refunded
        /\ pay'[j.order].status = "PAID" => pay[j.order].status = "PAID"
        /\ \A o \in Orders \ {j.order} : pay'[o] = pay[o]
    BY <2>2 DEF UpsertedRow, TypeOK
  <2>5. RowsMatch'
    <3> SUFFICES ASSUME NEW o \in Orders, pay'[o].intent # NoIntent
                 PROVE  PaysFor(o, pay[o].intent, pay[o].card, pay[o].gift)'
      BY DEF RowsMatch
    <3>1. PaysFor(o, pay'[o].intent, pay'[o].card, pay'[o].gift)
      BY <1>0, <2>1, <2>4 DEF RowsMatch
    <3> QED
      BY <2>3, <3>1 DEF PaysFor, Grows, TypeOK
  <2>6. JobsMatch'
    BY <1>0, <1>i, <2>2, <2>3, JobsKept
  <2>7. EventsMatch' /\ RefundsMatch'
    BY <1>0, <2>2, <2>3, EventKept, RefundsKept DEF EventsMatch
  <2>8. PaidInFull'
    BY <1>0, <2>2, <2>3, <2>4, PaidKept
  <2>9. RefundNeverAhead'
    BY <1>0, <2>2, <2>4 DEF RefundNeverAhead
  <2>10. HandlersHoldKeys' /\ OneHandlerPerEvent'
    BY <1>0, <1>i, <2>2, KeysKept
  <2> QED
    BY <2>5, <2>6, <2>7, <2>8, <2>9, <2>10 DEF Coherent
<1>2. CASE FulfilWithGiftCard(w)
  <2>1. /\ j \in GiftJob /\ j.order \in Orders /\ j.card \in Cards
        /\ j.gift \in Nat /\ j.gift > Total[j.order] - StripeMinimum
    BY <1>j, <1>2, JobKinds DEF FulfilWithGiftCard, JobMatches, GiftJob
  <2>2. UNCHANGED <<intents, intent, raised, refundedAt, lock, published>>
    BY <1>2 DEF FulfilWithGiftCard, stripe
  <2>3. CASE /\ CanDeduct(j.card, j.gift)
             /\ DeductGiftCard(j.card, j.gift, j.order)
             /\ pay' = [pay EXCEPT ![j.order] = GiftCardRow(j)]
             /\ order' = [order EXCEPT ![j.order] = ConfirmedStatus(j.order)]
             /\ Becomes(w, [op |-> "publish", order |-> j.order])
    <3>1. Grows
      BY <2>1, <2>2, <2>3, DeductGrows
    <3>2. usage'[j.card][j.order] >= j.gift
      BY <2>1, <2>3, DeductShows
    <3>3. j.order \in Funded'
      BY <2>1, <3>2, PaidByCard
    <3>4. /\ pay'[j.order].intent = NoIntent /\ pay'[j.order].refunded = 0
          /\ \A o \in Orders \ {j.order} :
               pay'[o] = pay[o] /\ order'[o] = order[o]
      BY <2>1, <2>3 DEF GiftCardRow, TypeOK
    <3>5. RowsMatch'
      BY <1>0, <2>2, <3>4 DEF RowsMatch, PaysFor
    <3>6. PICK n : n = [op |-> "publish", order |-> j.order] /\ Becomes(w, n)
      BY <2>3
    <3>7. n \in Job /\ ~ HasEvent(n) /\ JobMatches(n)'
      BY <2>1, <3>3, <3>6, JobsAreJobs DEF OrderJob, HasEvent, JobMatches
    <3>8. JobsMatch'
      BY <1>0, <3>1, <3>6, <3>7, JobsKept
    <3>9. EventsMatch' /\ RefundsMatch'
      BY <1>0, <2>2 DEF EventsMatch, RefundsMatch
    <3>10. PaidInFull'
      BY <1>0, <2>1, <2>2, <3>1, <3>3, <3>4, PaidKept
    <3>11. RefundNeverAhead'
      <4>1. refundedAt'[j.order] \in Nat
        BY <2>1 DEF TypeOK
      <4> QED
        BY <1>0, <2>2, <3>4, <4>1 DEF RefundNeverAhead
    <3>12. HandlersHoldKeys' /\ OneHandlerPerEvent'
      BY <1>0, <2>2, <3>6, <3>7, KeysKept
    <3> QED
      BY <3>5, <3>8, <3>9, <3>10, <3>11, <3>12 DEF Coherent
  <2>4. CASE Becomes(w, Idle) /\ UNCHANGED <<order, pay, balance, usage>>
    <3>1. HandlersHoldKeys' /\ OneHandlerPerEvent'
      BY <1>0, <1>i, <2>2, <2>4, KeysKept
    <3> QED
      BY <1>i, <2>2, <2>4, <3>1, IdleMatches, OnlyJob
  <2> QED
    BY <1>2, <2>3, <2>4 DEF FulfilWithGiftCard
<1>3. CASE OnPaymentIntentSucceeded(w)
  <2>1. /\ j \in SucceededJob /\ j.order \in Orders /\ j.gift \in Nat
        /\ j.card \in CardOrNone
        /\ PaysFor(j.order, j.event.intent, j.card, j.gift)
        /\ intent[j.event.intent].state = "charged"
    BY <1>j, <1>3, JobKinds
    DEF OnPaymentIntentSucceeded, JobMatches, SucceededJob
  <2>2. UNCHANGED <<intents, intent, raised, refundedAt, published>>
    BY <1>3 DEF OnPaymentIntentSucceeded, stripe
  <2>3. CASE /\ pay' = [pay EXCEPT ![j.order].status = "PAID"]
             /\ IF DeductsCard(j)
                THEN DeductGiftCard(j.card, j.gift, j.order)
                ELSE UNCHANGED <<balance, usage>>
             /\ order' = [order EXCEPT ![j.order] = ConfirmedStatus(j.order)]
             /\ Becomes(w, [op |-> "publishThenAck", event |-> j.event,
                            order |-> j.order])
             /\ UNCHANGED lock
    <3>1. /\ Grows
          /\ j.gift = 0 \/ \E c \in Cards : usage'[c][j.order] >= j.gift
      <4>1. CASE DeductsCard(j)
        <5>1. j.card \in Cards /\ DeductGiftCard(j.card, j.gift, j.order)
          BY <2>1, <2>3, <4>1 DEF DeductsCard, CardOrNone
        <5>2. usage'[j.card][j.order] >= j.gift
          BY <2>1, <5>1, DeductShows
        <5> QED
          BY <2>1, <2>2, <5>1, <5>2, DeductGrows
      <4>2. CASE ~ DeductsCard(j)
        BY <2>1, <2>2, <2>3, <4>2, NothingGrows DEF DeductsCard, PaysFor
      <4> QED
        BY <4>1, <4>2
    <3>2. j.order \in Funded'
      <4>1. PICK i \in 1 .. intents' : i = j.event.intent
        BY <2>1, <2>2 DEF PaysFor
      <4>2. /\ intent'[i].order = j.order /\ intent'[i].state = "charged"
            /\ intent'[i].amount + j.gift >= Total[j.order]
        BY <2>1, <2>2, <4>1 DEF PaysFor
      <4> QED
        BY <2>1, <3>1, <4>1, <4>2, PaidByBoth
    <3>3. /\ pay'[j.order] = [pay[j.order] EXCEPT !.status = "PAID"]
          /\ \A o \in Orders \ {j.order} :
               pay'[o] = pay[o] /\ order'[o] = order[o]
      BY <2>1, <2>3 DEF TypeOK
    <3>4. \A o \in Orders : /\ pay'[o].intent = pay[o].intent
                            /\ pay'[o].card = pay[o].card
                            /\ pay'[o].gift = pay[o].gift
                            /\ pay'[o].refunded = pay[o].refunded
      <4>1. pay[j.order] \in Payment
        BY <2>1 DEF TypeOK
      <4>2. /\ pay'[j.order].intent = pay[j.order].intent
            /\ pay'[j.order].card = pay[j.order].card
            /\ pay'[j.order].gift = pay[j.order].gift
            /\ pay'[j.order].refunded = pay[j.order].refunded
        BY <3>3, <4>1 DEF Payment
      <4> QED
        BY <3>3, <4>2
    <3>5. PICK n : /\ n = [op |-> "publishThenAck", event |-> j.event,
                           order |-> j.order]
                   /\ Becomes(w, n)
      BY <2>3
    <3>6. /\ n \in Job /\ JobMatches(n)'
          /\ HasEvent(j) /\ n.event = j.event
      BY <2>1, <3>2, <3>5, JobsAreJobs
      DEF SucceededJob, AckJob, HasEvent, JobMatches
    <3>7. JobsMatch' /\ RowsMatch'
      BY <1>0, <3>1, <3>4, <3>5, <3>6, JobsKept, RowsKept
    <3>8. EventsMatch' /\ RefundsMatch'
      BY <1>0, <2>2 DEF EventsMatch, RefundsMatch
    <3>9. PaidInFull'
      BY <1>0, <2>1, <2>2, <3>1, <3>2, <3>3, PaidKept
    <3>10. RefundNeverAhead'
      BY <1>0, <2>2, <3>4 DEF RefundNeverAhead
    <3>11. HandlersHoldKeys' /\ OneHandlerPerEvent'
      BY <1>0, <2>3, <3>5, <3>6, KeysKept
    <3> QED
      BY <3>7, <3>8, <3>9, <3>10, <3>11 DEF Coherent
  <2>4. CASE Fails(w) /\ UNCHANGED <<order, pay, balance, usage>>
    <3>1. HasEvent(worker[w])
      BY <1>3 DEF OnPaymentIntentSucceeded, HasEvent
    <3>2. HandlersHoldKeys' /\ OneHandlerPerEvent' /\ Becomes(w, Idle)
      BY <1>0, <2>4, <3>1, KeyFreed DEF Fails
    <3> QED
      BY <1>i, <2>2, <2>4, <3>2, IdleMatches, OnlyJob
  <2> QED
    BY <1>3, <2>3, <2>4 DEF OnPaymentIntentSucceeded
<1>4. ASSUME j \in ChargeJob, Becomes(w, Idle),
             \A o \in Orders \ {j.order} : pay'[o] = pay[o],
             pay'[j.order].intent = pay[j.order].intent,
             pay'[j.order].card = pay[j.order].card,
             pay'[j.order].gift = pay[j.order].gift,
             pay'[j.order].status # "PAID",
             pay'[j.order].refunded <= refundedAt[j.order],
             UNCHANGED <<order, usage, intents, intent, raised, refundedAt,
                         lock, published>>
      PROVE  Coherent'
  <2>1. Grows /\ j.order \in Orders
    BY <1>4, NothingGrows DEF ChargeJob
  <2>2. JobsMatch' /\ RowsMatch'
    BY <1>0, <1>i, <1>4, <2>1, JobsKept, RowsKept
  <2>3. EventsMatch' /\ RefundsMatch'
    BY <1>0, <1>4 DEF EventsMatch, RefundsMatch
  <2>4. PaidInFull'
    BY <1>0, <1>4, <2>1, PaidKept
  <2>5. RefundNeverAhead'
    BY <1>0, <1>4 DEF RefundNeverAhead
  <2>6. HandlersHoldKeys' /\ OneHandlerPerEvent'
    BY <1>0, <1>i, <1>4, KeysKept
  <2> QED
    BY <2>2, <2>3, <2>4, <2>5, <2>6 DEF Coherent
<1>5. CASE OnPaymentIntentFailed(w)
  <2>1. j \in ChargeJob /\ j.order \in Orders /\ pay[j.order] \in Payment
    BY <1>j, <1>5, JobKinds DEF OnPaymentIntentFailed, ChargeJob, TypeOK
  <2>2. /\ pay'[j.order] = [pay[j.order] EXCEPT !.status = "FAILED"]
        /\ \A o \in Orders \ {j.order} : pay'[o] = pay[o]
        /\ Becomes(w, Idle)
        /\ UNCHANGED <<order, usage, intents, intent, raised, refundedAt,
                       lock, published>>
    BY <1>5, <2>1 DEF OnPaymentIntentFailed, Succeeds, TypeOK
  <2>3. /\ pay'[j.order].intent = pay[j.order].intent
        /\ pay'[j.order].card = pay[j.order].card
        /\ pay'[j.order].gift = pay[j.order].gift
        /\ pay'[j.order].status # "PAID"
        /\ pay'[j.order].refunded = pay[j.order].refunded
    BY <2>1, <2>2 DEF Payment
  <2>4. pay'[j.order].refunded <= refundedAt[j.order]
    BY <1>0, <2>1, <2>3 DEF RefundNeverAhead
  <2> QED
    BY <1>4, <2>1, <2>2, <2>3, <2>4
<1>6. CASE OnChargeRefunded(w)
  <2>1. /\ j \in ChargeJob /\ j.order \in Orders /\ pay[j.order] \in Payment
        /\ j.event.total <= refundedAt[j.order]
    BY <1>j, <1>6, JobKinds
    DEF OnChargeRefunded, ChargeJob, TypeOK, JobMatches
  <2>2. /\ pay'[j.order] = Refunded(pay[j.order], j.event.total,
                                    Total[j.order])
        /\ \A o \in Orders \ {j.order} : pay'[o] = pay[o]
        /\ Becomes(w, Idle)
        /\ UNCHANGED <<order, usage, intents, intent, raised, refundedAt,
                       lock, published>>
    BY <1>6, <2>1 DEF OnChargeRefunded, Succeeds, TypeOK
  <2>3. /\ pay'[j.order].intent = pay[j.order].intent
        /\ pay'[j.order].card = pay[j.order].card
        /\ pay'[j.order].gift = pay[j.order].gift
        /\ pay'[j.order].status # "PAID"
        /\ pay'[j.order].refunded = j.event.total
    BY <2>1, <2>2 DEF Payment, Refunded
  <2> QED
    BY <1>4, <2>1, <2>2, <2>3
<1> QED
  BY <1>1, <1>2, <1>3, <1>5, <1>6

\* The other later steps: gift cards, ORDER_PAID, cancellation, refunds.
LEMMA OtherStepCoherent ==
  ASSUME TypeOK, TypeOK', Coherent, NEW w \in Workers,
         \/ DeductPartially(w)
         \/ PublishGiftCardOrder(w)
         \/ PublishOrderPaid(w)
         \/ CancelTransaction(w)
         \/ CallStripeRefund(w)
         \/ RefundTransaction(w)
  PROVE  Coherent'
<1> USE OrdersAssumption, CardsAssumption, BoundsAssumption
<1>0. /\ HandlersHoldKeys /\ OneHandlerPerEvent /\ PaidInFull
      /\ RowsMatch /\ RefundsMatch /\ RefundNeverAhead /\ JobsMatch
      /\ EventsMatch
  BY DEF Coherent
<1> PICK j : j = worker[w]
  OBVIOUS
<1>j. j \in Job /\ JobMatches(j)
  BY <1>0 DEF TypeOK, JobsMatch
<1>i. Idle \in Job /\ ~ HasEvent(Idle) /\ JobMatches(Idle)'
  BY JobsAreJobs, IdleMatches DEF HasEvent, Idle, JobMatches
<1>k. ASSUME Becomes(w, Idle), UNCHANGED lock
      PROVE  HandlersHoldKeys' /\ OneHandlerPerEvent'
  BY <1>0, <1>i, <1>k, KeysKept
<1>1. CASE DeductPartially(w)
  <2>1. j \in GiftJob
    BY <1>j, <1>1, JobKinds DEF DeductPartially
  <2>2. /\ Becomes(w, Idle)
        /\ UNCHANGED <<order, pay, intents, intent, raised, refundedAt, lock,
                       published>>
        /\ DeductGiftCard(j.card, j.gift, j.order) \/ UNCHANGED usage
    BY <1>1 DEF DeductPartially, stripe
  <2>3. Grows
    BY <2>1, <2>2, DeductGrows, NothingGrows DEF GiftJob
  <2>4. JobsMatch' /\ RowsMatch'
    BY <1>0, <1>i, <2>2, <2>3, JobsKept, RowsKept
  <2>5. EventsMatch' /\ RefundsMatch' /\ RefundNeverAhead'
    BY <1>0, <2>2 DEF EventsMatch, RefundsMatch, RefundNeverAhead
  <2>6. PaidInFull'
    <3>1. j.order \in Orders
      BY <2>1 DEF GiftJob
    <3> QED
      BY <1>0, <2>2, <2>3, <3>1, PaidKept
  <2> QED
    BY <1>k, <2>2, <2>4, <2>5, <2>6 DEF Coherent
<1>2. CASE PublishGiftCardOrder(w) \/ PublishOrderPaid(w)
  <2>1. j.order \in Orders /\ j.order \in Funded
    BY <1>j, <1>2, JobKinds
    DEF PublishGiftCardOrder, PublishOrderPaid, JobMatches, OrderJob, AckJob
  <2>2. /\ Becomes(w, Idle) /\ published' = published \cup {j.order}
        /\ UNCHANGED <<order, pay, usage, intents, intent, raised,
                       refundedAt, lock>>
    BY <1>2 DEF PublishGiftCardOrder, PublishOrderPaid, Succeeds, rows, stripe
  <2>3. Grows
    BY <2>2, NothingGrows
  <2>4. JobsMatch' /\ RowsMatch'
    BY <1>0, <1>i, <2>2, <2>3, JobsKept, RowsKept
  <2>5. EventsMatch' /\ RefundsMatch' /\ RefundNeverAhead'
    BY <1>0, <2>2 DEF EventsMatch, RefundsMatch, RefundNeverAhead
  <2>6. PaidInFull'
    <3>1. j.order \in Funded'
      BY <2>1, <2>3, FundedGrows
    <3> QED
      BY <1>0, <2>1, <2>2, <2>3, <3>1, PaidKept
  <2> QED
    BY <1>k, <2>2, <2>4, <2>5, <2>6 DEF Coherent
<1>3. CASE CancelTransaction(w)
  <2>1. j \in OrderJob /\ j.order \in Orders
    BY <1>j, <1>3, JobKinds DEF CancelTransaction, OrderJob
  <2>2. /\ Becomes(w, Idle)
        /\ order' = [order EXCEPT ![j.order] = "CANCELLED"]
        /\ UNCHANGED <<pay, usage, intents, intent, raised, refundedAt, lock,
                       published>>
    BY <1>3 DEF CancelTransaction, stripe
  <2>3. Grows
    BY <2>2, NothingGrows
  <2>4. JobsMatch' /\ RowsMatch'
    BY <1>0, <1>i, <2>2, <2>3, JobsKept, RowsKept
  <2>5. EventsMatch' /\ RefundsMatch' /\ RefundNeverAhead'
    BY <1>0, <2>2 DEF EventsMatch, RefundsMatch, RefundNeverAhead
  <2>6. PaidInFull'
    BY <1>0, <2>1, <2>2, <2>3, PaidKept DEF TypeOK
  <2> QED
    BY <1>k, <2>2, <2>4, <2>5, <2>6 DEF Coherent
<1>4. CASE CallStripeRefund(w)
  <2>1. /\ j \in RefundJob /\ j.order \in Orders /\ j.already \in Nat
        /\ j.amount \in Nat /\ j.intent \in 1 .. intents
        /\ intent[j.intent].order = j.order
        /\ j.already <= refundedAt[j.order]
    BY <1>j, <1>4, JobKinds DEF CallStripeRefund, RefundJob, JobMatches
  <2>2. UNCHANGED <<order, pay, usage, intents, lock, published>>
    BY <1>4 DEF CallStripeRefund, rows
  <2>3. CASE /\ StripeGivesBack(j.intent, j.amount)
             /\ Becomes(w, [j EXCEPT !.op = "refundWrite"])
    <3>1. PICK n : n = [j EXCEPT !.op = "refundWrite"] /\ Becomes(w, n)
      BY <2>3
    <3>2. /\ n \in RefundJob /\ n.op = "refundWrite" /\ n.order = j.order
          /\ n.intent = j.intent /\ n.already = j.already
          /\ n.amount = j.amount
      BY <2>1, <3>1 DEF RefundJob
    <3>3. Grows
      BY <2>1, <2>2, <2>3, GiveBackGrows
    <3>4. refundedAt' = [refundedAt EXCEPT ![j.order] = @ + j.amount]
      BY <2>1, <2>3 DEF StripeGivesBack
    <3>5. n.already + n.amount <= refundedAt'[n.order]
      BY <2>1, <3>2, <3>4 DEF TypeOK
    <3>6. n.intent \in 1 .. intents' /\ intent'[n.intent].order = n.order
      BY <2>1, <2>2, <3>2, <3>3 DEF Grows
    <3>7. n \in Job /\ ~ HasEvent(n) /\ JobMatches(n)'
      BY <3>2, <3>5, <3>6, JobsAreJobs
      DEF HasEvent, JobMatches, NewRefundedTotal
    <3>8. JobsMatch' /\ RowsMatch'
      BY <1>0, <2>2, <3>1, <3>3, <3>7, JobsKept, RowsKept
    <3>9. HandlersHoldKeys' /\ OneHandlerPerEvent'
      BY <1>0, <2>2, <3>1, <3>7, KeysKept
    <3>10. EventsMatch' /\ RefundsMatch'
      BY <1>0, <2>1, <2>2, <2>3, <3>3, GiveBackMatches
    <3>11. PaidInFull'
      BY <1>0, <2>1, <2>2, <3>3, PaidKept
    <3>12. RefundNeverAhead'
      BY <1>0, <2>2, <3>3, RefundsGrow
    <3> QED
      BY <3>8, <3>9, <3>10, <3>11, <3>12 DEF Coherent
  <2>4. CASE Becomes(w, Idle) /\ UNCHANGED <<intent, refundedAt, raised>>
    BY <1>i, <1>k, <2>2, <2>4, IdleMatches, OnlyJob
  <2> QED
    BY <1>4, <2>3, <2>4 DEF CallStripeRefund
<1>5. CASE RefundTransaction(w)
  <2>1. /\ j \in RefundJob /\ j.order \in Orders
        /\ NewRefundedTotal(j) <= refundedAt[j.order]
        /\ pay[j.order] \in Payment
    BY <1>j, <1>5, JobKinds DEF RefundTransaction, RefundJob, JobMatches, TypeOK
  <2>2. /\ Becomes(w, Idle)
        /\ UNCHANGED <<usage, intents, intent, raised, refundedAt, lock,
                       published>>
    BY <1>5 DEF RefundTransaction, stripe
  <2>3. /\ pay'[j.order] = Refunded(pay[j.order], NewRefundedTotal(j),
                                    Total[j.order])
        /\ \A o \in Orders \ {j.order} :
             pay'[o] = pay[o] /\ order'[o] = order[o]
        /\ order'[j.order] \in {"REFUNDED", order[j.order]}
    BY <1>5, <2>1 DEF RefundTransaction, TypeOK
  <2>4. /\ pay'[j.order].intent = pay[j.order].intent
        /\ pay'[j.order].card = pay[j.order].card
        /\ pay'[j.order].gift = pay[j.order].gift
        /\ pay'[j.order].status # "PAID"
        /\ pay'[j.order].refunded = NewRefundedTotal(j)
    BY <2>1, <2>3 DEF Payment, Refunded
  <2>5. Grows
    BY <2>2, NothingGrows
  <2>6. JobsMatch' /\ RowsMatch'
    BY <1>0, <1>i, <2>2, <2>3, <2>4, <2>5, JobsKept, RowsKept
  <2>7. EventsMatch' /\ RefundsMatch'
    BY <1>0, <2>2 DEF EventsMatch, RefundsMatch
  <2>8. PaidInFull'
    BY <1>0, <2>1, <2>2, <2>3, <2>4, <2>5, PaidKept
  <2>9. RefundNeverAhead'
    BY <1>0, <2>1, <2>2, <2>3, <2>4 DEF RefundNeverAhead
  <2> QED
    BY <1>k, <2>2, <2>6, <2>7, <2>8, <2>9 DEF Coherent
<1> QED
  BY <1>1, <1>2, <1>3, <1>4, <1>5

\* Every step of the system, or none, keeps Coherent.
LEMMA NextCoherent ==
  ASSUME TypeOK, TypeOK', Coherent, [Next]_vars
  PROVE  Coherent'
<1> USE OrdersAssumption, CardsAssumption, BoundsAssumption
<1>0. /\ HandlersHoldKeys /\ OneHandlerPerEvent /\ PaidInFull
      /\ RowsMatch /\ RefundsMatch /\ RefundNeverAhead /\ JobsMatch
      /\ EventsMatch
  BY DEF Coherent
<1>i. Idle \in Job /\ ~ HasEvent(Idle) /\ JobMatches(Idle)
  BY JobsAreJobs, IdleMatches DEF HasEvent, Idle
<1>1. ASSUME NEW w \in Workers, Step(w) PROVE Coherent'
  BY <1>1, PaymentStepCoherent, OtherStepCoherent DEF Step
<1>2. ASSUME NEW w \in Workers, Request(w) PROVE Coherent'
  BY <1>2, RequestCoherent
<1>3. ASSUME NEW w \in Workers, PublishThrows(w) PROVE Coherent'
  <2>1. Becomes(w, Idle) /\ UNCHANGED <<rows, stripe, published>>
    BY <1>3 DEF PublishThrows, Fails
  <2>2. CASE HasEvent(worker[w]) /\ Fails(w)
    BY <1>0, <1>i, <2>1, <2>2, KeyFreed, OnlyJob DEF rows, stripe
  <2>3. CASE UNCHANGED lock
    <3>1. HandlersHoldKeys' /\ OneHandlerPerEvent'
      BY <1>0, <1>i, <2>1, <2>3, KeysKept
    <3> QED
      BY <1>i, <2>1, <3>1, OnlyJob DEF rows, stripe
  <2> QED
    BY <1>3, <2>2, <2>3 DEF PublishThrows, HasEvent
<1>4. ASSUME NEW w \in Workers, Crash(w) PROVE Coherent'
  <2>1. Becomes(w, Idle) /\ UNCHANGED <<rows, stripe, lock, published>>
    BY <1>4 DEF Crash
  <2>2. HandlersHoldKeys' /\ OneHandlerPerEvent'
    BY <1>0, <1>i, <2>1, KeysKept
  <2> QED
    BY <1>i, <2>1, <2>2, OnlyJob DEF rows, stripe
<1>5. ASSUME NEW i \in 1 .. intents,
             \/ /\ intent' = [intent EXCEPT ![i].state = "charged"]
                /\ raised' = raised \cup {[type |-> "succeeded", intent |-> i,
                                           total |-> 0]}
             \/ /\ UNCHANGED intent
                /\ raised' = raised \cup {[type |-> "failed", intent |-> i,
                                           total |-> 0]},
             UNCHANGED <<rows, intents, refundedAt, lock, worker, published>>
      PROVE  Coherent'
  <2>1. /\ Grows
        /\ \A k \in 1 .. intents : intent'[k].refunded = intent[k].refunded
    <3>1. i \in Intents
      BY DEF Intents, TypeOK
    <3> QED
      BY <1>5, <3>1, IntentGrows, NothingGrows DEF rows
  <2>2. RowsMatch'
    BY <1>0, <1>5, <2>1, RowsKept DEF rows
  <2>3. JobsMatch'
    BY <1>0, <1>5, <2>1, JobsStillMatch
  <2>4. EventsMatch'
    <3> SUFFICES ASSUME NEW e \in raised', e \notin raised
                 PROVE  /\ e.intent \in 1 .. intents'
                        /\ e.type = "succeeded" =>
                             intent'[e.intent].state = "charged"
                        /\ e.type # "refunded"
      BY <1>0, <2>1, EventKept DEF EventsMatch
    <3>1. intent' = [intent EXCEPT ![i].state = "charged"] =>
            intent'[i].state = "charged"
      BY DEF TypeOK, PaymentIntent
    <3>2. i \in 1 .. intents'
      BY <1>5
    <3>3. e \in {[type |-> t, intent |-> i, total |-> 0] :
                   t \in {"succeeded", "failed"}}
      BY <1>5
    <3> QED
      BY <1>5, <3>1, <3>2, <3>3
  <2>5. RefundsMatch'
    BY <1>0, <1>5, <2>1, RefundsKept
  <2>6. PaidInFull' /\ RefundNeverAhead'
    <3>1. Funded \subseteq Funded'
      BY <2>1, FundedGrows
    <3> QED
      BY <1>0, <1>5, <3>1 DEF PaidInFull, RefundNeverAhead, rows
  <2>7. HandlersHoldKeys' /\ OneHandlerPerEvent'
    BY <1>0, <1>5 DEF HandlersHoldKeys, OneHandlerPerEvent
  <2> QED
    BY <2>2, <2>3, <2>4, <2>5, <2>6, <2>7 DEF Coherent
<1>6. ASSUME NEW i \in 1 .. intents, StripeCharges(i) \/ StripeDeclines(i)
      PROVE  Coherent'
  BY <1>5, <1>6 DEF StripeCharges, StripeDeclines
<1>7. ASSUME NEW i \in 1 .. intents, NEW a \in RefundAmounts,
             DashboardRefund(i, a)
      PROVE  Coherent'
  <2>1. /\ StripeGivesBack(i, a) /\ a \in Nat
        /\ UNCHANGED <<rows, intents, lock, worker, published>>
    BY <1>7 DEF DashboardRefund, BoundsAssumption
  <2>2. Grows
    BY <2>1, GiveBackGrows DEF rows
  <2>3. RowsMatch'
    BY <1>0, <2>1, <2>2, RowsKept DEF rows
  <2>4. JobsMatch'
    BY <1>0, <2>1, <2>2, JobsStillMatch
  <2>5. EventsMatch' /\ RefundsMatch'
    BY <1>0, <2>1, <2>2, GiveBackMatches
  <2>6. PaidInFull' /\ RefundNeverAhead'
    <3>1. Funded \subseteq Funded'
      BY <2>2, FundedGrows
    <3>2. RefundNeverAhead'
      BY <1>0, <2>1, <2>2, RefundsGrow DEF rows
    <3> QED
      BY <1>0, <2>1, <3>1, <3>2 DEF PaidInFull, rows
  <2>7. HandlersHoldKeys' /\ OneHandlerPerEvent'
    BY <1>0, <2>1 DEF HandlersHoldKeys, OneHandlerPerEvent
  <2> QED
    BY <2>3, <2>4, <2>5, <2>6, <2>7 DEF Coherent
<1>8. ASSUME NEW e \in lock, LockExpires(e) PROVE Coherent'
  <2>1. /\ UNCHANGED <<rows, stripe, worker, published>>
        /\ lock' = lock \ {e} /\ ~ Handling(e)
    BY <1>8 DEF LockExpires
  <2>2. HandlersHoldKeys'
    BY <1>0, <2>1 DEF HandlersHoldKeys, Handling
  <2> QED
    BY <1>0, <2>1, <2>2
    DEF rows, stripe, Coherent, RowsMatch, PaysFor, JobsMatch, JobMatches,
        Funded, StripePaid, GiftPaid, EventsMatch, RefundsMatch, PaidInFull,
        RefundNeverAhead, OneHandlerPerEvent
<1>9. CASE UNCHANGED vars
  BY <1>0, <1>9
  DEF vars, rows, stripe, Coherent, RowsMatch, PaysFor, JobsMatch, JobMatches,
      Funded, StripePaid, GiftPaid, EventsMatch, RefundsMatch, PaidInFull,
      RefundNeverAhead, OneHandlerPerEvent, HandlersHoldKeys
<1> QED
  BY <1>1, <1>2, <1>3, <1>4, <1>6, <1>7, <1>8, <1>9 DEF Next

\* Nothing is owed at the start: no intent, no event, no job.
LEMMA InitCoherent == Init => Coherent
<1> USE OrdersAssumption, CardsAssumption, BoundsAssumption
<1> SUFFICES ASSUME Init PROVE Coherent
  OBVIOUS
<1>1. RowsMatch /\ RefundNeverAhead
  BY DEF Init, RowsMatch, RefundNeverAhead, NoPayment
<1>2. JobsMatch /\ HandlersHoldKeys /\ OneHandlerPerEvent
  BY IdleMatches
  DEF Init, JobsMatch, HandlersHoldKeys, OneHandlerPerEvent, HasEvent, Idle
<1>3. EventsMatch /\ RefundsMatch
  BY DEF Init, EventsMatch, RefundsMatch
<1>4. PaidInFull
  BY DEF Init, PaidInFull, NoPayment
<1> QED
  BY <1>1, <1>2, <1>3, <1>4 DEF Coherent

-----------------------------------------------------------------------------
(* The money of the gift cards                                             *)

\* A step leaves the cards alone, or takes from one what it has, for an order.
LEMMA CardsMove ==
  ASSUME TypeOK, [Next]_vars
  PROVE  \/ UNCHANGED <<balance, usage>>
         \/ \E c \in Cards, amount \in Nat, o \in Orders :
              CanDeduct(c, amount) /\ DeductGiftCard(c, amount, o)
<1>1. ASSUME NEW w \in Workers, Step(w)
      PROVE  \/ UNCHANGED <<balance, usage>>
             \/ \E c \in Cards, amount \in Nat, o \in Orders :
                  CanDeduct(c, amount) /\ DeductGiftCard(c, amount, o)
  <2>0. worker[w] \in Job
    BY DEF TypeOK
  <2>1. CASE DeductPartially(w)
    <3>1. worker[w] \in GiftJob
      BY <2>0, <2>1, JobKinds DEF DeductPartially
    <3> QED
      BY <2>1, <3>1 DEF DeductPartially, GiftJob
  <2>2. CASE FulfilWithGiftCard(w)
    <3>1. worker[w] \in GiftJob
      BY <2>0, <2>2, JobKinds DEF FulfilWithGiftCard
    <3> QED
      BY <2>2, <3>1 DEF FulfilWithGiftCard, GiftJob
  <2>3. CASE OnPaymentIntentSucceeded(w)
    <3>1. worker[w] \in SucceededJob
      BY <2>0, <2>3, JobKinds DEF OnPaymentIntentSucceeded
    <3>2. DeductsCard(worker[w]) => worker[w].card \in Cards
      BY <3>1 DEF DeductsCard, SucceededJob, CardOrNone
    <3> QED
      BY <2>3, <3>1, <3>2 DEF OnPaymentIntentSucceeded, SucceededJob
  <2>4. CASE \/ UpsertPayment(w) \/ PublishGiftCardOrder(w)
             \/ PublishOrderPaid(w) \/ OnPaymentIntentFailed(w)
             \/ OnChargeRefunded(w) \/ CancelTransaction(w)
             \/ CallStripeRefund(w) \/ RefundTransaction(w)
    BY <2>4
    DEF UpsertPayment, PublishGiftCardOrder, PublishOrderPaid,
        OnPaymentIntentFailed, OnChargeRefunded, CancelTransaction,
        CallStripeRefund, RefundTransaction, rows
  <2> QED
    BY <1>1, <2>1, <2>2, <2>3, <2>4 DEF Step
<1>2. ASSUME NEW w \in Workers, Request(w) PROVE UNCHANGED <<balance, usage>>
  BY <1>2
  DEF Request, CreatePaymentIntent, CreateIntentCoveredByCard, ApplyGiftCard,
      SkipDuplicate, HandleStripeWebhook, CancelOrder, AdminCancelOrder,
      CreateRefund, rows
<1>3. ASSUME \/ \E w \in Workers : PublishThrows(w) \/ Crash(w)
             \/ \E i \in 1 .. intents : StripeCharges(i) \/ StripeDeclines(i)
             \/ \E i \in 1 .. intents, a \in RefundAmounts :
                  DashboardRefund(i, a)
             \/ \E e \in lock : LockExpires(e)
             \/ UNCHANGED vars
      PROVE  UNCHANGED <<balance, usage>>
  BY <1>3
  DEF PublishThrows, Crash, StripeCharges, StripeDeclines, DashboardRefund,
      LockExpires, vars, rows
<1> QED
  BY <1>1, <1>2, <1>3 DEF Next

\* What leaves a card's balance is added to its usage.
LEMMA DeductConserves ==
  ASSUME TypeOK, GiftCardConserved, NEW c \in Cards, NEW amount \in Nat,
         NEW o \in Orders, CanDeduct(c, amount), DeductGiftCard(c, amount, o)
  PROVE  GiftCardConserved'
<1>1. /\ balance \in [Cards -> Nat] /\ usage \in [Cards -> [Orders -> Nat]]
      /\ IsFiniteSet(Orders)
  BY OrdersAssumption DEF TypeOK
<1>2. SUFFICES ASSUME NEW d \in Cards
               PROVE  /\ balance'[d] >= 0
                      /\ balance'[d] + SumFunctionOnSet(usage'[d], DOMAIN usage'[d])
                           = Balance[d]
  BY DEF GiftCardConserved, SumFunction
<1>3. /\ balance[d] \in Nat /\ usage[d] \in [Orders -> Int]
      /\ balance[d] + SumFunctionOnSet(usage[d], Orders) = Balance[d]
  BY <1>1 DEF GiftCardConserved, SumFunction
<1>4. CASE d # c
  BY <1>1, <1>3, <1>4 DEF DeductGiftCard
<1>5. CASE d = c
  <2>1. PICK was : was = usage[d]
    OBVIOUS
  <2>2. PICK used : used = usage'[d]
    OBVIOUS
  <2>3. was \in [Orders -> Int] /\ was[o] + amount \in Int
    BY <1>3, <2>1
  <2>4. used = [was EXCEPT ![o] = was[o] + amount]
    BY <1>1, <1>5, <2>1, <2>2 DEF DeductGiftCard
  <2>5. balance'[d] = balance[d] - amount /\ balance[d] >= amount
    BY <1>1, <1>5 DEF DeductGiftCard, CanDeduct
  <2>6. IsFiniteSet(Orders)
    BY <1>1
  <2>7. /\ SumFunctionOnSet(was, Orders) \in Int
        /\ SumFunctionOnSet(used, Orders)
             = SumFunctionOnSet(was, Orders) + (was[o] + amount) - was[o]
    BY ONLY <2>3, <2>4, <2>6, o \in Orders, SumReplaced
  <2>8. DOMAIN used = Orders
    BY <2>3, <2>4
  <2>9. balance'[d] + SumFunctionOnSet(used, Orders) = Balance[d]
    BY <1>3, <2>1, <2>3, <2>5, <2>7
  <2> QED
    BY <1>3, <2>2, <2>5, <2>8, <2>9
<1> QED
  BY <1>4, <1>5

\* At the start no card has been used.
LEMMA InitConserves == Init => GiftCardConserved
<1> SUFFICES ASSUME Init, NEW c \in Cards
             PROVE  /\ balance[c] >= 0
                    /\ balance[c] + SumFunctionOnSet(usage[c], DOMAIN usage[c])
                         = Balance[c]
  BY DEF GiftCardConserved, SumFunction
<1>1. usage[c] = [o \in Orders |-> 0] /\ balance[c] = Balance[c]
  BY DEF Init
<1>2. SumFunctionOnSet(usage[c], Orders) = 0
  BY <1>1, OrdersAssumption, SumOfZeros
<1> QED
  BY <1>1, <1>2, CardsAssumption

-----------------------------------------------------------------------------
(* Theorems                                                                *)

\* What the database, the handlers in flight, Stripe and Redis say of each
\* other agrees, whatever the orders, cards, workers, crashes and deliveries.
THEOREM AlwaysCoherent == Spec => [](TypeOK /\ Coherent)
<1>1. Init => TypeOK /\ Coherent
  BY InitType, InitCoherent
<1>2. TypeOK /\ Coherent /\ [Next]_vars => (TypeOK /\ Coherent)'
  <2> SUFFICES ASSUME TypeOK, Coherent, [Next]_vars
               PROVE  (TypeOK /\ Coherent)'
    OBVIOUS
  <2>1. TypeOK'
    BY NextType DEF Coherent
  <2> QED
    BY <2>1, NextCoherent
<1> QED
  BY <1>1, <1>2, PTL DEF Spec

\* Every variable keeps its type; in particular no gift card's balance ever
\* falls below zero (deductGiftCard's WHERE clause).
THEOREM TypeCorrect == Spec => []TypeOK
  BY AlwaysCoherent, PTL

\* No order is confirmed, no payment is PAID and no ORDER_PAID goes out
\* before one charge and one gift card together hold the total.
THEOREM AlwaysPaidInFull == Spec => []PaidInFull
<1>1. Coherent => PaidInFull
  BY DEF Coherent
<1> QED
  BY <1>1, AlwaysCoherent, PTL

\* The refunded amount on the Payment row never runs ahead of Stripe's.
THEOREM RefundsNeverAhead == Spec => []RefundNeverAhead
<1>1. Coherent => RefundNeverAhead
  BY DEF Coherent
<1> QED
  BY <1>1, AlwaysCoherent, PTL

\* No two handlers work on one webhook event at once.
THEOREM EventsHandledOnce == Spec => []OneHandlerPerEvent
<1>1. Coherent => OneHandlerPerEvent
  BY DEF Coherent
<1> QED
  BY <1>1, AlwaysCoherent, PTL

\* Gift card money is conserved: for any orders and cards, whatever requests,
\* webhooks and crashes interleave, a card's balance and the sum of what its
\* usage rows say make up what it was issued with.
THEOREM AlwaysConserved == Spec => []GiftCardConserved
<1>1. TypeOK /\ GiftCardConserved /\ [Next]_vars => GiftCardConserved'
  <2> SUFFICES ASSUME TypeOK, GiftCardConserved, [Next]_vars
               PROVE  GiftCardConserved'
    OBVIOUS
  <2>1. CASE UNCHANGED <<balance, usage>>
    BY <2>1 DEF GiftCardConserved
  <2> QED
    BY <2>1, CardsMove, DeductConserves
<1> QED
  BY <1>1, InitConserves, TypeCorrect, PTL DEF Spec
=============================================================================
