-------------------------- MODULE MCStripePayments --------------------------
(* Small instances of StripePayments for TLC. *)
EXTENDS StripePayments, TLC

CONSTANTS o1, o2, c1, w1, w2

\* One order, with no gift card or one that covers a part of it.
MCTotalOne == o1 :> 3
MCNoBalance == << >>
MCBalancePart == c1 :> 2

UsesCard ==
  \/ balance # Balance
  \/ \E o \in Orders : pay[o].card # NoCard
  \/ \E w \in Workers : "card" \in DOMAIN worker[w] /\ worker[w].card # NoCard
Refunding ==
  \/ \E o \in Orders : refundedAt[o] > 0
  \/ \E w \in Workers : worker[w].op = "refundCall"
Plain == crashed = << >> /\ publishFails = 0 /\ ~UsesCard

\* Bounds: the intent is replaced, or refunds are asked for, where no card is
\* used and nothing dies or throws.  They bound what people ask and what
\* fails, never a step that fairness promises.  No card covers o1 alone: the
\* steps of an order that a card pays for are left to the other runs.
PlainNext ==
  \/ \E w \in Workers :
       \/ UpsertPayment(w) \/ DeductPartially(w)
       \/ OnPaymentIntentSucceeded(w) \/ PublishOrderPaid(w)
       \/ OnPaymentIntentFailed(w) \/ OnChargeRefunded(w)
       \/ CancelTransaction(w) \/ CallStripeRefund(w) \/ RefundTransaction(w)
  \/ \E w \in Workers, e \in raised :
       SkipDuplicate(w, e) \/ HandleStripeWebhook(w, e)
  \/ \E w \in Workers, o \in Orders : CancelOrder(w, o) \/ AdminCancelOrder(w, o)
  \/ \E w \in Workers, o \in Orders, c \in CardOrNone :
       /\ intents = 0 \/ (c = NoCard /\ Plain /\ ~Refunding)
       /\ CreatePaymentIntent(w, o, c)
  \/ \E w \in Workers, o \in Orders, c \in Cards :
       intents <= 1 /\ ~Refunding /\ ApplyGiftCard(w, o, c)
  \/ \E w \in Workers, o \in Orders :
       \E a \in RefundAmounts \cup {Total[o] - pay[o].refunded} :
         intents = 1 /\ Plain /\ CreateRefund(w, o, a)
  \/ \E i \in 1 .. intents, a \in RefundAmounts :
       intents = 1 /\ Plain /\ DashboardRefund(i, a)
  \/ \E w \in Workers :
       /\ intents <= 1 /\ ~Refunding
       /\ PublishThrows(w) \/ Crash(w)
  \/ \E i \in 1 .. intents : StripeCharges(i) \/ StripeDeclines(i)
  \/ \E e \in lock : LockExpires(e)

PlainSpec == Init /\ [][PlainNext]_vars /\ Fairness

WorkerSymmetry == Permutations(Workers)
=============================================================================
