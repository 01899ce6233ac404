------------------------------ MODULE MCOutside ------------------------------
(* The three outside services whose answers may be lost: Stripe, PayPal and  *)
(* the print providers.  A behaviour stays with the one it starts with, and  *)
(* what the others hold is left as it began.                                 *)
EXTENDS MCStripePayments, Fulfilment, PayPalPayments

\* Who has a request under way is w1 or w2 with Stripe and with PayPal.
CONSTANTS c2,            \* StripePayments
          k1, k2, n1     \* Fulfilment

VARIABLE service

-----------------------------------------------------------------------------
(* Stripe: two orders share a gift card, or one order has its intent         *)
(* replaced; the states that are neither are reached but not gone on from.   *)

\* Card c1 covers order o2, and o1 but for less than Stripe's minimum; once
\* o2 was paid with it, it covers a part of o1.  Card c2 covers a part of o1.
MCTotalShared == (o1 :> 5) @@ (o2 :> 2)
MCBalanceShared == (c1 :> 4) @@ (c2 :> 3)

Uses(card) ==
  \/ balance[card] # Balance[card]
  \/ \E o \in Orders : pay[o].card = card
  \/ \E w \in Workers : "card" \in DOMAIN worker[w] /\ worker[w].card = card
Touched(o) ==
  \/ order[o] # "PENDING_PAYMENT" \/ pay[o] # NoPayment
  \/ \E w \in Workers : "order" \in DOMAIN worker[w] /\ worker[w].order = o

\* One mishap at a time, and refunds where there is one intent.
CardShared == /\ intents <= 1 /\ ~Uses(c2)
              /\ Len(crashed) + publishFails <= 1
IntentReplaced == /\ crashed = << >> /\ publishFails = 0
                  /\ ~Uses(c1) /\ ~Touched(o2)
                  /\ \A o \in Orders : refundedAt[o] = 0

Focussed == CardShared \/ IntentReplaced

-----------------------------------------------------------------------------
OutsideInit ==
  /\ Init /\ FulfilInit /\ PaypalInit
  /\ \/ service \in {"stripe", "prints"} /\ ~digital
     \/ service = "paypal"

Paying == service = "stripe" /\ UNCHANGED <<service, fulfilVars, paypalVars>>
Printing == service = "prints" /\ UNCHANGED <<service, vars, paypalVars>>
Charging == service = "paypal" /\ UNCHANGED <<service, vars, fulfilVars>>

\* The services' next-state relations, disjunct by disjunct, so that TLC
\* counts each.  Nobody refunds from Stripe's dashboard: MCStripeRefunds has it.
OutsideNext ==
  \/ \E w \in Workers : Paying /\ UpsertPayment(w)
  \/ \E w \in Workers : Paying /\ DeductPartially(w)
  \/ \E w \in Workers : Paying /\ FulfilWithGiftCard(w)
  \/ \E w \in Workers : Paying /\ PublishGiftCardOrder(w)
  \/ \E w \in Workers : Paying /\ OnPaymentIntentSucceeded(w)
  \/ \E w \in Workers : Paying /\ PublishOrderPaid(w)
  \/ \E w \in Workers : Paying /\ OnPaymentIntentFailed(w)
  \/ \E w \in Workers : Paying /\ OnChargeRefunded(w)
  \/ \E w \in Workers : Paying /\ CancelTransaction(w)
  \/ \E w \in Workers : Paying /\ CallStripeRefund(w)
  \/ \E w \in Workers : Paying /\ RefundTransaction(w)
  \/ \E w \in Workers : Paying /\ PublishThrows(w)
  \/ \E w \in Workers : Paying /\ Crash(w)
  \/ \E w \in Workers, o \in Orders, c \in CardOrNone :
       Paying /\ CreatePaymentIntent(w, o, c)
  \/ \E w \in Workers, o \in Orders, c \in Cards :
       Paying /\ CreateIntentCoveredByCard(w, o, c)
  \/ \E w \in Workers, o \in Orders, c \in Cards :
       Paying /\ ApplyGiftCard(w, o, c)
  \/ \E w \in Workers, e \in raised : Paying /\ SkipDuplicate(w, e)
  \/ \E w \in Workers, e \in raised : Paying /\ HandleStripeWebhook(w, e)
  \/ \E w \in Workers, o \in Orders : Paying /\ CancelOrder(w, o)
  \/ \E w \in Workers, o \in Orders : Paying /\ AdminCancelOrder(w, o)
  \/ \E w \in Workers, o \in Orders :
       \E a \in RefundAmounts \cup {Total[o] - pay[o].refunded} :
         Paying /\ CreateRefund(w, o, a)
  \/ \E i \in 1 .. intents : Paying /\ StripeCharges(i)
  \/ \E i \in 1 .. intents : Paying /\ StripeDeclines(i)
  \/ \E e \in lock : Paying /\ LockExpires(e)
  \/ \E w \in Pushers, c \in Connections : Printing /\ OpenRow(w, c)
  \/ \E w \in Pushers : Printing /\ TakePush(w)
  \/ \E w \in Pushers : Printing /\ Refuse(w)
  \/ \E w \in Pushers : Printing /\ CallProvider(w)
  \/ \E w \in Pushers : Printing /\ RecordSubmitted(w)
  \/ \E w \in Pushers : Printing /\ PushCompletes(w)
  \/ \E w \in Pushers : Printing /\ PushThrows(w)
  \/ \E w \in Pushers : Printing /\ PushStalled(w)
  \/ \E w \in Pushers : Printing /\ PusherDies(w)
  \/ Printing /\ OnFailed
  \/ \E c \in Connections : \E n \in DOMAIN prints[c] :
       Printing /\ PrintAdvances(c, n)
  \/ \E m \in Postmen, c \in Connections : \E n \in DOMAIN prints[c] :
       \E state \in Reached(prints[c][n]) : \E kind \in Kinds(c, state) :
         Printing /\ ReceiveNotice(m, c, n, kind, state)
  \/ \E m \in Postmen : Printing /\ WriteStatus(m)
  \/ \E m \in Postmen : Printing /\ WriteNumber(m)
  \/ \E m \in Postmen : Printing /\ WriteStage(m)
  \/ \E m \in Postmen : Printing /\ PostmanDies(m)
  \/ \E t \in Tellers : Charging /\ ReadForPaypalOrder(t)
  \/ \E t \in Tellers : Charging /\ PostPaypalOrder(t)
  \/ \E t \in Tellers : Charging /\ UpsertPaypalPayment(t)
  \/ \E t \in Tellers : \E id \in DOMAIN paypal :
       Charging /\ ReadForCapture(t, id)
  \/ \E t \in Tellers : Charging /\ CallCapture(t)
  \/ \E t \in Tellers : Charging /\ WriteCapture(t)
  \/ \E t \in Tellers : \E event \in sent :
       Charging /\ ReceivePaypalEvent(t, event)
  \/ \E t \in Tellers : Charging /\ HandleCompleted(t)
  \/ \E t \in Tellers : Charging /\ PublishPaid(t)
  \/ \E t \in Tellers : Charging /\ HandleRefunded(t)
  \/ \E t \in Tellers : Charging /\ HandleDenied(t)
  \/ \E t \in Tellers : Charging /\ ReadForCancelling(t)
  \/ \E t \in Tellers : Charging /\ CancelBill(t)
  \/ \E t \in Tellers : Charging /\ TellerDies(t)
  \/ \E id \in DOMAIN paypal : Charging /\ CaptureSettles(id)
  \/ \E id \in DOMAIN paypal, amount \in 1 .. Price :
       Charging /\ PaypalRefunds(id, amount)

OutsideSpec ==
  OutsideInit /\ [][OutsideNext]_<<service, vars, fulfilVars, paypalVars>>

\* Bounds: one connection's orders go further than made, and none does once
\* a lock was lost.
Stays(c) == \A n \in DOMAIN prints[c] : prints[c][n] = "made"
OnePrinter ==
  /\ \A c, d \in Connections : c = d \/ Stays(c) \/ Stays(d)
  /\ \/ push.stalls = 0 /\ push.state # "stalled"
     \/ \A c \in Connections : Stays(c)

\* Bound: a mishap, or a refund that PayPal gave.
RefundOrMishap ==
  mishaps = 0 \/ \A id \in DOMAIN paypal : paypal[id].refunds = 0
=============================================================================
