--------------------------- MODULE PayPalPayments ---------------------------
(***************************************************************************)
(* Paying for one order with PayPal.                                       *)
(*                                                                         *)
(*   paypal.service.ts      createOrder, captureOrder                      *)
(*   payments.service.ts    handlePaypalWebhookEvent                       *)
(*   webhooks.controller.ts paypalWebhook                                  *)
(*   orders.service.ts      cancelOrder                                    *)
(*                                                                         *)
(* The browser has a PayPal order created, the buyer approves it, and the  *)
(* browser has it captured; PayPal reports the capture, its refunds or its *)
(* denial by webhook.  An order is COMPLETED once its capture is taken,    *)
(* while the capture itself may be PENDING and settle, or be denied, much  *)
(* later; the code asks for the status of the order alone.  The webhook is *)
(* answered 200 whatever happened, so PayPal delivers an event again only  *)
(* when the API died over it, or of its own accord.                        *)
(*                                                                         *)
(* A Teller is one request in flight, with what it read before its last    *)
(* await.  An order has one Payment row, so orders do not meet.  Left out: *)
(* the cart that is emptied, the commission (AffiliatePayouts), the shops' *)
(* rows (StoreOrders), CHECKOUT.ORDER.APPROVED, which looks for a          *)
(* custom_id that createOrder never sends and so does nothing.             *)
(***************************************************************************)
EXTENDS Naturals, FiniteSets

CONSTANTS
  Tellers,       \* requests under way at one time
  MaxPaypalOrders, \* bound: PayPal orders created for the order
  Price,         \* Order.total
  MaxRefunds,    \* bound: refunds of one capture
  MaxMishaps     \* bound: requests that die, publishes that throw and events
                 \* that PayPal delivers though they were answered

VARIABLES
  digital,       \* Order.isDigital
  bill,          \* Order.status
  payment,       \* the Payment row
  paypal,        \* PayPal's orders: 1 .. n, in the order they were created
  sent,          \* webhook events raised
  answered,      \* webhook events answered 200
  teller,        \* what each request is doing
  announced,     \* ORDER_PAID is on the bus
  crossed,       \* history: a PayPal order was put on the row of an order
                 \* that another one was charging or had charged
  mishaps

paypalVars == <<digital, bill, payment, paypal, sent, answered, teller,
                announced, crossed, mishaps>>

ASSUME PaypalAssumption == /\ MaxPaypalOrders \in Nat
                           /\ Price \in Nat \ {0}
                           /\ MaxRefunds \in Nat
                           /\ MaxMishaps \in Nat

-----------------------------------------------------------------------------
BillStatus == {"PENDING_PAYMENT", "CONFIRMED", "COMPLETED", "CANCELLED",
               "REFUNDED"}
Ids == 1 .. MaxPaypalOrders

\* nth: the nth refund of a capture.
PaypalEvent == [type : {"COMPLETED", "REFUNDED", "DENIED"}, id : Ids,
                nth : 0 .. MaxRefunds, amount : Nat]
NoEvent == [type |-> "none"]

\* 0: paypalOrderId or paypalCaptureId is null.  A capture goes by the id of
\* the order it captured.
PaypalPayment == [status : {"none", "PENDING", "PAID", "FAILED", "REFUNDED"},
                  orderId : Ids \cup {0}, captureId : Ids \cup {0},
                  refunded : Nat, event : PaypalEvent \cup {NoEvent}]

\* All but created are COMPLETED, with a capture that is PENDING, COMPLETED or
\* DECLINED.  PAYMENT.CAPTURE.PENDING is an event nobody handles.
PaypalOrder == [state : {"created", "pending", "captured", "denied"},
                refunds : 0 .. MaxRefunds, given : 0 .. Price]

Waiting == [op |-> "idle"]
PageJob == [op : {"create", "cancel"}]
CaptureJob == [op : {"upsert", "capture", "captured"}, id : Ids]
HookJob == [op : {"completed", "publish", "refunded", "denied"},
            event : PaypalEvent, seen : BillStatus]
TellerJob == {Waiting} \cup PageJob \cup CaptureJob \cup HookJob

PaypalTypeOK ==
  /\ digital \in BOOLEAN
  /\ bill \in BillStatus
  /\ payment \in PaypalPayment
  /\ \E n \in 0 .. MaxPaypalOrders : paypal \in [1 .. n -> PaypalOrder]
  /\ sent \subseteq PaypalEvent
  /\ answered \subseteq sent
  /\ teller \in [Tellers -> TellerJob]
  /\ announced \in BOOLEAN
  /\ crossed \in BOOLEAN
  /\ mishaps \in 0 .. MaxMishaps

PaypalInit ==
  /\ digital \in BOOLEAN
  /\ bill = "PENDING_PAYMENT"
  /\ payment = [status |-> "none", orderId |-> 0, captureId |-> 0,
                refunded |-> 0, event |-> NoEvent]
  /\ paypal = <<>>
  /\ sent = {}
  /\ answered = {}
  /\ teller = [t \in Tellers |-> Waiting]
  /\ announced = FALSE
  /\ crossed = FALSE
  /\ mishaps = 0

-----------------------------------------------------------------------------
TellerGoes(t, job) == teller' = [teller EXCEPT ![t] = job]
CapturedAt(id) == id \in DOMAIN paypal /\ paypal[id].state = "captured"
TakenAt(id) == id \in DOMAIN paypal /\ paypal[id].state # "created"
ChargedAt(id) ==
  id \in DOMAIN paypal /\ paypal[id].state \in {"pending", "captured"}
Raise(type, id, nth, amount) ==
  sent' = sent \cup {[type |-> type, id |-> id, nth |-> nth,
                      amount |-> amount]}
Mishap == mishaps < MaxMishaps /\ mishaps' = mishaps + 1

-----------------------------------------------------------------------------
(* createOrder                                                             *)

ReadForPaypalOrder(t) ==
  /\ teller[t] = Waiting
  /\ bill = "PENDING_PAYMENT"
  /\ TellerGoes(t, [op |-> "create"])
  /\ UNCHANGED <<digital, bill, payment, paypal, sent, answered, announced,
                 crossed, mishaps>>

PostPaypalOrder(t) ==
  LET id == Cardinality(DOMAIN paypal) + 1 IN
  /\ teller[t].op = "create"
  /\ id \in Ids
  /\ paypal' = [i \in 1 .. id |-> IF i = id
                  THEN [state |-> "created", refunds |-> 0, given |-> 0]
                  ELSE paypal[i]]
  /\ TellerGoes(t, [op |-> "upsert", id |-> id])
  /\ UNCHANGED <<digital, bill, payment, sent, answered, announced, crossed,
                 mishaps>>

\* The row is PENDING again, whatever it was.
UpsertPaypalPayment(t) ==
  LET id == teller[t].id
      capturing == {u \in Tellers : teller[u].op = "capture"} IN
  /\ teller[t].op = "upsert"
  /\ payment' = [payment EXCEPT !.status = "PENDING", !.orderId = id]
  /\ crossed' = (crossed \/ capturing # {} \/ \E i \in Ids : ChargedAt(i))
  /\ TellerGoes(t, Waiting)
  /\ UNCHANGED <<digital, bill, paypal, sent, answered, announced, mishaps>>

-----------------------------------------------------------------------------
(* captureOrder                                                            *)

\* MUTANT of MayCapture: the row is found by the order, not by the PayPal
\* order.
MayCaptureAny(id) == payment.orderId # 0 /\ payment.status # "PAID"

MayCapture(id) == payment.orderId = id /\ payment.status # "PAID"

ReadForCapture(t, id) ==
  /\ teller[t] = Waiting
  /\ MayCapture(id)
  /\ TellerGoes(t, [op |-> "capture", id |-> id])
  /\ UNCHANGED <<digital, bill, payment, paypal, sent, answered, announced,
                 crossed, mishaps>>

\* MUTANT of Completed: the answer's status is not looked at.
CompletedAnyway(state) == TRUE

\* response.data.status is COMPLETED: the order's, whatever its capture's is.
Completed(state) == state # "created"

\* PayPal reports a capture that settled, or was denied.
Reports(id, state) ==
  IF state \in {"captured", "denied"}
    THEN Raise(IF state = "captured" THEN "COMPLETED" ELSE "DENIED", id, 0, 0)
    ELSE UNCHANGED sent

\* PayPal takes the capture of an order once and answers with the order's
\* status; or it answers with an error, as it does the second time.
CallCapture(t) ==
  LET id == teller[t].id IN
  /\ teller[t].op = "capture"
  /\ \/ /\ paypal[id].state = "created"
        /\ \E state \in {"created", "pending", "captured", "denied"} :
             /\ paypal' = [paypal EXCEPT ![id].state = state]
             /\ Reports(id, state)
             /\ TellerGoes(t, IF Completed(state)
                                THEN [op |-> "captured", id |-> id]
                                ELSE Waiting)
     \/ TellerGoes(t, Waiting) /\ UNCHANGED <<paypal, sent>>
  /\ UNCHANGED <<digital, bill, payment, answered, announced, crossed, mishaps>>

\* The order is CONFIRMED whatever it was, digital or not.
WriteCapture(t) ==
  /\ teller[t].op = "captured"
  /\ payment' = [payment EXCEPT !.status = "PAID",
                                !.captureId = teller[t].id]
  /\ bill' = "CONFIRMED"
  /\ TellerGoes(t, Waiting)
  /\ UNCHANGED <<digital, paypal, sent, answered, announced, crossed, mishaps>>

-----------------------------------------------------------------------------
(* PayPal: a capture that was PENDING, and a refund, whole or in part      *)

CaptureSettles(id) ==
  /\ paypal[id].state = "pending"
  /\ \E state \in {"captured", "denied"} :
       /\ paypal' = [paypal EXCEPT ![id].state = state]
       /\ Reports(id, state)
  /\ UNCHANGED <<digital, bill, payment, answered, teller, announced, crossed,
                 mishaps>>

PaypalRefunds(id, amount) ==
  /\ CapturedAt(id)
  /\ paypal[id].refunds < MaxRefunds
  /\ amount \in 1 .. Price - paypal[id].given
  /\ paypal' = [paypal EXCEPT ![id].refunds = @ + 1, ![id].given = @ + amount]
  /\ Raise("REFUNDED", id, paypal[id].refunds + 1, amount)
  /\ UNCHANGED <<digital, bill, payment, answered, teller, announced, crossed,
                 mishaps>>

-----------------------------------------------------------------------------
(* handlePaypalWebhookEvent                                                *)

\* The rows an event may be about.
IsAbout(event) ==
  CASE event.type = "COMPLETED" -> event.id \in {payment.orderId,
                                                 payment.captureId}
    [] event.type = "REFUNDED" -> payment.captureId = event.id
    [] event.type = "DENIED" -> payment.orderId = event.id

\* "Already captured + idempotency event saved - true duplicate"
AlreadyCaptured(event) == /\ event.type = "COMPLETED"
                          /\ payment.status = "PAID"
                          /\ payment.event # NoEvent

ToHandle(event) ==
  payment.event # event /\ IsAbout(event) /\ ~AlreadyCaptured(event)

HookOp(type) == CASE type = "COMPLETED" -> "completed"
                  [] type = "REFUNDED" -> "refunded"
                  [] type = "DENIED" -> "denied"

ReceivePaypalEvent(t, event) ==
  /\ teller[t] = Waiting
  /\ event \in sent
  /\ IF event \in answered THEN Mishap ELSE UNCHANGED mishaps
  /\ IF ToHandle(event)
       THEN /\ TellerGoes(t, [op |-> HookOp(event.type), event |-> event,
                              seen |-> bill])
            /\ UNCHANGED answered
       ELSE answered' = answered \cup {event} /\ UNCHANGED teller
  /\ UNCHANGED <<digital, bill, payment, paypal, sent, announced, crossed>>

HandleCompleted(t) ==
  LET event == teller[t].event
      confirmed == IF digital THEN "COMPLETED" ELSE "CONFIRMED" IN
  /\ teller[t].op = "completed"
  /\ payment' = [payment EXCEPT !.status = "PAID", !.captureId = event.id,
                                !.event = event]
  /\ bill' = IF teller[t].seen = confirmed THEN bill ELSE confirmed
  /\ TellerGoes(t, [teller[t] EXCEPT !.op = "publish"])
  /\ UNCHANGED <<digital, paypal, sent, answered, announced, crossed, mishaps>>

\* A publish that throws is logged, and the event answered 200 all the same.
PublishPaid(t) ==
  /\ teller[t].op = "publish"
  /\ \/ announced' = TRUE /\ UNCHANGED mishaps
     \/ Mishap /\ UNCHANGED announced
  /\ answered' = answered \cup {teller[t].event}
  /\ TellerGoes(t, Waiting)
  /\ UNCHANGED <<digital, bill, payment, paypal, sent, crossed>>

\* Any refund makes payment and order REFUNDED.
HandleRefunded(t) ==
  LET event == teller[t].event IN
  /\ teller[t].op = "refunded"
  /\ payment' = [payment EXCEPT !.status = "REFUNDED",
                                !.refunded = event.amount, !.event = event]
  /\ bill' = "REFUNDED"
  /\ answered' = answered \cup {event}
  /\ TellerGoes(t, Waiting)
  /\ UNCHANGED <<digital, paypal, sent, announced, crossed, mishaps>>

HandleDenied(t) ==
  LET event == teller[t].event IN
  /\ teller[t].op = "denied"
  /\ payment' = [payment EXCEPT !.status = "FAILED", !.event = event]
  /\ answered' = answered \cup {event}
  /\ TellerGoes(t, Waiting)
  /\ UNCHANGED <<digital, bill, paypal, sent, announced, crossed, mishaps>>

-----------------------------------------------------------------------------
(* cancelOrder: within the window a confirmed order may still be cancelled *)

ReadForCancelling(t) ==
  /\ teller[t] = Waiting
  /\ bill \in {"PENDING_PAYMENT", "CONFIRMED"}
  /\ TellerGoes(t, [op |-> "cancel"])
  /\ UNCHANGED <<digital, bill, payment, paypal, sent, answered, announced,
                 crossed, mishaps>>

CancelBill(t) ==
  /\ teller[t].op = "cancel"
  /\ bill' = "CANCELLED"
  /\ TellerGoes(t, Waiting)
  /\ UNCHANGED <<digital, payment, paypal, sent, answered, announced, crossed,
                 mishaps>>

TellerDies(t) ==
  /\ teller[t] # Waiting
  /\ Mishap
  /\ TellerGoes(t, Waiting)
  /\ UNCHANGED <<digital, bill, payment, paypal, sent, answered, announced,
                 crossed>>

PaypalNext ==
  \/ \E t \in Tellers :
       \/ ReadForPaypalOrder(t) \/ PostPaypalOrder(t) \/ UpsertPaypalPayment(t)
       \/ \E id \in DOMAIN paypal : ReadForCapture(t, id)
       \/ CallCapture(t) \/ WriteCapture(t)
       \/ \E event \in sent : ReceivePaypalEvent(t, event)
       \/ HandleCompleted(t) \/ PublishPaid(t)
       \/ HandleRefunded(t) \/ HandleDenied(t)
       \/ ReadForCancelling(t) \/ CancelBill(t)
       \/ TellerDies(t)
  \/ \E id \in DOMAIN paypal : CaptureSettles(id)
  \/ \E id \in DOMAIN paypal, amount \in 1 .. Price : PaypalRefunds(id, amount)

PaypalSpec == PaypalInit /\ [][PaypalNext]_paypalVars

-----------------------------------------------------------------------------
\* Whatever overlaps, dies or is delivered twice: a payment is PAID, and its
\* order CONFIRMED, only after PayPal took a capture, which may yet be PENDING
\* or denied, as captureOrder does not ask; but an order is announced, and a
\* digital one COMPLETED, only after a capture really settled, since that is
\* the webhook's to do; and a refund on the row is one PayPal gave.
PaypalPaidIsCaptured ==
  /\ payment.status = "PAID" => TakenAt(payment.captureId)
  /\ bill = "CONFIRMED" => \E id \in Ids : TakenAt(id)
  /\ bill = "COMPLETED" \/ announced => \E id \in Ids : CapturedAt(id)
  /\ payment.refunded > 0 =>
       \E id \in Ids : CapturedAt(id) /\ payment.refunded <= paypal[id].given

\* A buyer who has several PayPal orders created, in as many tabs, is charged
\* by one of them, as only the one on the row can be captured; unless it came
\* onto the row while another was being captured, or was PENDING or settled.
ChargedByOne ==
  ~crossed => \A i, j \in Ids : ChargedAt(i) /\ ChargedAt(j) => i = j
=============================================================================
