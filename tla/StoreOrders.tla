---------------------------- MODULE StoreOrders ----------------------------
(***************************************************************************)
(* One order and the part each shop has in it: the Order row, one          *)
(* StoreOrder row per shop, and everything that moves their statuses.      *)
(*                                                                         *)
(*   orders.service.ts                  cancelOrder, adminCancelOrder,     *)
(*                                      updateStatus, markShipped          *)
(*   order-status-sync.ts               syncOrderStatusFromShops           *)
(*   order-progress.service.ts          moveOrders, saveSteps              *)
(*   seller-order-detail.service.ts     setStage                           *)
(*   store-orders.service.ts            updateStoreOrder,                  *)
(*                                      markStoreOrderShipped              *)
(*   tracking-webhook.controller.ts     handleWebhook (EasyPost)           *)
(*   label.service.ts                   purchaseLabel                      *)
(*   order.processor.ts                 handleConfirmStoreOrders           *)
(*                                                                         *)
(* A request reads, checks, and then runs one transaction.  PostgreSQL     *)
(* runs it READ COMMITTED: each statement is a step of its own that sees   *)
(* what is committed (and its own writes), an UPDATE waits until no other  *)
(* transaction has written its row, and COMMIT releases every row.  A      *)
(* transaction may be rolled back at any statement: a deadlock, the time   *)
(* limit of Prisma, a lost connection.                                     *)
(*                                                                         *)
(* Left out: status history, timestamps, e-mail to the buyer, the names    *)
(* of a shop's own steps (a row is on one of them or on none).  EasyPost's *)
(* tracker of an order follows its tracking number.                        *)
(***************************************************************************)
EXTENDS Naturals, FiniteSets

CONSTANTS
  Shops,                  \* the shops with items in the order
  Parcels,                \* tracking numbers
  Requests,               \* requests the API can serve at one time
  Operations,             \* the operations that are called
  AdminStatuses,          \* what updateStatus is asked for
  OnlinePaymentsEnabled,  \* FALSE: checkout takes manual order requests
  Attempts,               \* DEFAULT_JOB_OPTIONS.attempts
  Keep,                   \* a field an UPDATE leaves alone
  MaxRequests,            \* bound: calls of the API
  MaxFaults               \* bound: failures of confirm-store-orders

VARIABLES
  order,        \* the Order row, as committed
  storeOrders,  \* storeOrders[s]: shop s's StoreOrder row, as committed
  requests,     \* requests[p]: what request p is doing
  job,          \* the confirm-store-orders job of the order
  credits,      \* credits[s]: increments of Store.totalOrders
  emails,       \* emails[s]: new-store-order mails queued for s
  pushes,       \* pushes[s]: fulfilment pushes queued for s
  reopened,     \* history: times s's row left CONFIRMED
  started,      \* calls of the API so far
  faults        \* failures of the job so far

rows == <<order, storeOrders>>
queues == <<credits, emails, pushes>>
vars == <<rows, requests, job, queues, reopened, started, faults>>

OrderStatus == {"PENDING_PAYMENT", "CONFIRMED", "IN_PRODUCTION", "SHIPPED",
                "DELIVERED", "COMPLETED", "CANCELLED", "REFUND_REQUESTED",
                "REFUNDED", "DISPUTED"}

ASSUME ShopsAssumption == IsFiniteSet(Shops)
ASSUME OperationsAssumption == AdminStatuses \subseteq OrderStatus
ASSUME FlagAssumption == OnlinePaymentsEnabled \in BOOLEAN
ASSUME KeepAssumption == Keep \notin OrderStatus \cup Parcels \cup {"CUSTOM"}
ASSUME BoundsAssumption == /\ Attempts \in Nat \ {0}
                           /\ MaxRequests \in Nat
                           /\ MaxFaults \in Nat

-----------------------------------------------------------------------------
(* Types                                                                   *)

\* What an operation asks for: a status, or a step of the shop's own.
Target == OrderStatus \cup {"CUSTOM", Keep}

OrderRow == [status : OrderStatus, parcel : Parcels \cup {Keep},
             labelled : BOOLEAN]

StoreOrderRow == [status : OrderStatus, custom : BOOLEAN,
                  parcel : Parcels \cup {Keep}]

\* wrote, locked: the rows the transaction has written and holds locked.
\* status: what it wrote into Order.status.  stage: what the sync read from
\* Order.status, then what it derived.
Request == [op : {"none", "cancel", "repair", "updateStatus", "markShipped",
                  "move", "track", "saveSteps", "carrier", "label", "pay",
                  "refund"},
            pc : {"idle", "match", "order", "rows", "sync", "derive",
                  "advance", "stamp", "commit"},
            todo : SUBSET Shops, wrote : SUBSET Shops, locked : BOOLEAN,
            to : Target, parcel : Parcels \cup {Keep},
            status : OrderStatus \cup {Keep}, stage : OrderStatus \cup {Keep}]

Idle == [op |-> "none", pc |-> "idle", todo |-> {}, wrote |-> {},
         locked |-> FALSE, to |-> Keep, parcel |-> Keep, status |-> Keep,
         stage |-> Keep]

Job == [phase : {"none", "waiting", "running", "done", "dead"},
        tries : 0 .. Attempts, left : SUBSET Shops, current : SUBSET Shops,
        at : {"confirm", "email", "push"}]

TypeOK ==
  /\ order \in OrderRow
  /\ storeOrders \in [Shops -> StoreOrderRow]
  /\ requests \in [Requests -> Request]
  /\ job \in Job
  /\ credits \in [Shops -> Nat]
  /\ emails \in [Shops -> Nat]
  /\ pushes \in [Shops -> Nat]
  /\ reopened \in [Shops -> Nat]
  /\ started \in 0 .. MaxRequests
  /\ faults \in 0 .. MaxFaults

\* checkout's initialStatus, of the order and of every shop's row.
InitialStatus == IF OnlinePaymentsEnabled THEN "PENDING_PAYMENT"
                                          ELSE "CONFIRMED"

Init ==
  /\ order = [status |-> InitialStatus, parcel |-> Keep, labelled |-> FALSE]
  /\ storeOrders = [s \in Shops |-> [status |-> InitialStatus,
                                     custom |-> FALSE, parcel |-> Keep]]
  /\ requests = [p \in Requests |-> Idle]
  /\ job = [phase |-> "none", tries |-> 0, left |-> {}, current |-> {},
            at |-> "confirm"]
  /\ credits = [s \in Shops |-> 0]
  /\ emails = [s \in Shops |-> 0]
  /\ pushes = [s \in Shops |-> 0]
  /\ reopened = [s \in Shops |-> 0]
  /\ started = 0
  /\ faults = 0

-----------------------------------------------------------------------------
(* Deriving the order's stage                                              *)

\* FULFILMENT_STAGES, least to most advanced.
Rank == [CONFIRMED |-> 1, IN_PRODUCTION |-> 2, SHIPPED |-> 3,
         DELIVERED |-> 4, COMPLETED |-> 5]
FulfilmentStages == DOMAIN Rank

\* MUTANT of IsFulfilmentStage: money states are synced over too.
IsFulfilmentStageAlways(status) == TRUE

IsFulfilmentStage(status) == status \in FulfilmentStages

\* MUTANT of LeastAdvanced: the most advanced shop speaks for the order.
MostAdvanced(statuses) ==
  IF statuses # {} /\ statuses \subseteq FulfilmentStages
    THEN CHOOSE x \in statuses : \A y \in statuses : Rank[y] <= Rank[x]
    ELSE Keep

\* leastAdvancedFulfilmentStatus; Keep for its null.
LeastAdvanced(statuses) ==
  IF statuses # {} /\ statuses \subseteq FulfilmentStages
    THEN CHOOSE x \in statuses : \A y \in statuses : Rank[x] <= Rank[y]
    ELSE Keep

Settled == {"CANCELLED", "REFUNDED"}

-----------------------------------------------------------------------------
(* A transaction's rows                                                    *)

\* MUTANT of PublicStatus: the shop's own step is written as a status.
PublicStatusRaw(to) == to

\* moveOrders: a step of the shop's own is IN_PRODUCTION to the buyer.
PublicStatus(to) == IF to = "CUSTOM" THEN "IN_PRODUCTION" ELSE to

\* Shop s's row once the transaction of r has written it.  A cancellation
\* leaves progressStepId alone.
Updated(r, s) ==
  [status |-> IF r.to = Keep THEN storeOrders[s].status
                             ELSE PublicStatus(r.to),
   custom |-> IF r.to = Keep \/ r.op \in {"cancel", "repair"}
                THEN storeOrders[s].custom ELSE r.to = "CUSTOM",
   parcel |-> IF r.parcel = Keep \/ r.op = "carrier"
                THEN storeOrders[s].parcel ELSE r.parcel]

\* What the transaction of r reads: its own writes over the committed rows.
SeesOrder(r) == IF r.status = Keep THEN order.status ELSE r.status
SeesShop(r, s) == IF s \in r.wrote THEN Updated(r, s).status
                                   ELSE storeOrders[s].status

\* An UPDATE of the row can go ahead: no other transaction has written it.
RowFree(s) == \A q \in Requests : s \notin requests[q].wrote
OrderFree(p) == \A q \in Requests \ {p} : ~ requests[q].locked

\* The rows the WHERE clause of r's UPDATE holds for.
Matches(r, s) ==
  /\ r.op = "repair" => storeOrders[s].status # "CANCELLED"
  /\ r.op = "saveSteps" => storeOrders[s].custom

-----------------------------------------------------------------------------
(* The operations: what each reads and checks before its transaction       *)

Begin(p, op, pc, todo, to, parcel) ==
  /\ requests[p] = Idle
  /\ started < MaxRequests
  /\ started' = started + 1
  /\ requests' = [requests EXCEPT ![p] =
       [Idle EXCEPT !.op = op, !.pc = pc, !.todo = todo, !.to = to,
                    !.parcel = parcel]]
  /\ UNCHANGED <<rows, job, queues, reopened, faults>>

\* MUTANT of CancelRows: only the parent order is cancelled.
CancelRowsNone == {}

\* The rows a cancellation cancels along with the order.
CancelRows == Shops

\* The two-hour window of a paid order is open or not: time is left out.
CancelOrder(p) ==
  /\ "cancelOrder" \in Operations
  /\ \/ order.status = "PENDING_PAYMENT"
     \/ order.status = "CONFIRMED" /\ OnlinePaymentsEnabled
  /\ Begin(p, "cancel", "rows", CancelRows, "CANCELLED", Keep)

AdminCancelOrder(p) ==
  /\ "adminCancelOrder" \in Operations
  /\ order.status # "CANCELLED"
  /\ Begin(p, "cancel", "rows", CancelRows, "CANCELLED", Keep)

\* adminCancelOrder on a cancelled order repairs the shops' rows.
AdminCancelAgain(p) ==
  /\ "adminCancelOrder" \in Operations
  /\ order.status = "CANCELLED"
  /\ Begin(p, "repair", "rows",
           {s \in Shops : storeOrders[s].status # "CANCELLED"},
           "CANCELLED", Keep)

\* The current status is not looked at.
UpdateStatus(p, to) ==
  /\ "updateStatus" \in Operations
  /\ to \in AdminStatuses \ {"SHIPPED", "COMPLETED"}
  /\ Begin(p, "updateStatus", "order", {}, to, Keep)

\* From a shop's seat (its own row), or the platform's (every row).
MarkShipped(p, shops, n) ==
  /\ "markShipped" \in Operations
  /\ order.status \notin {"CANCELLED", "REFUNDED", "DELIVERED", "COMPLETED"}
  /\ Begin(p, "markShipped", "order", shops, "SHIPPED", n)

\* updateStoreOrder with a status, and with or without a tracking number.
UpdateStoreOrder(p, s, to, n) ==
  /\ "updateStoreOrder" \in Operations
  /\ to \in {"IN_PRODUCTION", "DELIVERED"}
  /\ Begin(p, "move", "rows", {s}, to, n)

\* updateStoreOrder with a tracking number alone, and what a print
\* provider's webhook writes: nothing is synced.
TrackStoreOrder(p, s, n) ==
  /\ "updateStoreOrder" \in Operations
  /\ Begin(p, "track", "rows", {s}, Keep, n)

SellerStages == {"CONFIRMED", "IN_PRODUCTION", "DELIVERED"}

SetStage(p, s, to) ==
  /\ "setStage" \in Operations
  /\ to \in SellerStages
  /\ Begin(p, "move", "rows", {s}, to, Keep)

MoveOrders(p, s, to) ==
  /\ "moveOrders" \in Operations
  /\ to \in {"CONFIRMED", "IN_PRODUCTION", "CUSTOM", "DELIVERED", "COMPLETED"}
  /\ Begin(p, "move", "rows", {s}, to, Keep)

MarkStoreOrderShipped(p, s, n) ==
  /\ "markStoreOrderShipped" \in Operations
  /\ storeOrders[s].status \notin {"SHIPPED", "DELIVERED"}
  /\ Begin(p, "move", "rows", {s}, "SHIPPED", n)

\* saveSteps without the step shop s's row is on.
SaveSteps(p, s) ==
  /\ "saveSteps" \in Operations
  /\ storeOrders[s].custom
  /\ Begin(p, "saveSteps", "rows", {s}, "IN_PRODUCTION", Keep)

\* EasyPost says parcel n was delivered; the order is found by its number.
HandleWebhook(p, n) ==
  /\ "handleWebhook" \in Operations
  /\ order.parcel = n
  /\ order.status # "DELIVERED"
  /\ Begin(p, "carrier", "match", {}, "DELIVERED", n)

PurchaseLabel(p, n) ==
  /\ "purchaseLabel" \in Operations
  /\ ~ order.labelled
  /\ Begin(p, "label", "order", {}, "SHIPPED", n)

\* The payment's webhook (StripePayments): it succeeds once.
PaymentSucceeded(p) ==
  /\ OnlinePaymentsEnabled
  /\ job.phase = "none"
  /\ \A q \in Requests : requests[q].op # "pay"
  /\ Begin(p, "pay", "order", {}, "CONFIRMED", Keep)

\* createRefund of the whole amount (StripePayments).
RefundInFull(p) ==
  /\ "createRefund" \in Operations
  /\ job.phase # "none"
  /\ Begin(p, "refund", "order", {}, "REFUNDED", Keep)

-----------------------------------------------------------------------------
(* The statements of a transaction                                         *)

Step(p, r) ==
  /\ requests' = [requests EXCEPT ![p] = r]
  /\ UNCHANGED <<rows, job, queues, reopened, started, faults>>

\* Where the transaction goes once its rows are written, and once synced.
AfterRows(op) == CASE op = "cancel" -> "order"
                   [] op \in {"updateStatus", "repair", "track"} -> "commit"
                   [] OTHER -> "sync"
AfterSync(op) == IF op = "carrier" THEN "stamp" ELSE "commit"

\* The webhook's rows: those of the parcel, else those under way; an order
\* with neither is taken for one without rows.
MatchRows(p) ==
  LET r == requests[p]
      ofParcel == {s \in Shops : storeOrders[s].parcel = r.parcel}
      underWay == {s \in Shops : storeOrders[s].status = "SHIPPED"}
      targets == IF ofParcel # {} THEN ofParcel ELSE underWay
  IN /\ r.pc = "match"
     /\ Step(p, [r EXCEPT !.todo = targets,
                          !.pc = IF targets = {} THEN "order" ELSE "rows"])

UpdateRow(p, s) ==
  LET r == requests[p]
  IN /\ r.pc = "rows"
     /\ s \in r.todo
     /\ RowFree(s)
     /\ Step(p, [r EXCEPT !.todo = @ \ {s},
                          !.wrote = IF Matches(r, s) THEN @ \cup {s} ELSE @])

RowsDone(p) ==
  LET r == requests[p]
  IN /\ r.pc = "rows"
     /\ r.todo = {}
     /\ Step(p, [r EXCEPT !.pc = AfterRows(r.op)])

\* updateStatus's progressKind: the statuses it gives the shops' rows too.
ProgressKinds == {"CONFIRMED", "IN_PRODUCTION", "DELIVERED"}

\* markShipped writes the tracking columns; updateStatus goes on to the rows
\* for a fulfilment status.
UpdateOrder(p) ==
  LET r == requests[p]
      toRows == r.op = "updateStatus" /\ r.to \in ProgressKinds
  IN /\ r.pc = "order"
     /\ OrderFree(p)
     /\ Step(p, [r EXCEPT
          !.locked = TRUE,
          !.status = IF r.op = "markShipped" THEN Keep ELSE r.to,
          !.todo = IF toRows THEN Shops ELSE @,
          !.pc = IF r.op = "markShipped" \/ toRows THEN "rows"
                                                   ELSE "commit"])

\* syncOrderStatusFromShops: read the order, ...
SyncReadsOrder(p) ==
  LET r == requests[p]
  IN /\ r.pc = "sync"
     /\ Step(p, IF IsFulfilmentStage(SeesOrder(r))
                  THEN [r EXCEPT !.pc = "derive", !.stage = SeesOrder(r)]
                  ELSE [r EXCEPT !.pc = AfterSync(r.op)])

\* ... read the shops still at work and derive the stage, ...
SyncReadsShops(p) ==
  LET r == requests[p]
      statuses == {SeesShop(r, s) : s \in Shops} \ Settled
      derived == LeastAdvanced(statuses)
  IN /\ r.pc = "derive"
     /\ Step(p, IF derived \in {Keep, r.stage}
                  THEN [r EXCEPT !.pc = AfterSync(r.op), !.stage = Keep]
                  ELSE [r EXCEPT !.pc = "advance", !.stage = derived])

\* ... write the order.
SyncUpdatesOrder(p) ==
  LET r == requests[p]
  IN /\ r.pc = "advance"
     /\ OrderFree(p)
     /\ Step(p, [r EXCEPT !.locked = TRUE, !.status = r.stage,
                          !.stage = Keep, !.pc = AfterSync(r.op)])

\* The webhook stamps deliveredAt on an order it sees delivered.
StampDelivered(p) ==
  LET r == requests[p]
      delivered == SeesOrder(r) = "DELIVERED"
  IN /\ r.pc = "stamp"
     /\ delivered => OrderFree(p)
     /\ Step(p, [r EXCEPT !.locked = @ \/ delivered, !.pc = "commit"])

\* A payment's commit is followed by its event (EventBus), and that by the
\* confirm-store-orders job.
Commit(p) ==
  LET r == requests[p]
      leaves(s) == /\ s \in r.wrote
                   /\ storeOrders[s].status = "CONFIRMED"
                   /\ Updated(r, s).status # "CONFIRMED"
  IN /\ r.pc = "commit"
     /\ order' = [status |-> SeesOrder(r),
                  parcel |-> IF r.op \in {"markShipped", "label"}
                               THEN r.parcel ELSE order.parcel,
                  labelled |-> order.labelled \/ r.op = "label"]
     /\ storeOrders' = [s \in Shops |-> IF s \in r.wrote
                                          THEN Updated(r, s)
                                          ELSE storeOrders[s]]
     /\ reopened' = [s \in Shops |-> IF leaves(s) THEN reopened[s] + 1
                                                  ELSE reopened[s]]
     /\ job' = IF r.op = "pay" THEN [job EXCEPT !.phase = "waiting"] ELSE job
     /\ requests' = [requests EXCEPT ![p] = Idle]
     /\ UNCHANGED <<queues, started, faults>>

\* A deadlock, Prisma's time limit, a lost connection: nothing was written.
Rollback(p) ==
  /\ requests[p] # Idle
  /\ Step(p, Idle)

-----------------------------------------------------------------------------
(* confirm-store-orders                                                    *)

\* An exception or a stalled worker, between any two steps.
JobFails ==
  /\ job.phase = "running"
  /\ faults < MaxFaults
  /\ faults' = faults + 1
  /\ job' = [job EXCEPT !.phase = IF job.tries < Attempts THEN "waiting"
                                                          ELSE "dead"]
  /\ UNCHANGED <<rows, requests, queues, reopened, started>>

TakeJob ==
  /\ job.phase = "waiting"
  /\ job' = [phase |-> "running", tries |-> job.tries + 1, left |-> Shops,
             current |-> {}, at |-> "confirm"]
  /\ UNCHANGED <<rows, requests, queues, reopened, started, faults>>

\* MUTANT of ToCredit: the row is confirmed and credited whatever it was.
ToCreditAlways(s) == TRUE

\* The compare-and-set: the rows its WHERE clause holds for.
ToCredit(s) == storeOrders[s].status # "CONFIRMED"

\* MUTANT of ConfirmRow: no e-mail and no push unless this attempt credits.
ConfirmRowGated(s) ==
  /\ job.phase = "running" /\ job.at = "confirm"
  /\ s \in job.left
  /\ RowFree(s)
  /\ IF ToCredit(s)
       THEN /\ storeOrders' = [storeOrders EXCEPT ![s].status = "CONFIRMED"]
            /\ credits' = [credits EXCEPT ![s] = @ + 1]
            /\ job' = [job EXCEPT !.left = @ \ {s}, !.current = {s},
                                  !.at = "email"]
       ELSE /\ job' = [job EXCEPT !.left = @ \ {s}]
            /\ UNCHANGED <<storeOrders, credits>>
  /\ UNCHANGED <<order, requests, emails, pushes, reopened, started, faults>>

\* The compare-and-set and the credit are one transaction.
ConfirmRow(s) ==
  /\ job.phase = "running" /\ job.at = "confirm"
  /\ s \in job.left
  /\ RowFree(s)
  /\ IF ToCredit(s)
       THEN /\ storeOrders' = [storeOrders EXCEPT ![s].status = "CONFIRMED"]
            /\ credits' = [credits EXCEPT ![s] = @ + 1]
       ELSE UNCHANGED <<storeOrders, credits>>
  /\ job' = [job EXCEPT !.left = @ \ {s}, !.current = {s}, !.at = "email"]
  /\ UNCHANGED <<order, requests, emails, pushes, reopened, started, faults>>

\* MUTANT of Enqueued: no job id, so every add creates a job.
EnqueuedAgain(queued) == queued + 1

\* Jobs queued under a shop's job id after one more add.
Enqueued(queued) == IF queued = 0 THEN 1 ELSE queued

AddEmail(s) ==
  /\ job.phase = "running" /\ job.at = "email"
  /\ s \in job.current
  /\ emails' = [emails EXCEPT ![s] = Enqueued(@)]
  /\ job' = [job EXCEPT !.at = "push"]
  /\ UNCHANGED <<rows, requests, credits, pushes, reopened, started, faults>>

AddPush(s) ==
  /\ job.phase = "running" /\ job.at = "push"
  /\ s \in job.current
  /\ pushes' = [pushes EXCEPT ![s] = Enqueued(@)]
  /\ job' = [job EXCEPT !.current = {}, !.at = "confirm"]
  /\ UNCHANGED <<rows, requests, credits, emails, reopened, started, faults>>

FinishJob ==
  /\ job.phase = "running" /\ job.at = "confirm"
  /\ job.left = {}
  /\ job' = [job EXCEPT !.phase = "done"]
  /\ UNCHANGED <<rows, requests, queues, reopened, started, faults>>

-----------------------------------------------------------------------------
(* The specification                                                       *)

Call(p) ==
  \/ CancelOrder(p) \/ AdminCancelOrder(p) \/ AdminCancelAgain(p)
  \/ PaymentSucceeded(p) \/ RefundInFull(p)
  \/ \E to \in AdminStatuses : UpdateStatus(p, to)
  \/ \E n \in Parcels : \/ HandleWebhook(p, n) \/ PurchaseLabel(p, n)
                        \/ MarkShipped(p, Shops, n)
  \/ \E s \in Shops :
       \/ SaveSteps(p, s)
       \/ \E to \in Target : SetStage(p, s, to) \/ MoveOrders(p, s, to)
       \/ \E to \in Target, n \in Parcels \cup {Keep} :
            UpdateStoreOrder(p, s, to, n)
       \/ \E n \in Parcels : \/ MarkShipped(p, {s}, n)
                             \/ MarkStoreOrderShipped(p, s, n)
                             \/ TrackStoreOrder(p, s, n)

Statement(p) ==
  \/ MatchRows(p) \/ RowsDone(p) \/ UpdateOrder(p)
  \/ SyncReadsOrder(p) \/ SyncReadsShops(p) \/ SyncUpdatesOrder(p)
  \/ StampDelivered(p) \/ Commit(p)
  \/ \E s \in Shops : UpdateRow(p, s)

Work ==
  \/ TakeJob \/ FinishJob
  \/ \E s \in Shops : ConfirmRow(s) \/ AddEmail(s) \/ AddPush(s)

Next ==
  \/ \E p \in Requests : Call(p) \/ Statement(p) \/ Rollback(p)
  \/ Work
  \/ JobFails

Spec == Init /\ [][Next]_vars

\* A transaction goes on or is rolled back, and the queue's worker works.
FairSpec ==
  /\ Spec
  /\ \A p \in Requests : WF_vars(Statement(p) \/ Rollback(p))
  /\ WF_vars(Work)

-----------------------------------------------------------------------------
(* Properties                                                              *)

AllIdle == \A p \in Requests : requests[p] = Idle

\* A shop is credited again only if its row left CONFIRMED after the last
\* credit: retries of the job alone never credit twice.
CreditsBounded ==
  \A s \in Shops :
    credits[s] <= reopened[s]
                    + (IF storeOrders[s].status = "CONFIRMED" THEN 1 ELSE 0)

\* However often the job is retried, a shop gets one e-mail and one push:
\* a second push is a second real print order.
PushedOnce == \A s \in Shops : emails[s] <= 1 /\ pushes[s] <= 1

\* Once the job completes, no shop was passed over.
NoShopMissed ==
  job.phase = "done" => \A s \in Shops : emails[s] > 0 /\ pushes[s] > 0

\* A cancellation that commits leaves no shop's row behind, whatever ran
\* while it did.
CancelsWhole ==
  [][\A p \in Requests :
       (requests[p].op = "cancel" /\ requests[p].pc = "commit"
          /\ requests'[p] = Idle /\ rows' # rows)
       => /\ order'.status = "CANCELLED"
          /\ \A s \in Shops : storeOrders'[s].status = "CANCELLED"]_vars

\* order-status-sync.ts: no shop's work drags an order out of a state that
\* was decided elsewhere.
MoneyStands ==
  [][\A p \in Requests :
       (requests[p].op \in {"move", "saveSteps", "markShipped"}
          /\ requests'[p] = Idle /\ order.status \notin FulfilmentStages)
       => order'.status = order.status]_vars

\* order-status-sync.ts: while nothing is under way, an order being fulfilled
\* is exactly as far along as its least advanced shop.
FollowsLeastAdvanced ==
  LET active == {storeOrders[s].status : s \in Shops} \ Settled
  IN (/\ AllIdle
      /\ order.status \in FulfilmentStages
      /\ active # {} /\ active \subseteq FulfilmentStages)
     => /\ order.status \in active
        /\ \A x \in active : Rank[order.status] <= Rank[x]

\* Every shop of a paid order is told in the end.
EveryShopTold ==
  job.phase = "waiting" ~> \A s \in Shops : emails[s] > 0 /\ pushes[s] > 0

=============================================================================
