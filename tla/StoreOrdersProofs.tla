------------------------- MODULE StoreOrdersProofs -------------------------
(***************************************************************************)
(* What TLAPS proves of an order and its shops, for any set of shops, any  *)
(* number of concurrent requests and any number of failures: types, that a *)
(* shop is credited again only after its row left CONFIRMED, that the job  *)
(* of a paid order queues one mail and one push for every shop before it   *)
(* completes, and that a cancellation takes every shop's row along.        *)
(*                                                                         *)
(* Most actions only move one request on (Step) or start one (Begin): what *)
(* those keep is proved once (StepKeeps, BeginKeeps), and what is left for *)
(* an action is that the request it leaves is of the right shape (Sound).  *)
(*                                                                         *)
(* Of calls served one at a time, whatever they are, the sync is proved    *)
(* to do what its comments say (MoneyStandsAlone, FollowsAlone); of calls  *)
(* that overlap it does not.                                               *)
(***************************************************************************)
EXTENDS StoreOrders, TLAPS

-----------------------------------------------------------------------------
(* The inductive invariant                                                 *)

\* A request on its way: only moveOrders asks for a step of the shop's own,
\* and a cancellation has every row written or still to write.
Sound(r) ==
  /\ r.to = "CUSTOM" => r.op = "move" /\ r.pc \notin {"match", "order"}
  /\ r.op = "cancel" =>
       /\ r.pc \in {"rows", "order", "commit"}
       /\ r.to = "CANCELLED"
       /\ Shops = r.wrote \cup r.todo
       /\ r.pc # "rows" => r.todo = {}
       /\ r.pc = "commit" => r.status = "CANCELLED"

RequestsSound == \A p \in Requests : Sound(requests[p])

\* The payment of the order succeeds once.
OnePayment ==
  \A p \in Requests : requests[p].op = "pay" =>
    /\ job.phase = "none"
    /\ \A q \in Requests : requests[q].op = "pay" => q = p

\* Shop s has its mail and its push.
Told(s) == emails[s] > 0 /\ pushes[s] > 0

\* Where the loop over the rows stands.
JobSound ==
  /\ job.phase \in {"none", "waiting"} => job.tries < Attempts
  /\ job.phase = "running" =>
       /\ job.at = "confirm" => job.current = {}
       /\ job.at # "confirm" => \E s \in Shops : job.current = {s}
       /\ job.at = "push" => \A s \in job.current : emails[s] > 0
       /\ \A s \in Shops \ (job.left \cup job.current) : Told(s)

Inv == TypeOK /\ RequestsSound /\ OnePayment /\ JobSound

-----------------------------------------------------------------------------
(* Operators                                                               *)

\* Among fulfilment stages one is least advanced.
LEMMA LeastExists ==
  ASSUME NEW S, S # {}, S \subseteq FulfilmentStages
  PROVE  \E x \in S : \A y \in S : Rank[x] <= Rank[y]
<1>1. FulfilmentStages = {"CONFIRMED", "IN_PRODUCTION", "SHIPPED",
                          "DELIVERED", "COMPLETED"}
  BY DEF FulfilmentStages, Rank
<1>2. /\ Rank["CONFIRMED"] = 1 /\ Rank["IN_PRODUCTION"] = 2
      /\ Rank["SHIPPED"] = 3 /\ Rank["DELIVERED"] = 4
      /\ Rank["COMPLETED"] = 5
  BY DEF Rank
<1>3. CASE "CONFIRMED" \in S
  BY <1>1, <1>2, <1>3
<1>4. CASE "CONFIRMED" \notin S /\ "IN_PRODUCTION" \in S
  BY <1>1, <1>2, <1>4
<1>5. CASE /\ "CONFIRMED" \notin S /\ "IN_PRODUCTION" \notin S
           /\ "SHIPPED" \in S
  BY <1>1, <1>2, <1>5
<1>6. CASE /\ "CONFIRMED" \notin S /\ "IN_PRODUCTION" \notin S
           /\ "SHIPPED" \notin S
  <2>1. S \subseteq {"DELIVERED", "COMPLETED"}
    BY <1>1, <1>6
  <2>2. CASE "DELIVERED" \in S
    BY <1>2, <2>1, <2>2
  <2>3. CASE "DELIVERED" \notin S
    <3>1. S = {"COMPLETED"}
      BY <2>1, <2>3
    <3> QED
      BY <1>2, <3>1
  <2> QED
    BY <2>2, <2>3
<1> QED
  BY <1>3, <1>4, <1>5, <1>6

\* leastAdvancedFulfilmentStatus returns null, or one of the statuses, and
\* no other is less advanced.
LEMMA LeastAdvancedSpec ==
  ASSUME NEW S
  PROVE  /\ (S # {} /\ S \subseteq FulfilmentStages) =>
              /\ LeastAdvanced(S) \in S
              /\ \A y \in S : Rank[LeastAdvanced(S)] <= Rank[y]
         /\ LeastAdvanced(S) \in OrderStatus \cup {Keep}
<1>1. FulfilmentStages \subseteq OrderStatus
  BY DEF FulfilmentStages, Rank, OrderStatus
<1>2. CASE S # {} /\ S \subseteq FulfilmentStages
  BY <1>1, <1>2, LeastExists DEF LeastAdvanced
<1>3. CASE ~ (S # {} /\ S \subseteq FulfilmentStages)
  BY <1>3 DEF LeastAdvanced
<1> QED
  BY <1>2, <1>3

\* What a transaction writes and reads are rows.
LEMMA RowTypes ==
  ASSUME TypeOK, NEW p \in Requests
  PROVE  /\ requests[p] \in Request
         /\ SeesOrder(requests[p]) \in OrderStatus
         /\ \A s \in Shops : Updated(requests[p], s) \in StoreOrderRow
<1> DEFINE r == requests[p]
<1>1. r \in Request /\ order \in OrderRow
  BY DEF TypeOK
<1>2. SeesOrder(r) \in OrderStatus
  BY <1>1 DEF SeesOrder, Request, OrderRow
<1>3. ASSUME NEW s \in Shops PROVE Updated(r, s) \in StoreOrderRow
  <2>1. storeOrders[s] \in StoreOrderRow
    BY DEF TypeOK
  <2>2. /\ storeOrders[s].status \in OrderStatus
        /\ storeOrders[s].custom \in BOOLEAN
        /\ storeOrders[s].parcel \in Parcels \cup {Keep}
    BY <2>1 DEF StoreOrderRow
  <2>3. r.to \in OrderStatus \cup {"CUSTOM", Keep}
    BY <1>1 DEF Request, Target
  <2>4. PublicStatus(r.to) \in OrderStatus \/ r.to = Keep
    BY <2>3 DEF PublicStatus, OrderStatus
  <2>5. r.parcel \in Parcels \cup {Keep}
    BY <1>1 DEF Request
  <2> QED
    BY <2>2, <2>4, <2>5 DEF Updated, StoreOrderRow
<1> QED
  BY <1>1, <1>2, <1>3

\* A request slot that is free.
LEMMA IdleSound == Idle \in Request /\ Sound(Idle) /\ Idle.op # "pay"
<1>1. /\ Idle.op = "none" /\ Idle.to = Keep /\ Idle \in Request
  BY DEF Idle, Request, Target
<1> QED
  BY <1>1, KeepAssumption DEF Sound

-----------------------------------------------------------------------------
(* Steps of requests                                                       *)

\* Moving a request on keeps the invariant.
LEMMA StepKeeps ==
  ASSUME Inv, NEW p \in Requests, NEW r \in Request, Step(p, r),
         Sound(r), r.op = "pay" => requests[p].op = "pay"
  PROVE  Inv'
<1>1. requests' = [requests EXCEPT ![p] = r]
      /\ UNCHANGED <<order, storeOrders, job, credits, emails, pushes,
                     reopened, started, faults>>
  BY DEF Step, rows, queues
<1>2. TypeOK'
  BY <1>1 DEF Inv, TypeOK
<1>3. RequestsSound'
  BY <1>1 DEF Inv, TypeOK, RequestsSound, Sound
<1>4. OnePayment'
  <2> SUFFICES ASSUME NEW q \in Requests, requests'[q].op = "pay"
               PROVE  /\ job'.phase = "none"
                      /\ \A t \in Requests :
                           requests'[t].op = "pay" => t = q
    BY DEF OnePayment
  <2>1. \A t \in Requests :
          requests'[t].op = "pay" => requests[t].op = "pay"
    BY <1>1 DEF Inv, TypeOK
  <2> QED
    BY <1>1, <2>1 DEF Inv, OnePayment
<1>5. JobSound'
  BY <1>1 DEF Inv, JobSound, Told
<1> QED
  BY <1>2, <1>3, <1>4, <1>5 DEF Inv

\* So does starting one.
LEMMA BeginKeeps ==
  ASSUME Inv, NEW p \in Requests, NEW op, NEW pc, NEW todo \in SUBSET Shops,
         NEW to \in Target, NEW parcel \in Parcels \cup {Keep},
         Begin(p, op, pc, todo, to, parcel),
         op \in {"cancel", "repair", "updateStatus", "markShipped", "move",
                 "track", "saveSteps", "carrier", "label", "refund", "pay"},
         pc \in {"match", "order", "rows"},
         to = "CUSTOM" => op = "move" /\ pc = "rows",
         op = "cancel" => /\ pc = "rows" /\ to = "CANCELLED"
                          /\ todo = Shops,
         op = "pay" => /\ job.phase = "none"
                       /\ \A q \in Requests : requests[q].op # "pay"
  PROVE  Inv'
<1> DEFINE r == [Idle EXCEPT !.op = op, !.pc = pc, !.todo = todo, !.to = to,
                             !.parcel = parcel]
<1>1. /\ r.op = op /\ r.pc = pc /\ r.todo = todo /\ r.to = to
      /\ r.parcel = parcel /\ r.wrote = {} /\ r \in Request
  BY DEF Idle, Request
<1>2. /\ requests' = [requests EXCEPT ![p] = r]
      /\ started < MaxRequests /\ started' = started + 1
      /\ UNCHANGED <<order, storeOrders, job, credits, emails, pushes,
                     reopened, faults>>
  BY DEF Begin, rows, queues
<1> HIDE DEF r
<1>3. started' \in 0 .. MaxRequests
  BY <1>2, BoundsAssumption DEF Inv, TypeOK
<1>4. TypeOK'
  BY <1>1, <1>2, <1>3 DEF Inv, TypeOK
<1>5. Sound(r)
  BY <1>1 DEF Sound
<1>6. RequestsSound'
  BY <1>2, <1>5 DEF Inv, TypeOK, RequestsSound, Sound
<1>7. OnePayment'
  <2>1. CASE op = "pay"
    BY <1>1, <1>2, <2>1 DEF Inv, TypeOK, OnePayment
  <2>2. CASE op # "pay"
    BY <1>1, <1>2, <2>2 DEF Inv, TypeOK, OnePayment
  <2> QED
    BY <2>1, <2>2
<1>8. JobSound'
  BY <1>2 DEF Inv, JobSound, Told
<1> QED
  BY <1>4, <1>6, <1>7, <1>8 DEF Inv

\* Every operation starts its request well.
LEMMA CallKeeps ==
  ASSUME Inv, NEW p \in Requests, Call(p)
  PROVE  Inv'
<1> USE DEF OrderStatus, Target
<1>0. AdminStatuses \subseteq OrderStatus
  BY OperationsAssumption
<1>1. CASE CancelOrder(p) \/ AdminCancelOrder(p)
  <2>1. Begin(p, "cancel", "rows", Shops, "CANCELLED", Keep)
    BY <1>1 DEF CancelOrder, AdminCancelOrder, CancelRows
  <2> QED
    BY <2>1, BeginKeeps
<1>2. CASE AdminCancelAgain(p)
  <2> DEFINE left == {s \in Shops : storeOrders[s].status # "CANCELLED"}
  <2>1. Begin(p, "repair", "rows", left, "CANCELLED", Keep)
    BY <1>2 DEF AdminCancelAgain
  <2>2. left \in SUBSET Shops
    OBVIOUS
  <2> HIDE DEF left
  <2> QED
    BY <2>1, <2>2, BeginKeeps
<1>3. CASE PaymentSucceeded(p)
  BY <1>3, BeginKeeps DEF PaymentSucceeded
<1>4. CASE RefundInFull(p)
  BY <1>4, BeginKeeps DEF RefundInFull
<1>5. CASE \E to \in AdminStatuses : UpdateStatus(p, to)
  <2>1. PICK to \in OrderStatus :
          Begin(p, "updateStatus", "order", {}, to, Keep)
    BY <1>0, <1>5 DEF UpdateStatus
  <2> QED
    BY <2>1, BeginKeeps
<1>6. CASE \E n \in Parcels : \/ HandleWebhook(p, n) \/ PurchaseLabel(p, n)
                              \/ MarkShipped(p, Shops, n)
  BY <1>6, BeginKeeps DEF HandleWebhook, PurchaseLabel, MarkShipped
<1>7. ASSUME NEW s \in Shops, SaveSteps(p, s)
      PROVE  Inv'
  BY <1>7, BeginKeeps DEF SaveSteps
<1>8. ASSUME NEW s \in Shops, NEW to \in Target,
             SetStage(p, s, to) \/ MoveOrders(p, s, to)
      PROVE  Inv'
  BY <1>8, BeginKeeps DEF SetStage, MoveOrders
<1>9. ASSUME NEW s \in Shops, NEW to \in Target,
             NEW n \in Parcels \cup {Keep}, UpdateStoreOrder(p, s, to, n)
      PROVE  Inv'
  BY <1>9, BeginKeeps DEF UpdateStoreOrder
<1>10. ASSUME NEW s \in Shops, NEW n \in Parcels,
              \/ MarkShipped(p, {s}, n) \/ MarkStoreOrderShipped(p, s, n)
              \/ TrackStoreOrder(p, s, n)
       PROVE  Inv'
  BY <1>10, BeginKeeps, KeepAssumption
     DEF MarkShipped, MarkStoreOrderShipped, TrackStoreOrder
<1> QED
  BY <1>1, <1>2, <1>3, <1>4, <1>5, <1>6, <1>7, <1>8, <1>9, <1>10 DEF Call

\* Every statement but the commit moves its request on well.
LEMMA StatementKeeps ==
  ASSUME Inv, NEW p \in Requests,
         \/ MatchRows(p) \/ RowsDone(p) \/ UpdateOrder(p)
         \/ SyncReadsOrder(p) \/ SyncReadsShops(p) \/ SyncUpdatesOrder(p)
         \/ StampDelivered(p) \/ Rollback(p)
         \/ \E s \in Shops : UpdateRow(p, s)
  PROVE  Inv'
<1> DEFINE r == requests[p]
<1>1. r \in Request /\ Sound(r) /\ SeesOrder(r) \in OrderStatus
  BY RowTypes DEF Inv, TypeOK, RequestsSound
<1>2. CASE MatchRows(p)
  <2> DEFINE ofParcel == {s \in Shops : storeOrders[s].parcel = r.parcel}
             underWay == {s \in Shops : storeOrders[s].status = "SHIPPED"}
             targets == IF ofParcel # {} THEN ofParcel ELSE underWay
             pc == IF targets = {} THEN "order" ELSE "rows"
             next == [r EXCEPT !.todo = targets, !.pc = pc]
  <2>1. Step(p, next) /\ r.pc = "match"
    BY <1>2 DEF MatchRows
  <2>2. targets \in SUBSET Shops /\ pc \in {"order", "rows"}
    OBVIOUS
  <2> HIDE DEF targets, pc
  <2>3. next \in Request /\ next.op = r.op /\ Sound(next)
    BY <1>1, <2>1, <2>2 DEF Request, Sound
  <2> HIDE DEF next
  <2> QED
    BY <2>1, <2>3, StepKeeps
<1>3. CASE RowsDone(p)
  <2> DEFINE next == [r EXCEPT !.pc = AfterRows(r.op)]
  <2>1. AfterRows(r.op) \in {"order", "commit", "sync"}
    BY DEF AfterRows
  <2>2. next \in Request /\ next.op = r.op
    BY <1>1, <2>1 DEF Request
  <2>3. Sound(next)
    BY <1>1, <1>3 DEF RowsDone, Request, Sound, AfterRows
  <2>4. Step(p, next)
    BY <1>3 DEF RowsDone
  <2> HIDE DEF next
  <2> QED
    BY <2>2, <2>3, <2>4, StepKeeps
<1>4. CASE UpdateOrder(p)
  <2> DEFINE toRows == r.op = "updateStatus" /\ r.to \in ProgressKinds
             status == IF r.op = "markShipped" THEN Keep ELSE r.to
             todo == IF toRows THEN Shops ELSE r.todo
             pc == IF r.op = "markShipped" \/ toRows THEN "rows"
                                                    ELSE "commit"
             next == [r EXCEPT !.locked = TRUE, !.status = status,
                               !.todo = todo, !.pc = pc]
  <2>1. Step(p, next) /\ r.pc = "order"
    BY <1>4 DEF UpdateOrder
  <2>2. /\ status \in OrderStatus \cup {Keep} /\ todo \in SUBSET Shops
        /\ pc \in {"rows", "commit"}
        /\ r.op = "cancel" => /\ status = r.to /\ todo = r.todo
                              /\ pc = "commit"
    BY <1>1, <2>1 DEF Request, Sound, Target
  <2> HIDE DEF status, todo, pc
  <2>3. /\ next \in Request /\ next.op = r.op /\ next.to = r.to
        /\ next.pc = pc /\ next.wrote = r.wrote /\ next.todo = todo
        /\ next.status = status
    BY <1>1, <2>2 DEF Request
  <2> HIDE DEF next
  <2>4. Sound(next)
    BY <1>1, <2>1, <2>2, <2>3 DEF Sound
  <2> QED
    BY <2>1, <2>3, <2>4, StepKeeps
<1>5. CASE SyncReadsOrder(p)
  <2> DEFINE next == IF IsFulfilmentStage(SeesOrder(r))
                       THEN [r EXCEPT !.pc = "derive",
                                      !.stage = SeesOrder(r)]
                       ELSE [r EXCEPT !.pc = AfterSync(r.op)]
  <2>1. Step(p, next) /\ r.pc = "sync"
    BY <1>5 DEF SyncReadsOrder
  <2>2. next \in Request /\ next.op = r.op /\ Sound(next)
    BY <1>1, <2>1 DEF Request, Sound, AfterSync
  <2> HIDE DEF next
  <2> QED
    BY <2>1, <2>2, StepKeeps
<1>6. CASE SyncReadsShops(p)
  <2> DEFINE statuses == {SeesShop(r, s) : s \in Shops} \ Settled
             derived == LeastAdvanced(statuses)
             next == IF derived \in {Keep, r.stage}
                       THEN [r EXCEPT !.pc = AfterSync(r.op), !.stage = Keep]
                       ELSE [r EXCEPT !.pc = "advance", !.stage = derived]
  <2>1. Step(p, next) /\ r.pc = "derive"
    BY <1>6 DEF SyncReadsShops
  <2>2. derived \in OrderStatus \cup {Keep}
    BY LeastAdvancedSpec
  <2> HIDE DEF derived
  <2>3. next \in Request /\ next.op = r.op /\ Sound(next)
    BY <1>1, <2>1, <2>2 DEF Request, Sound, AfterSync
  <2> HIDE DEF next
  <2> QED
    BY <2>1, <2>3, StepKeeps
<1>9. CASE SyncUpdatesOrder(p)
  <2> DEFINE next == [r EXCEPT !.locked = TRUE, !.status = r.stage,
                               !.stage = Keep, !.pc = AfterSync(r.op)]
  <2>1. Step(p, next) /\ r.pc = "advance"
    BY <1>9 DEF SyncUpdatesOrder
  <2>2. next \in Request /\ next.op = r.op /\ Sound(next)
    BY <1>1, <2>1 DEF Request, Sound, AfterSync
  <2> HIDE DEF next
  <2> QED
    BY <2>1, <2>2, StepKeeps
<1>10. CASE StampDelivered(p)
  <2> DEFINE locked == r.locked \/ SeesOrder(r) = "DELIVERED"
             next == [r EXCEPT !.locked = locked, !.pc = "commit"]
  <2>1. Step(p, next) /\ r.pc = "stamp"
    BY <1>10 DEF StampDelivered
  <2>2. locked \in BOOLEAN
    OBVIOUS
  <2> HIDE DEF locked
  <2>3. next \in Request /\ next.op = r.op /\ Sound(next)
    BY <1>1, <2>1, <2>2 DEF Request, Sound
  <2> HIDE DEF next
  <2> QED
    BY <2>1, <2>3, StepKeeps
<1>7. CASE Rollback(p)
  BY <1>7, IdleSound, StepKeeps DEF Rollback
<1>8. ASSUME NEW s \in Shops, UpdateRow(p, s)
      PROVE  Inv'
  <2> DEFINE next == [r EXCEPT !.todo = @ \ {s},
                        !.wrote = IF Matches(r, s) THEN @ \cup {s} ELSE @]
  <2>1. Step(p, next) /\ r.pc = "rows"
    BY <1>8, Zenon DEF UpdateRow
  <2>2. /\ next \in Request /\ next.op = r.op /\ next.to = r.to
        /\ next.pc = r.pc /\ next.todo = r.todo \ {s}
        /\ next.wrote = IF Matches(r, s) THEN r.wrote \cup {s} ELSE r.wrote
    BY <1>1 DEF Request
  <2>3. r.op = "cancel" => next.wrote = r.wrote \cup {s}
    BY <2>2 DEF Matches
  <2> HIDE DEF next
  <2>4. Sound(next)
    BY <1>1, <2>1, <2>2, <2>3 DEF Sound
  <2> QED
    BY <2>1, <2>2, <2>4, StepKeeps
<1> QED
  BY <1>2, <1>3, <1>4, <1>5, <1>6, <1>7, <1>8, <1>9, <1>10

\* The commit writes rows.
LEMMA CommitKeeps ==
  ASSUME Inv, NEW p \in Requests, Commit(p)
  PROVE  Inv'
<1> DEFINE r == requests[p]
<1>1. /\ r \in Request /\ SeesOrder(r) \in OrderStatus
      /\ \A s \in Shops : Updated(r, s) \in StoreOrderRow
  BY RowTypes DEF Inv
<1>2. /\ UNCHANGED <<credits, emails, pushes, started, faults>>
      /\ requests' = [requests EXCEPT ![p] = Idle]
      /\ job' \in {job, [job EXCEPT !.phase = "waiting"]}
      /\ job' # job => r.op = "pay"
  BY DEF Commit, queues
<1>3. order' \in OrderRow
  <2>1. order \in OrderRow /\ r.parcel \in Parcels \cup {Keep}
    BY <1>1 DEF Inv, TypeOK, Request
  <2>2. (order.labelled \/ r.op = "label") \in BOOLEAN
    OBVIOUS
  <2> QED
    BY <1>1, <2>1, <2>2 DEF Commit, OrderRow
<1>4. storeOrders' \in [Shops -> StoreOrderRow]
  BY <1>1 DEF Commit, Inv, TypeOK
<1>5. reopened' \in [Shops -> Nat]
  BY DEF Commit, Inv, TypeOK
<1>6. Idle \in Request /\ Sound(Idle) /\ Idle.op # "pay"
  BY IdleSound
<1>7. job' \in Job
  BY <1>2 DEF Inv, TypeOK, Job
<1>8. TypeOK'
  BY <1>2, <1>3, <1>4, <1>5, <1>6, <1>7 DEF Inv, TypeOK
<1>9. RequestsSound'
  BY <1>2, <1>6 DEF Inv, TypeOK, RequestsSound, Sound
<1>10. OnePayment'
  BY <1>2, <1>6 DEF Inv, TypeOK, OnePayment
<1>11. JobSound'
  <2>1. CASE job' = job
    BY <1>2, <2>1 DEF Inv, JobSound, Told
  <2>2. CASE job' # job
    <3>1. job.phase = "none" /\ job.tries < Attempts
      BY <1>2, <2>2 DEF Inv, OnePayment, JobSound
    <3>2. job'.phase = "waiting" /\ job'.tries = job.tries
      BY <1>2, <2>2 DEF Inv, TypeOK, Job
    <3> QED
      BY <3>1, <3>2 DEF JobSound
  <2> QED
    BY <2>1, <2>2
<1> QED
  BY <1>8, <1>9, <1>10, <1>11 DEF Inv

-----------------------------------------------------------------------------
(* Steps of the job                                                        *)

\* What the job's steps leave alone.
LEMMA JobStepKeeps ==
  ASSUME Inv, UNCHANGED <<order, requests, reopened, started>>,
         job.phase # "none"
  PROVE  RequestsSound' /\ OnePayment'
BY DEF Inv, RequestsSound, OnePayment, Sound

\* The job waits, ends, or starts on the rows.
LEMMA PhaseKeeps ==
  ASSUME Inv, TakeJob \/ FinishJob \/ JobFails
  PROVE  Inv'
<1>1. /\ UNCHANGED <<order, storeOrders, requests, credits, emails, pushes,
                     reopened, started>>
      /\ job.phase \in {"waiting", "running"}
  BY DEF TakeJob, FinishJob, JobFails, rows, queues
<1>2. RequestsSound' /\ OnePayment'
  BY <1>1, JobStepKeeps
<1>3. faults' \in 0 .. MaxFaults
  BY BoundsAssumption DEF Inv, TypeOK, TakeJob, FinishJob, JobFails
<1>4. job' \in Job /\ JobSound'
  <2>1. CASE TakeJob
    <3>1. job.tries + 1 \in 0 .. Attempts
      BY <2>1, BoundsAssumption DEF TakeJob, Inv, TypeOK, Job, JobSound
    <3>2. /\ job'.phase = "running" /\ job'.left = Shops
          /\ job'.current = {} /\ job'.at = "confirm" /\ job' \in Job
      BY <2>1, <3>1 DEF TakeJob, Job
    <3> QED
      BY <3>2 DEF JobSound
  <2>2. CASE FinishJob
    BY <2>2 DEF FinishJob, Inv, TypeOK, Job, JobSound
  <2>3. CASE JobFails
    BY <2>3, BoundsAssumption DEF JobFails, Inv, TypeOK, Job, JobSound
  <2> QED
    BY <2>1, <2>2, <2>3
<1> QED
  BY <1>1, <1>2, <1>3, <1>4 DEF Inv, TypeOK

\* The compare-and-set of a row.
LEMMA ConfirmRowKeeps ==
  ASSUME Inv, NEW s \in Shops, ConfirmRow(s)
  PROVE  Inv'
<1>1. /\ UNCHANGED <<order, requests, emails, pushes, reopened, started,
                     faults>>
      /\ job.phase = "running" /\ job.at = "confirm"
      /\ job' = [job EXCEPT !.left = @ \ {s}, !.current = {s},
                            !.at = "email"]
  BY DEF ConfirmRow
<1>2. RequestsSound' /\ OnePayment'
  BY <1>1, JobStepKeeps
<1>3. /\ storeOrders' \in [Shops -> StoreOrderRow]
      /\ credits' \in [Shops -> Nat]
  <2>1. CASE ToCredit(s)
    <3>1. [storeOrders[s] EXCEPT !.status = "CONFIRMED"] \in StoreOrderRow
      BY DEF Inv, TypeOK, StoreOrderRow, OrderStatus
    <3> QED
      BY <2>1, <3>1 DEF ConfirmRow, Inv, TypeOK
  <2>2. CASE ~ ToCredit(s)
    BY <2>2 DEF ConfirmRow, Inv, TypeOK
  <2> QED
    BY <2>1, <2>2
<1>4. /\ job' \in Job /\ job'.phase = "running" /\ job'.at = "email"
      /\ job'.current = {s} /\ job'.left = job.left \ {s}
  BY <1>1 DEF Inv, TypeOK, Job
<1>5. JobSound'
  BY <1>1, <1>4 DEF Inv, JobSound, Told
<1> QED
  BY <1>1, <1>2, <1>3, <1>4, <1>5 DEF Inv, TypeOK

\* One more add under a shop's id.
LEMMA EnqueuedOnce ==
  ASSUME NEW n \in Nat
  PROVE  Enqueued(n) \in Nat /\ Enqueued(n) > 0 /\ (n <= 1 => Enqueued(n) = 1)
BY DEF Enqueued

\* The e-mail and the push of a row.
LEMMA EnqueueKeeps ==
  ASSUME Inv, NEW s \in Shops, AddEmail(s) \/ AddPush(s)
  PROVE  Inv'
<1>1. /\ UNCHANGED <<order, storeOrders, requests, credits, reopened,
                     started, faults>>
      /\ job.phase = "running" /\ s \in job.current
  BY DEF AddEmail, AddPush, rows
<1>2. RequestsSound' /\ OnePayment'
  BY <1>1, JobStepKeeps
<1>3. emails[s] \in Nat /\ pushes[s] \in Nat
  BY DEF Inv, TypeOK
<1>4. CASE AddEmail(s)
  <2>1. /\ emails' = [emails EXCEPT ![s] = Enqueued(emails[s])]
        /\ pushes' = pushes
        /\ job.at = "email" /\ job' = [job EXCEPT !.at = "push"]
    BY <1>4 DEF AddEmail
  <2>2. emails' \in [Shops -> Nat] /\ emails'[s] > 0
        /\ \A t \in Shops : emails[t] > 0 => emails'[t] > 0
    BY <1>3, <2>1, EnqueuedOnce DEF Inv, TypeOK
  <2>3. /\ job' \in Job /\ job'.phase = "running" /\ job'.at = "push"
        /\ job'.current = job.current /\ job'.left = job.left
    BY <1>1, <2>1 DEF Inv, TypeOK, Job
  <2>4. job.current = {s}
    BY <1>1, <2>1 DEF Inv, JobSound
  <2>5. JobSound'
    BY <1>1, <2>1, <2>2, <2>3, <2>4 DEF Inv, JobSound, Told
  <2> QED
    BY <1>1, <1>2, <2>1, <2>2, <2>3, <2>5 DEF Inv, TypeOK
<1>5. CASE AddPush(s)
  <2>1. /\ pushes' = [pushes EXCEPT ![s] = Enqueued(pushes[s])]
        /\ emails' = emails
        /\ job.at = "push"
        /\ job' = [job EXCEPT !.current = {}, !.at = "confirm"]
    BY <1>5 DEF AddPush
  <2>2. pushes' \in [Shops -> Nat] /\ pushes'[s] > 0
        /\ \A t \in Shops : pushes[t] > 0 => pushes'[t] > 0
    BY <1>3, <2>1, EnqueuedOnce DEF Inv, TypeOK
  <2>3. /\ job' \in Job /\ job'.phase = "running" /\ job'.at = "confirm"
        /\ job'.current = {} /\ job'.left = job.left
    BY <1>1, <2>1 DEF Inv, TypeOK, Job
  <2>4. job.current = {s} /\ emails[s] > 0
    BY <1>1, <2>1 DEF Inv, JobSound
  <2>5. JobSound'
    BY <1>1, <2>1, <2>2, <2>3, <2>4 DEF Inv, JobSound, Told
  <2> QED
    BY <1>1, <1>2, <2>1, <2>2, <2>3, <2>5 DEF Inv, TypeOK
<1> QED
  BY <1>4, <1>5

-----------------------------------------------------------------------------
(* The invariant                                                           *)

\* The invariant holds of a new order.
LEMMA InitInv == Init => Inv
<1> SUFFICES ASSUME Init PROVE Inv
  OBVIOUS
<1>1. InitialStatus \in OrderStatus
  BY DEF InitialStatus, OrderStatus
<1>2. order \in OrderRow /\ storeOrders \in [Shops -> StoreOrderRow]
  BY <1>1 DEF Init, OrderRow, StoreOrderRow
<1>3. /\ job \in Job /\ job.phase = "none" /\ job.tries = 0
  BY BoundsAssumption DEF Init, Job
<1>4. TypeOK
  <2>1. requests \in [Requests -> Request]
    BY IdleSound DEF Init
  <2>2. /\ credits \in [Shops -> Nat] /\ emails \in [Shops -> Nat]
        /\ pushes \in [Shops -> Nat] /\ reopened \in [Shops -> Nat]
    BY DEF Init
  <2>3. started \in 0 .. MaxRequests /\ faults \in 0 .. MaxFaults
    BY BoundsAssumption DEF Init
  <2> QED
    BY <1>2, <1>3, <2>1, <2>2, <2>3 DEF TypeOK
<1>5. RequestsSound /\ OnePayment
  BY IdleSound DEF Init, RequestsSound, OnePayment
<1>6. JobSound
  BY <1>3, BoundsAssumption DEF JobSound
<1> QED
  BY <1>4, <1>5, <1>6 DEF Inv

\* Every step keeps it.
LEMMA NextInv == Inv /\ [Next]_vars => Inv'
<1> SUFFICES ASSUME Inv, [Next]_vars PROVE Inv'
  OBVIOUS
<1>1. CASE UNCHANGED vars
  BY <1>1 DEF vars, rows, queues, Inv, TypeOK, RequestsSound, Sound,
              OnePayment, JobSound, Told
<1>2. ASSUME NEW p \in Requests, Call(p) \/ Statement(p) \/ Rollback(p)
      PROVE  Inv'
  BY <1>2, CallKeeps, StatementKeeps, CommitKeeps DEF Statement
<1>3. CASE Work
  BY <1>3, PhaseKeeps, ConfirmRowKeeps, EnqueueKeeps DEF Work
<1>4. CASE JobFails
  BY <1>4, PhaseKeeps
<1> QED
  BY <1>1, <1>2, <1>3, <1>4 DEF Next

\* The inductive invariant, of every behaviour.
THEOREM Invariant == Spec => []Inv
BY InitInv, NextInv, PTL DEF Spec

-----------------------------------------------------------------------------
(* What follows                                                            *)

\* Every value the variables take is of its type.
THEOREM TypeCorrect == Spec => []TypeOK
BY Invariant, PTL DEF Inv

\* What a request does short of a commit: it changes itself only.
ItselfOnly(p) ==
  /\ UNCHANGED <<order, storeOrders, job, credits, emails, pushes, reopened>>
  /\ \E r : requests' = [requests EXCEPT ![p] = r]

\* Calls are quiet.
LEMMA CallQuiet ==
  ASSUME NEW p \in Requests, Call(p)
  PROVE  ItselfOnly(p)
<1>1. ASSUME NEW op, NEW pc, NEW todo, NEW to, NEW parcel,
             Begin(p, op, pc, todo, to, parcel)
      PROVE  ItselfOnly(p)
  BY <1>1 DEF Begin, ItselfOnly, rows, queues
<1>2. CASE \/ CancelOrder(p) \/ AdminCancelOrder(p) \/ AdminCancelAgain(p)
           \/ PaymentSucceeded(p) \/ RefundInFull(p)
  BY <1>1, <1>2, Zenon DEF CancelOrder, AdminCancelOrder, AdminCancelAgain,
                           PaymentSucceeded, RefundInFull
<1>3. CASE \E to \in AdminStatuses : UpdateStatus(p, to)
  BY <1>1, <1>3, Zenon DEF UpdateStatus
<1>4. CASE \E n \in Parcels : \/ HandleWebhook(p, n) \/ PurchaseLabel(p, n)
                              \/ MarkShipped(p, Shops, n)
  BY <1>1, <1>4, Zenon DEF HandleWebhook, PurchaseLabel, MarkShipped
<1>5. ASSUME NEW s \in Shops, SaveSteps(p, s) PROVE ItselfOnly(p)
  BY <1>1, <1>5, Zenon DEF SaveSteps
<1>6. ASSUME NEW s \in Shops, NEW to, SetStage(p, s, to) \/ MoveOrders(p, s, to)
      PROVE  ItselfOnly(p)
  BY <1>1, <1>6, Zenon DEF SetStage, MoveOrders
<1>7. ASSUME NEW s \in Shops, NEW to, NEW n, UpdateStoreOrder(p, s, to, n)
      PROVE  ItselfOnly(p)
  BY <1>1, <1>7, Zenon DEF UpdateStoreOrder
<1>8. ASSUME NEW s \in Shops, NEW n,
             \/ MarkShipped(p, {s}, n) \/ MarkStoreOrderShipped(p, s, n)
             \/ TrackStoreOrder(p, s, n)
      PROVE  ItselfOnly(p)
  BY <1>1, <1>8, Zenon
     DEF MarkShipped, MarkStoreOrderShipped, TrackStoreOrder
<1> HIDE DEF ItselfOnly
<1> QED
  BY <1>2, <1>3, <1>4, <1>5, <1>6, <1>7, <1>8 DEF Call

\* So are statements and rollbacks, commits apart.
LEMMA StatementQuiet ==
  ASSUME NEW p \in Requests, Statement(p) \/ Rollback(p), ~ Commit(p)
  PROVE  ItselfOnly(p)
<1>1. ASSUME NEW r, Step(p, r) PROVE ItselfOnly(p)
  BY <1>1 DEF Step, ItselfOnly, rows, queues
<1>2. CASE Rollback(p)
  BY <1>1, <1>2, Zenon DEF Rollback
<1>3. CASE MatchRows(p)
  BY <1>1, <1>3, Zenon DEF MatchRows
<1>4. CASE RowsDone(p) \/ UpdateOrder(p)
  BY <1>1, <1>4, Zenon DEF RowsDone, UpdateOrder
<1>5. CASE SyncReadsOrder(p) \/ SyncReadsShops(p) \/ SyncUpdatesOrder(p)
  BY <1>1, <1>5, Zenon DEF SyncReadsOrder, SyncReadsShops, SyncUpdatesOrder
<1>6. CASE StampDelivered(p)
  BY <1>1, <1>6, Zenon DEF StampDelivered
<1>7. ASSUME NEW s \in Shops, UpdateRow(p, s) PROVE ItselfOnly(p)
  BY <1>1, <1>7, Zenon DEF UpdateRow
<1> HIDE DEF ItselfOnly
<1> QED
  BY <1>2, <1>3, <1>4, <1>5, <1>6, <1>7 DEF Statement

\* The steps there are.
LEMMA StepCases ==
  ASSUME [Next]_vars
  PROVE  \/ \E p \in Requests : ItselfOnly(p) \/ Commit(p)
         \/ TakeJob \/ FinishJob \/ JobFails
         \/ \E s \in Shops : ConfirmRow(s) \/ AddEmail(s) \/ AddPush(s)
         \/ UNCHANGED vars
<1>1. ASSUME NEW p \in Requests, Call(p) \/ Statement(p) \/ Rollback(p)
      PROVE  ItselfOnly(p) \/ Commit(p)
  BY <1>1, CallQuiet, StatementQuiet
<1> QED
  BY <1>1 DEF Next, Work

\* Once confirm-store-orders completes, every shop has its e-mail and its
\* fulfilment push, and keeps them.
LEMMA DoneTold ==
  ASSUME Inv, [Next]_vars, NoShopMissed
  PROVE  NoShopMissed'
<1>1. CASE FinishJob
  BY <1>1 DEF FinishJob, Inv, JobSound, Told, NoShopMissed, queues
<1>2. CASE \/ TakeJob \/ JobFails
           \/ \E s \in Shops : AddEmail(s) \/ AddPush(s) \/ ConfirmRow(s)
  <2> job \in Job
    BY DEF Inv, TypeOK
  <2>1. job'.phase # "done"
    <3>1. CASE TakeJob
      BY <3>1 DEF TakeJob
    <3>2. CASE JobFails
      BY <3>2 DEF JobFails, Job
    <3>3. ASSUME NEW s \in Shops, AddEmail(s) \/ AddPush(s)
          PROVE  job'.phase = "running"
      BY <3>3 DEF AddEmail, AddPush, Job
    <3>4. ASSUME NEW s \in Shops, ConfirmRow(s)
          PROVE  job'.phase = "running"
      <4>1. /\ job.phase = "running"
            /\ job' = [job EXCEPT !.left = @ \ {s}, !.current = {s},
                                  !.at = "email"]
        BY <3>4 DEF ConfirmRow
      <4> QED
        BY <4>1 DEF Job
    <3> QED
      BY <1>2, <3>1, <3>2, <3>3, <3>4
  <2> QED
    BY <2>1 DEF NoShopMissed
<1>3. CASE \E p \in Requests : ItselfOnly(p) \/ Commit(p)
  <2>1. /\ emails' = emails /\ pushes' = pushes
        /\ job' \in {job, [job EXCEPT !.phase = "waiting"]}
    BY <1>3 DEF ItselfOnly, Commit, queues
  <2>2. job'.phase = "done" => job.phase = "done"
    BY <2>1 DEF Inv, TypeOK, Job
  <2> QED
    BY <2>1, <2>2 DEF NoShopMissed
<1>4. CASE UNCHANGED vars
  BY <1>4 DEF vars, queues, NoShopMissed
<1> QED
  BY <1>1, <1>2, <1>3, <1>4, StepCases

\* handleConfirmStoreOrders: however its attempts fail, no shop was passed
\* over once one completes.
THEOREM NobodyMissed == Spec => []NoShopMissed
<1>1. Init => NoShopMissed
  BY DEF Init, NoShopMissed
<1> QED
  BY <1>1, DoneTold, Invariant, PTL DEF Spec

\* The job ids: a shop never gets a second e-mail or a second push.
THEOREM QueuedOnce == Spec => []PushedOnce
<1>1. Init => PushedOnce
  BY DEF Init, PushedOnce
<1>2. Inv /\ PushedOnce /\ [Next]_vars => PushedOnce'
  <2> SUFFICES ASSUME Inv, PushedOnce, [Next]_vars PROVE PushedOnce'
    OBVIOUS
  <2>1. CASE \E s \in Shops : AddEmail(s) \/ AddPush(s)
    <3>1. PICK s \in Shops : AddEmail(s) \/ AddPush(s)
      BY <2>1
    <3>2. /\ emails[s] \in Nat /\ emails[s] <= 1
          /\ pushes[s] \in Nat /\ pushes[s] <= 1
      BY DEF Inv, TypeOK, PushedOnce
    <3>3. Enqueued(emails[s]) <= 1 /\ Enqueued(pushes[s]) <= 1
      BY <3>2, EnqueuedOnce
    <3> QED
      BY <3>1, <3>3 DEF AddEmail, AddPush, PushedOnce, Inv, TypeOK
  <2>2. CASE UNCHANGED <<emails, pushes>>
    BY <2>2 DEF PushedOnce
  <2>3. CASE \/ \E p \in Requests : ItselfOnly(p) \/ Commit(p)
             \/ TakeJob \/ FinishJob \/ JobFails \/ UNCHANGED vars
             \/ \E s \in Shops : ConfirmRow(s)
    <3>1. ASSUME NEW p \in Requests, ItselfOnly(p) \/ Commit(p)
          PROVE  UNCHANGED <<emails, pushes>>
      BY <3>1 DEF ItselfOnly, Commit, queues
    <3>2. CASE TakeJob \/ FinishJob \/ JobFails \/ UNCHANGED vars
      BY <2>2, <3>2 DEF TakeJob, FinishJob, JobFails, vars, queues
    <3>3. ASSUME NEW s \in Shops, ConfirmRow(s)
          PROVE  UNCHANGED <<emails, pushes>>
      BY <3>3 DEF ConfirmRow
    <3> QED
      BY <2>2, <2>3, <3>1, <3>2, <3>3
  <2> QED
    BY <2>1, <2>3, StepCases
<1> QED
  BY <1>1, <1>2, Invariant, PTL DEF Spec

\* The compare-and-set: retries of the job alone credit a shop once.
THEOREM AlwaysCreditsBounded == Spec => []CreditsBounded
<1>1. Init => CreditsBounded
  BY DEF Init, CreditsBounded
<1>2. Inv /\ CreditsBounded /\ [Next]_vars => CreditsBounded'
  <2> SUFFICES ASSUME Inv, CreditsBounded, [Next]_vars,
                      NEW s \in Shops
               PROVE  credits'[s] <= reopened'[s]
                        + (IF storeOrders'[s].status = "CONFIRMED"
                             THEN 1 ELSE 0)
    BY DEF CreditsBounded
  <2>1. /\ credits[s] \in Nat /\ reopened[s] \in Nat
        /\ credits[s] <= reopened[s]
             + (IF storeOrders[s].status = "CONFIRMED" THEN 1 ELSE 0)
    BY DEF Inv, TypeOK, CreditsBounded
  <2>2. ASSUME NEW p \in Requests, Commit(p)
        PROVE  credits'[s] <= reopened'[s]
                 + (IF storeOrders'[s].status = "CONFIRMED" THEN 1 ELSE 0)
    <3>1. /\ credits'[s] = credits[s]
          /\ storeOrders'[s] \in {storeOrders[s], Updated(requests[p], s)}
          /\ reopened'[s] =
               IF /\ s \in requests[p].wrote
                  /\ storeOrders[s].status = "CONFIRMED"
                  /\ Updated(requests[p], s).status # "CONFIRMED"
                 THEN reopened[s] + 1 ELSE reopened[s]
          /\ s \notin requests[p].wrote => storeOrders'[s] = storeOrders[s]
      BY <2>2 DEF Commit, queues
    <3> QED
      BY <2>1, <3>1
  <2>3. ASSUME NEW t \in Shops, ConfirmRow(t)
        PROVE  credits'[s] <= reopened'[s]
                 + (IF storeOrders'[s].status = "CONFIRMED" THEN 1 ELSE 0)
    <3>1. CASE s = t /\ ToCredit(t)
      BY <2>1, <2>3, <3>1 DEF ConfirmRow, ToCredit, Inv, TypeOK,
                              StoreOrderRow
    <3>2. CASE s # t \/ ~ ToCredit(t)
      BY <2>1, <2>3, <3>2 DEF ConfirmRow, Inv, TypeOK
    <3> QED
      BY <3>1, <3>2
  <2>4. CASE UNCHANGED <<credits, reopened, storeOrders>>
    BY <2>1, <2>4
  <2>5. CASE \/ \E p \in Requests : ItselfOnly(p)
             \/ TakeJob \/ FinishJob \/ JobFails \/ UNCHANGED vars
             \/ \E t \in Shops : AddEmail(t) \/ AddPush(t)
    BY <2>4, <2>5 DEF ItselfOnly, TakeJob, FinishJob, JobFails, AddEmail,
                      AddPush, vars, queues, rows
  <2> QED
    BY <2>2, <2>3, <2>5, StepCases
<1> QED
  BY <1>1, <1>2, Invariant, PTL DEF Spec

\* cancelOrder, adminCancelOrder: the order and every shop's row are
\* cancelled together, whatever other requests and the job did meanwhile.
THEOREM AlwaysCancelsWhole == Spec => CancelsWhole
<1> DEFINE Whole ==
      \A p \in Requests :
        (requests[p].op = "cancel" /\ requests[p].pc = "commit"
           /\ requests'[p] = Idle /\ rows' # rows)
        => /\ order'.status = "CANCELLED"
           /\ \A s \in Shops : storeOrders'[s].status = "CANCELLED"
<1>1. ASSUME Inv, [Next]_vars PROVE [Whole]_vars
  <2> SUFFICES ASSUME NEW p \in Requests, requests[p].op = "cancel",
                      requests[p].pc = "commit", requests'[p] = Idle,
                      rows' # rows
               PROVE  /\ order'.status = "CANCELLED"
                      /\ \A s \in Shops :
                           storeOrders'[s].status = "CANCELLED"
    OBVIOUS
  <2>1. Idle.op = "none"
    BY DEF Idle
  <2>2. requests \in [Requests -> Request]
    BY <1>1 DEF Inv, TypeOK
  <2>3. requests' # requests
    BY <2>1
  <2>4. PICK q \in Requests : Commit(q)
    <3>1. ASSUME NEW t \in Requests, ItselfOnly(t) PROVE FALSE
      BY <3>1 DEF ItselfOnly, rows
    <3>2. ASSUME NEW s \in Shops, ConfirmRow(s) PROVE FALSE
      BY <2>3, <3>2 DEF ConfirmRow
    <3>3. ASSUME NEW s \in Shops, AddEmail(s) \/ AddPush(s) PROVE FALSE
      BY <2>3, <3>3 DEF AddEmail, AddPush
    <3>4. ASSUME TakeJob \/ FinishJob \/ JobFails \/ UNCHANGED vars
          PROVE  FALSE
      BY <2>3, <3>4 DEF TakeJob, FinishJob, JobFails, vars
    <3> QED
      BY <1>1, <3>1, <3>2, <3>3, <3>4, StepCases
  <2>5. q = p
    BY <2>1, <2>2, <2>4 DEF Commit
  <2>6. /\ requests[p].to = "CANCELLED" /\ requests[p].wrote = Shops
        /\ requests[p].status = "CANCELLED"
    BY <1>1 DEF Inv, RequestsSound, Sound
  <2>7. order'.status = "CANCELLED"
    BY <2>4, <2>5, <2>6, KeepAssumption DEF Commit, SeesOrder, OrderStatus
  <2>8. ASSUME NEW s \in Shops PROVE storeOrders'[s].status = "CANCELLED"
    BY <2>4, <2>5, <2>6, KeepAssumption
       DEF Commit, Updated, PublicStatus, OrderStatus
  <2> QED
    BY <2>7, <2>8
<1> QED
  BY <1>1, Invariant, PTL DEF Spec, CancelsWhole

-----------------------------------------------------------------------------
(* Requests one at a time                                                  *)

\* The API serves a call when the one before it is done.
OneAtATime == \A p, q \in Requests : p = q

Syncs == {"move", "saveSteps", "markShipped"}

\* Only markShipped writes the order before its rows; and an operation that
\* syncs has written no status unless it read a stage of fulfilment.
Advances(r) ==
  /\ r.op \in {"move", "saveSteps"} => r.pc \notin {"match", "order"}
  /\ /\ r.op \in Syncs
     /\ r.status # Keep \/ r.pc \in {"derive", "advance"}
     => order.status \in FulfilmentStages

AdvancesInv == Inv /\ \A p \in Requests : Advances(requests[p])

LEMMA CallAdvances ==
  ASSUME Inv, NEW p \in Requests, Call(p)
  PROVE  UNCHANGED order /\ Advances(requests'[p])
<1>1. ASSUME NEW op, NEW pc, NEW todo, NEW to, NEW parcel,
             Begin(p, op, pc, todo, to, parcel), pc \in {"match", "order", "rows"},
             op \in {"move", "saveSteps"} => pc = "rows"
      PROVE  UNCHANGED order /\ Advances(requests'[p])
  <2>1. PICK r : r = [Idle EXCEPT !.op = op, !.pc = pc, !.todo = todo,
                                  !.to = to, !.parcel = parcel]
    OBVIOUS
  <2>2. r.op = op /\ r.pc = pc /\ r.status = Keep
    BY <2>1 DEF Idle
  <2>3. requests'[p] = r /\ UNCHANGED order
    BY <1>1, <2>1 DEF Begin, rows, Inv, TypeOK
  <2> QED
    BY <1>1, <2>2, <2>3 DEF Advances
<1>2. \E op, pc, todo, to, parcel :
        /\ Begin(p, op, pc, todo, to, parcel)
        /\ pc \in {"match", "order", "rows"}
        /\ op \in {"move", "saveSteps"} => pc = "rows"
  <2>1. CASE \/ CancelOrder(p) \/ AdminCancelOrder(p) \/ AdminCancelAgain(p)
             \/ PaymentSucceeded(p) \/ RefundInFull(p)
    BY <2>1 DEF CancelOrder, AdminCancelOrder, AdminCancelAgain,
                PaymentSucceeded, RefundInFull
  <2>2. CASE \E to \in AdminStatuses : UpdateStatus(p, to)
    BY <2>2 DEF UpdateStatus
  <2>3. CASE \E n \in Parcels : \/ HandleWebhook(p, n) \/ PurchaseLabel(p, n)
                                \/ MarkShipped(p, Shops, n)
    BY <2>3 DEF HandleWebhook, PurchaseLabel, MarkShipped
  <2>4. ASSUME NEW s \in Shops,
               \/ SaveSteps(p, s)
               \/ \E to \in Target : SetStage(p, s, to) \/ MoveOrders(p, s, to)
               \/ \E to \in Target, n \in Parcels \cup {Keep} :
                    UpdateStoreOrder(p, s, to, n)
               \/ \E n \in Parcels : \/ MarkShipped(p, {s}, n)
                                     \/ MarkStoreOrderShipped(p, s, n)
                                     \/ TrackStoreOrder(p, s, n)
        PROVE  <1>2
    BY <2>4 DEF SaveSteps, SetStage, MoveOrders, UpdateStoreOrder, MarkShipped,
                MarkStoreOrderShipped, TrackStoreOrder
  <2> QED
    BY <2>1, <2>2, <2>3, <2>4 DEF Call
<1> QED
  BY <1>1, <1>2

\* What no statement changes of its request but an UPDATE of a shop's row.
Same(n, r) ==
  n.op = r.op /\ n.to = r.to /\ n.parcel = r.parcel /\ n.wrote = r.wrote

\* What each statement but the commit makes of its request r, which is n then.
Does(p, r, n) ==
  /\ MatchRows(p) => /\ r.pc = "match" /\ n.pc \in {"order", "rows"}
                     /\ Same(n, r) /\ n.status = r.status
  /\ RowsDone(p) => /\ r.pc = "rows" /\ r.todo = {} /\ n.pc = AfterRows(r.op)
                    /\ Same(n, r) /\ n.status = r.status /\ n.todo = {}
  /\ UpdateOrder(p) =>
       /\ r.pc = "order" /\ Same(n, r)
       /\ n.status = IF r.op = "markShipped" THEN Keep ELSE r.to
       /\ r.op = "updateStatus" /\ r.to \in ProgressKinds
            => n.pc = "rows" /\ n.todo = Shops
       /\ r.op = "markShipped" => n.pc = "rows"
       /\ r.op # "markShipped" /\ ~(r.op = "updateStatus" /\ r.to \in ProgressKinds)
            => n.pc = "commit"
  /\ SyncReadsOrder(p) =>
       /\ r.pc = "sync" /\ Same(n, r) /\ n.status = r.status
       /\ IF SeesOrder(r) \in FulfilmentStages
            THEN n.pc = "derive" /\ n.stage = SeesOrder(r)
            ELSE n.pc = AfterSync(r.op)
  /\ SyncReadsShops(p) =>
       LET derived == LeastAdvanced({SeesShop(r, s) : s \in Shops} \ Settled) IN
       /\ r.pc = "derive" /\ Same(n, r) /\ n.status = r.status
       /\ IF derived \in {Keep, r.stage}
            THEN n.pc = AfterSync(r.op)
            ELSE n.pc = "advance" /\ n.stage = derived
  /\ SyncUpdatesOrder(p) => /\ r.pc = "advance" /\ Same(n, r)
                            /\ n.status = r.stage /\ n.pc = AfterSync(r.op)
  /\ StampDelivered(p) => /\ r.pc = "stamp" /\ n.pc = "commit"
                          /\ Same(n, r) /\ n.status = r.status
  /\ Rollback(p) => n = Idle

LEMMA StatementDoes ==
  ASSUME TypeOK, NEW p \in Requests, NEW n, Step(p, n)
  PROVE  n = requests'[p] /\ Does(p, requests[p], n)
<1> DEFINE r == requests[p]
<1>1. /\ r \in Request /\ requests \in [Requests -> Request]
      /\ n = requests'[p]
  BY DEF TypeOK, Step
<1>2. \A m : Step(p, m) => m = n
  BY <1>1 DEF Step
<1>3. ASSUME MatchRows(p)
      PROVE  /\ r.pc = "match" /\ n.pc \in {"order", "rows"}
             /\ Same(n, r) /\ n.status = r.status
  <2>1. PICK todo, pc : /\ n = [r EXCEPT !.todo = todo, !.pc = pc]
                        /\ pc \in {"order", "rows"} /\ r.pc = "match"
    BY <1>2, <1>3 DEF MatchRows
  <2> QED
    BY <1>1, <2>1 DEF Same, Request
<1>4. ASSUME RowsDone(p)
      PROVE  /\ r.pc = "rows" /\ r.todo = {} /\ n.pc = AfterRows(r.op)
             /\ Same(n, r) /\ n.status = r.status /\ n.todo = {}
  <2>1. n = [r EXCEPT !.pc = AfterRows(r.op)] /\ r.pc = "rows" /\ r.todo = {}
    BY <1>2, <1>4 DEF RowsDone
  <2> QED
    BY <1>1, <2>1 DEF Same, Request
<1>5. ASSUME UpdateOrder(p)
      PROVE  /\ r.pc = "order" /\ Same(n, r)
             /\ n.status = IF r.op = "markShipped" THEN Keep ELSE r.to
             /\ r.op = "updateStatus" /\ r.to \in ProgressKinds
                  => n.pc = "rows" /\ n.todo = Shops
             /\ r.op = "markShipped" => n.pc = "rows"
             /\ r.op # "markShipped"
                /\ ~(r.op = "updateStatus" /\ r.to \in ProgressKinds)
                  => n.pc = "commit"
  <2>1. PICK toRows : toRows = (r.op = "updateStatus" /\ r.to \in ProgressKinds)
    OBVIOUS
  <2>2. /\ n = [r EXCEPT
                  !.locked = TRUE,
                  !.status = IF r.op = "markShipped" THEN Keep ELSE r.to,
                  !.todo = IF toRows THEN Shops ELSE r.todo,
                  !.pc = IF r.op = "markShipped" \/ toRows THEN "rows"
                                                           ELSE "commit"]
        /\ r.pc = "order"
    BY <1>2, <1>5, <2>1 DEF UpdateOrder
  <2> QED
    BY <1>1, <2>1, <2>2 DEF Same, Request
<1>6. ASSUME SyncReadsOrder(p)
      PROVE  /\ r.pc = "sync" /\ Same(n, r) /\ n.status = r.status
             /\ IF SeesOrder(r) \in FulfilmentStages
                  THEN n.pc = "derive" /\ n.stage = SeesOrder(r)
                  ELSE n.pc = AfterSync(r.op)
  <2>1. /\ n = IF SeesOrder(r) \in FulfilmentStages
                 THEN [r EXCEPT !.pc = "derive", !.stage = SeesOrder(r)]
                 ELSE [r EXCEPT !.pc = AfterSync(r.op)]
        /\ r.pc = "sync"
    BY <1>2, <1>6 DEF SyncReadsOrder, IsFulfilmentStage
  <2> QED
    BY <1>1, <2>1 DEF Same, Request
<1>7. ASSUME SyncReadsShops(p)
      PROVE  LET derived ==
                   LeastAdvanced({SeesShop(r, s) : s \in Shops} \ Settled) IN
             /\ r.pc = "derive" /\ Same(n, r) /\ n.status = r.status
             /\ IF derived \in {Keep, r.stage}
                  THEN n.pc = AfterSync(r.op)
                  ELSE n.pc = "advance" /\ n.stage = derived
  <2>1. PICK derived :
          derived = LeastAdvanced({SeesShop(r, s) : s \in Shops} \ Settled)
    OBVIOUS
  <2>2. /\ n = IF derived \in {Keep, r.stage}
                 THEN [r EXCEPT !.pc = AfterSync(r.op), !.stage = Keep]
                 ELSE [r EXCEPT !.pc = "advance", !.stage = derived]
        /\ r.pc = "derive"
    BY <1>2, <1>7, <2>1 DEF SyncReadsShops
  <2> QED
    BY <1>1, <2>1, <2>2 DEF Same, Request
<1>8. ASSUME SyncUpdatesOrder(p)
      PROVE  /\ r.pc = "advance" /\ Same(n, r)
             /\ n.status = r.stage /\ n.pc = AfterSync(r.op)
  <2>1. /\ n = [r EXCEPT !.locked = TRUE, !.status = r.stage, !.stage = Keep,
                         !.pc = AfterSync(r.op)]
        /\ r.pc = "advance"
    BY <1>2, <1>8 DEF SyncUpdatesOrder
  <2> QED
    BY <1>1, <2>1 DEF Same, Request
<1>9. ASSUME StampDelivered(p)
      PROVE  /\ r.pc = "stamp" /\ n.pc = "commit"
             /\ Same(n, r) /\ n.status = r.status
  <2>1. PICK locked : n = [r EXCEPT !.locked = locked, !.pc = "commit"]
                      /\ r.pc = "stamp"
    BY <1>2, <1>9 DEF StampDelivered
  <2> QED
    BY <1>1, <2>1 DEF Same, Request
<1>10. Rollback(p) => n = Idle
  BY <1>2 DEF Rollback
<1> HIDE DEF r
<1> QED
  BY <1>1, <1>3, <1>4, <1>5, <1>6, <1>7, <1>8, <1>9, <1>10 DEF Does, r

LEMMA UpdateRowDoes ==
  ASSUME TypeOK, NEW p \in Requests, NEW s \in Shops, UpdateRow(p, s)
  PROVE  LET r == requests[p]
             n == requests'[p] IN
         /\ r.pc = "rows" /\ s \in r.todo /\ Step(p, n)
         /\ n.op = r.op /\ n.to = r.to /\ n.parcel = r.parcel
         /\ n.pc = r.pc /\ n.status = r.status
         /\ n.todo = r.todo \ {s}
         /\ n.wrote = IF Matches(r, s) THEN r.wrote \cup {s} ELSE r.wrote
<1> DEFINE r == requests[p]
<1>1. PICK n : /\ n = [r EXCEPT !.todo = r.todo \ {s},
                                !.wrote = IF Matches(r, s) THEN r.wrote \cup {s}
                                                           ELSE r.wrote]
               /\ Step(p, n) /\ r.pc = "rows" /\ s \in r.todo
  BY Zenon DEF UpdateRow
<1>2. n = requests'[p] /\ r \in Request
  BY <1>1 DEF Step, TypeOK
<1>3. /\ n.op = r.op /\ n.to = r.to /\ n.parcel = r.parcel
      /\ n.pc = r.pc /\ n.status = r.status
      /\ n.todo = r.todo \ {s}
      /\ n.wrote = IF Matches(r, s) THEN r.wrote \cup {s} ELSE r.wrote
  BY <1>1, <1>2 DEF Request
<1> QED
  BY <1>1, <1>2, <1>3

\* Every statement but the commit is a step of its request alone.
LEMMA StatementSteps ==
  ASSUME TypeOK, NEW p \in Requests, Statement(p) \/ Rollback(p), ~Commit(p)
  PROVE  Step(p, requests'[p])
<1>1. ASSUME NEW n, Step(p, n) PROVE Step(p, requests'[p])
  BY <1>1 DEF Step, TypeOK
<1>2. ASSUME NEW s \in Shops, UpdateRow(p, s) PROVE Step(p, requests'[p])
  BY <1>2, UpdateRowDoes
<1> QED
  BY <1>1, <1>2
  DEF Statement, Rollback, MatchRows, RowsDone, UpdateOrder, SyncReadsOrder,
      SyncReadsShops, SyncUpdatesOrder, StampDelivered

LEMMA StatementAdvances ==
  ASSUME Inv, NEW p \in Requests, Advances(requests[p]),
         Statement(p) \/ Rollback(p), ~Commit(p)
  PROVE  UNCHANGED order /\ Advances(requests'[p])
<1>1. PICK n : n = requests'[p]
  OBVIOUS
<1>2. Step(p, n) /\ UNCHANGED order
  BY <1>1, StatementSteps DEF Inv, Step, rows
<1>3. Does(p, requests[p], n)
  BY <1>2, StatementDoes DEF Inv
<1>4. PICK r : r = requests[p]
  OBVIOUS
<1>5. Does(p, r, n) /\ Advances(r) /\ Keep \notin FulfilmentStages
  BY <1>3, <1>4, KeepAssumption DEF FulfilmentStages, Rank, OrderStatus
<1>6. ASSUME Rollback(p) PROVE Advances(n)
  BY <1>5, <1>6 DEF Does, Idle, Advances, Syncs
<1>7. ASSUME MatchRows(p) \/ RowsDone(p) \/ UpdateOrder(p)
      PROVE  Advances(n)
  BY <1>5, <1>7 DEF Does, Same, AfterRows, Advances, Syncs
<1>8. ASSUME SyncReadsOrder(p) PROVE Advances(n)
  <2>1. order.status \in FulfilmentStages
          \/ (r.status = Keep => SeesOrder(r) \notin FulfilmentStages)
    BY DEF SeesOrder
  <2> QED
    BY <1>5, <1>8, <2>1 DEF Does, Same, AfterSync, Advances, Syncs
<1>9. ASSUME SyncReadsShops(p) \/ SyncUpdatesOrder(p) \/ StampDelivered(p)
      PROVE  Advances(n)
  BY <1>5, <1>9 DEF Does, Same, AfterSync, Advances, Syncs
<1>10. ASSUME NEW s \in Shops, UpdateRow(p, s) PROVE Advances(n)
  BY <1>1, <1>4, <1>5, <1>10, UpdateRowDoes DEF Inv, Advances, Syncs
<1> QED
  BY <1>1, <1>2, <1>6, <1>7, <1>8, <1>9, <1>10 DEF Statement

\* What does not call, state or roll back leaves order and requests alone.
LEMMA WorkLeaves ==
  ASSUME Work \/ JobFails \/ UNCHANGED vars
  PROVE  UNCHANGED <<order, requests>>
BY DEF Work, JobFails, TakeJob, FinishJob, ConfirmRow, AddEmail, AddPush, rows,
       vars

LEMMA AdvancesStepInv ==
  ASSUME OneAtATime, AdvancesInv, [Next]_vars PROVE AdvancesInv'
<1>1. Inv'
  BY NextInv DEF AdvancesInv
<1>2. ASSUME NEW p \in Requests, UNCHANGED order, Advances(requests'[p])
      PROVE  \A q \in Requests : Advances(requests[q])'
  BY <1>2 DEF OneAtATime, Advances
<1>3. ASSUME NEW p \in Requests, Call(p) \/ Statement(p) \/ Rollback(p)
      PROVE  \A q \in Requests : Advances(requests[q])'
  <2>1. CASE Commit(p)
    <3>1. requests'[p] = Idle
      BY <2>1 DEF Commit, AdvancesInv, Inv, TypeOK
    <3> QED
      BY <3>1 DEF OneAtATime, Advances, Syncs, Idle
  <2>2. CASE ~Commit(p)
    BY <1>2, <1>3, <2>2, CallAdvances, StatementAdvances DEF AdvancesInv
  <2> QED
    BY <2>1, <2>2
<1>4. ASSUME Work \/ JobFails \/ UNCHANGED vars
      PROVE  \A q \in Requests : Advances(requests[q])'
  BY <1>4, WorkLeaves DEF AdvancesInv, Advances
<1> QED
  BY <1>1, <1>3, <1>4 DEF Next, AdvancesInv

\* order-status-sync.ts: as long as the API serves its calls one at a time, no
\* seller's step drags an order out of a state that was decided elsewhere,
\* whatever the operations, the shops and the job of the payment do.  Of calls
\* that overlap it is not true: a stage that was read can be written over a
\* cancellation that was committed since.
THEOREM MoneyStandsAlone ==
  ASSUME OneAtATime
  PROVE  Spec => MoneyStands
<1> DEFINE Stands ==
      \A p \in Requests :
        (requests[p].op \in {"move", "saveSteps", "markShipped"}
           /\ requests'[p] = Idle /\ order.status \notin FulfilmentStages)
        => order'.status = order.status
<1>1. Init => AdvancesInv
  BY InitInv DEF Init, AdvancesInv, Advances, Syncs, Idle
<1>2. AdvancesInv /\ [Next]_vars => AdvancesInv'
  BY AdvancesStepInv
<1>3. ASSUME AdvancesInv, [Next]_vars PROVE [Stands]_vars
  <2> SUFFICES ASSUME NEW p \in Requests, requests[p].op \in Syncs,
                      requests'[p] = Idle, order.status \notin FulfilmentStages
               PROVE  order'.status = order.status
    BY DEF Syncs
  <2>1. CASE Commit(p)
    <3>1. requests[p].status = Keep
      BY <1>3 DEF AdvancesInv, Advances
    <3> QED
      BY <2>1, <3>1 DEF Commit, SeesOrder
  <2>2. CASE ~Commit(p)
    <3>1. ASSUME NEW q \in Requests, Call(q) \/ Statement(q) \/ Rollback(q)
          PROVE  UNCHANGED order
      BY <1>3, <2>2, <3>1, CallAdvances, StatementAdvances
      DEF OneAtATime, AdvancesInv
    <3> QED
      BY <1>3, <3>1, WorkLeaves DEF Next
  <2> QED
    BY <2>1, <2>2
<1> QED
  BY <1>1, <1>2, <1>3, PTL DEF Spec, MoneyStands

\* Besides: orders are manual requests, so that no job confirms a row that has
\* moved on; and neither a carrier nor a label moves the order alone.
SellersOnly ==
  /\ ~OnlinePaymentsEnabled
  /\ "handleWebhook" \notin Operations /\ "purchaseLabel" \notin Operations

\* An order of status st is as far along as the least advanced of active.
Follows(st, active) ==
  /\ st \in FulfilmentStages /\ active # {} /\ active \subseteq FulfilmentStages
  => /\ st \in active
     /\ \A x \in active : Rank[st] <= Rank[x]

AtWork == {storeOrders[s].status : s \in Shops} \ Settled
SeesAtWork(r) == {SeesShop(r, s) : s \in Shops} \ Settled

\* Where each operation is, and what it has read and written by then.
Serial(r) ==
  /\ r.op \in {"none", "cancel", "repair", "updateStatus", "track"} \cup Syncs
  /\ r.op = "none" => r.pc = "idle"
  /\ r.op \in Syncs =>
       /\ r.pc \in {"order", "rows", "sync", "derive", "advance", "commit"}
       /\ r.pc = "order" => r.op = "markShipped"
       /\ r.pc # "commit" => r.status = Keep
       /\ r.pc = "derive" => r.stage = order.status
       /\ r.pc = "advance" =>
            r.stage = LeastAdvanced(SeesAtWork(r)) /\ r.stage # Keep
       /\ r.pc = "commit" => Follows(SeesOrder(r), SeesAtWork(r))
  /\ r.op = "updateStatus" =>
       /\ r.to \in OrderStatus \ {"SHIPPED", "COMPLETED"}
       /\ r.pc \in {"order", "rows", "commit"}
       /\ r.pc # "order" => r.status = r.to
       /\ r.pc = "rows" => r.to \in ProgressKinds /\ Shops = r.wrote \cup r.todo
       /\ r.pc = "commit" /\ r.to \in ProgressKinds => r.wrote = Shops
  /\ r.op = "repair" => /\ r.pc \in {"rows", "commit"} /\ r.status = Keep
                        /\ order.status = "CANCELLED"
  /\ r.op = "track" => r.pc \in {"rows", "commit"} /\ r.status = Keep /\ r.to = Keep

SerialInv ==
  /\ Inv /\ job.phase = "none"
  /\ \A p \in Requests : Serial(requests[p])
  /\ Follows(order.status, AtWork)

LEMMA Stages ==
  /\ FulfilmentStages = {"CONFIRMED", "IN_PRODUCTION", "SHIPPED", "DELIVERED",
                         "COMPLETED"}
  /\ FulfilmentStages \subseteq OrderStatus /\ Keep \notin OrderStatus
  /\ Keep \notin FulfilmentStages
  /\ \A st \in FulfilmentStages : Rank[st] \in Nat
BY KeepAssumption DEF FulfilmentStages, Rank, OrderStatus

\* Nobody's stage is derived only where there is nothing to follow, and the
\* stage that is derived is one to follow.
LEMMA DerivedFollows ==
  ASSUME NEW st, NEW active,
         \/ LeastAdvanced(active) = Keep
         \/ LeastAdvanced(active) = st
  PROVE  Follows(st, active)
BY LeastAdvancedSpec, Stages DEF Follows

\* Who is at work is all as far as the order.
LEMMA FollowsOne ==
  ASSUME NEW st, NEW active, active \subseteq {st}
  PROVE  Follows(st, active)
<1>1. st \in FulfilmentStages => Rank[st] <= Rank[st]
  BY Stages
<1> QED
  BY <1>1 DEF Follows

\* Seeing is by what was written, and how.
LEMMA SeesSame ==
  ASSUME NEW r, NEW n, Same(n, r)
  PROVE  SeesAtWork(n) = SeesAtWork(r)
<1>1. \A s \in Shops : SeesShop(n, s) = SeesShop(r, s)
  BY DEF SeesShop, Updated, Same
<1> QED
  BY <1>1 DEF SeesAtWork

\* Whatever a request is about to commit, the order follows its shops.
LEMMA CommitFollows ==
  ASSUME SerialInv, NEW p \in Requests, requests[p].pc = "commit"
  PROVE  Follows(SeesOrder(requests[p]), SeesAtWork(requests[p]))
<1> PICK r : r = requests[p]
  OBVIOUS
<1>1. Serial(r) /\ Sound(r) /\ r.pc = "commit" /\ r = requests[p]
  BY DEF SerialInv, Inv, RequestsSound
<1>2. CASE r.op \in Syncs
  BY <1>1, <1>2 DEF Serial
<1>3. CASE r.op = "cancel" \/ r.op = "repair"
  <2>1. SeesOrder(r) = "CANCELLED"
    BY <1>1, <1>3, Stages DEF Serial, Sound, SeesOrder, OrderStatus
  <2> QED
    BY <1>1, <2>1, Stages DEF Follows
<1>4. CASE r.op = "updateStatus"
  <2>1. SeesOrder(r) = r.to /\ r.to # Keep /\ r.to # "CUSTOM"
    BY <1>1, <1>4, Stages DEF Serial, SeesOrder, OrderStatus
  <2>2. CASE r.to \in ProgressKinds
    <3>1. \A s \in Shops : SeesShop(r, s) = r.to
      BY <1>1, <1>4, <2>1, <2>2 DEF Serial, SeesShop, Updated, PublicStatus
    <3>2. SeesAtWork(r) \subseteq {r.to}
      BY <3>1 DEF SeesAtWork
    <3> QED
      BY <1>1, <2>1, <3>2, FollowsOne
  <2>3. CASE r.to \notin ProgressKinds
    BY <1>1, <1>4, <2>1, <2>3, Stages DEF Serial, Follows, ProgressKinds
  <2> QED
    BY <2>2, <2>3
<1>5. CASE r.op = "track"
  <2>1. \A s \in Shops : SeesShop(r, s) = storeOrders[s].status
    BY <1>1, <1>5 DEF Serial, SeesShop, Updated
  <2>2. SeesAtWork(r) = AtWork /\ SeesOrder(r) = order.status
    BY <1>1, <1>5, <2>1 DEF Serial, SeesOrder, SeesAtWork, AtWork
  <2> QED
    BY <1>1, <2>2 DEF SerialInv
<1> QED
  BY <1>1, <1>2, <1>3, <1>4, <1>5 DEF Serial

\* What Begin makes of a free slot.
LEMMA BeginDoes ==
  ASSUME TypeOK, NEW p \in Requests, NEW op, NEW pc, NEW todo, NEW to,
         NEW parcel, Begin(p, op, pc, todo, to, parcel)
  PROVE  LET n == requests'[p] IN
         /\ n.op = op /\ n.pc = pc /\ n.todo = todo /\ n.to = to
         /\ n.wrote = {} /\ n.status = Keep
         /\ UNCHANGED <<order, storeOrders, job>>
<1>1. PICK r : r = [Idle EXCEPT !.op = op, !.pc = pc, !.todo = todo,
                                !.to = to, !.parcel = parcel]
  OBVIOUS
<1>2. /\ r.op = op /\ r.pc = pc /\ r.todo = todo /\ r.to = to
      /\ r.wrote = {} /\ r.status = Keep
  BY <1>1 DEF Idle
<1>3. requests'[p] = r /\ UNCHANGED <<order, storeOrders, job>>
  BY <1>1 DEF Begin, rows, TypeOK
<1> QED
  BY <1>2, <1>3

LEMMA CallSerial ==
  ASSUME SellersOnly, SerialInv, NEW p \in Requests, Call(p)
  PROVE  UNCHANGED <<order, storeOrders, job>> /\ Serial(requests'[p])
<1>1. TypeOK /\ AdminStatuses \subseteq OrderStatus
  BY OperationsAssumption DEF SerialInv, Inv
<1>2. CASE CancelOrder(p) \/ AdminCancelOrder(p)
  <2>1. Begin(p, "cancel", "rows", CancelRows, "CANCELLED", Keep)
    BY <1>2 DEF CancelOrder, AdminCancelOrder
  <2> QED
    BY <1>1, <2>1, BeginDoes DEF Serial, Syncs
<1>3. CASE AdminCancelAgain(p)
  <2>1. /\ order.status = "CANCELLED"
        /\ \E todo : Begin(p, "repair", "rows", todo, "CANCELLED", Keep)
    BY <1>3 DEF AdminCancelAgain
  <2> QED
    BY <1>1, <2>1, BeginDoes DEF Serial, Syncs
<1>4. CASE \E to \in AdminStatuses : UpdateStatus(p, to)
  <2>1. PICK to \in OrderStatus \ {"SHIPPED", "COMPLETED"} :
          Begin(p, "updateStatus", "order", {}, to, Keep)
    BY <1>1, <1>4 DEF UpdateStatus
  <2> QED
    BY <1>1, <2>1, BeginDoes DEF Serial, Syncs
<1>5. ASSUME NEW shops, NEW n, MarkShipped(p, shops, n)
      PROVE  UNCHANGED <<order, storeOrders, job>> /\ Serial(requests'[p])
  <2>1. Begin(p, "markShipped", "order", shops, "SHIPPED", n)
    BY <1>5 DEF MarkShipped
  <2> QED
    BY <1>1, <2>1, BeginDoes DEF Serial, Syncs
<1>6. ASSUME NEW s \in Shops,
             \/ SaveSteps(p, s)
             \/ \E to \in Target : SetStage(p, s, to) \/ MoveOrders(p, s, to)
             \/ \E to \in Target, n \in Parcels \cup {Keep} :
                  UpdateStoreOrder(p, s, to, n)
             \/ \E n \in Parcels : MarkStoreOrderShipped(p, s, n)
      PROVE  UNCHANGED <<order, storeOrders, job>> /\ Serial(requests'[p])
  <2>1. \E op \in {"move", "saveSteps"} : \E todo, to, parcel :
          Begin(p, op, "rows", todo, to, parcel)
    BY <1>6 DEF SaveSteps, SetStage, MoveOrders, UpdateStoreOrder,
                MarkStoreOrderShipped
  <2> QED
    BY <1>1, <2>1, BeginDoes DEF Serial, Syncs
<1>7. ASSUME NEW s \in Shops, NEW n \in Parcels, TrackStoreOrder(p, s, n)
      PROVE  UNCHANGED <<order, storeOrders, job>> /\ Serial(requests'[p])
  <2>1. Begin(p, "track", "rows", {s}, Keep, n)
    BY <1>7 DEF TrackStoreOrder
  <2> QED
    BY <1>1, <2>1, BeginDoes DEF Serial, Syncs
<1>8. /\ ~PaymentSucceeded(p) /\ ~RefundInFull(p)
      /\ \A n \in Parcels : ~HandleWebhook(p, n) /\ ~PurchaseLabel(p, n)
  BY DEF SellersOnly, SerialInv, PaymentSucceeded, RefundInFull, HandleWebhook,
         PurchaseLabel
<1> QED
  BY <1>2, <1>3, <1>4, <1>5, <1>6, <1>7, <1>8 DEF Call

LEMMA StatementSerial ==
  ASSUME SerialInv, NEW p \in Requests, Statement(p) \/ Rollback(p), ~Commit(p)
  PROVE  UNCHANGED <<order, storeOrders, job>> /\ Serial(requests'[p])
<1>1. PICK n : n = requests'[p]
  OBVIOUS
<1>2. Step(p, n) /\ UNCHANGED <<order, storeOrders, job>> /\ TypeOK
  BY <1>1, StatementSteps DEF SerialInv, Inv, Step, rows
<1>3. PICK r : r = requests[p]
  OBVIOUS
<1>4. /\ Does(p, r, n) /\ Serial(r) /\ Sound(r)
      /\ Same(n, r) => SeesAtWork(n) = SeesAtWork(r)
  BY <1>2, <1>3, StatementDoes, SeesSame DEF SerialInv, Inv, RequestsSound
<1>5. ASSUME Rollback(p) PROVE Serial(n)
  BY <1>4, <1>5 DEF Does, Idle, Serial, Syncs
<1>6. ASSUME MatchRows(p) \/ StampDelivered(p) PROVE FALSE
  BY <1>4, <1>6 DEF Does, Serial, Syncs, Sound
<1>7. ASSUME RowsDone(p) PROVE Serial(n)
  BY <1>4, <1>7 DEF Does, Same, AfterRows, Serial, Syncs, Sound
<1>8. ASSUME UpdateOrder(p) PROVE Serial(n)
  <2>1. r.wrote \subseteq Shops
    BY <1>2, <1>3 DEF TypeOK, Request
  <2>2. /\ r.op \in {"cancel", "updateStatus", "markShipped"}
        /\ n.op = r.op /\ n.to = r.to /\ n.wrote = r.wrote
    BY <1>4, <1>8 DEF Does, Same, Serial, Syncs
  <2>3. CASE r.op = "cancel" \/ r.op = "markShipped"
    BY <1>4, <1>8, <2>2, <2>3 DEF Does, Serial, Syncs
  <2>4. CASE r.op = "updateStatus"
    BY <1>4, <1>8, <2>1, <2>2, <2>4 DEF Does, Serial, Syncs
  <2> QED
    BY <2>2, <2>3, <2>4
<1>9. ASSUME SyncReadsOrder(p) PROVE Serial(n)
  <2>1. r.op \in Syncs /\ SeesOrder(r) = order.status /\ SeesOrder(n) = SeesOrder(r)
    BY <1>4, <1>9 DEF Does, Serial, Syncs, SeesOrder, Sound
  <2>2. order.status \notin FulfilmentStages => Follows(SeesOrder(n), SeesAtWork(n))
    BY <2>1 DEF Follows
  <2> QED
    BY <1>4, <1>9, <2>1, <2>2 DEF Does, Same, AfterSync, Serial, Syncs
<1>10. ASSUME SyncReadsShops(p) PROVE Serial(n)
  <2>1. PICK derived : derived = LeastAdvanced(SeesAtWork(r))
    OBVIOUS
  <2>2. /\ r.op \in Syncs /\ SeesOrder(r) = order.status /\ r.stage = order.status
        /\ SeesOrder(n) = SeesOrder(r) /\ SeesAtWork(n) = SeesAtWork(r)
        /\ Same(n, r) /\ n.status = Keep
    BY <1>4, <1>10 DEF Does, Serial, Syncs, SeesOrder, Sound
  <2>3. IF derived \in {Keep, r.stage}
          THEN n.pc = "commit"
          ELSE n.pc = "advance" /\ n.stage = derived
    BY <1>4, <1>10, <2>1, <2>2 DEF Does, SeesAtWork, AfterSync, Syncs
  <2>4. derived \in {Keep, r.stage} => Follows(SeesOrder(n), SeesAtWork(n))
    BY <2>1, <2>2, DerivedFollows
  <2> QED
    BY <2>1, <2>2, <2>3, <2>4 DEF Same, Serial, Syncs
<1>11. ASSUME SyncUpdatesOrder(p) PROVE Serial(n)
  <2>1. /\ r.op \in Syncs /\ Same(n, r) /\ n.pc = "commit"
        /\ n.status = LeastAdvanced(SeesAtWork(r)) /\ n.status # Keep
    BY <1>4, <1>11 DEF Does, Serial, Syncs, AfterSync, Sound
  <2>2. Follows(SeesOrder(n), SeesAtWork(n))
    BY <1>4, <2>1, DerivedFollows DEF SeesOrder
  <2> QED
    BY <2>1, <2>2 DEF Same, Serial, Syncs
<1>12. ASSUME NEW s \in Shops, UpdateRow(p, s) PROVE Serial(n)
  <2>1. /\ r.pc = "rows" /\ n.op = r.op /\ n.to = r.to
        /\ n.pc = r.pc /\ n.status = r.status /\ n.todo = r.todo \ {s}
        /\ n.wrote = IF Matches(r, s) THEN r.wrote \cup {s} ELSE r.wrote
    BY <1>1, <1>2, <1>3, <1>12, UpdateRowDoes
  <2>2. r.op = "updateStatus" => n.wrote = r.wrote \cup {s}
    BY <2>1 DEF Matches
  <2> QED
    BY <1>4, <2>1, <2>2 DEF Serial, Syncs
<1> QED
  BY <1>1, <1>2, <1>5, <1>6, <1>7, <1>8, <1>9, <1>10, <1>11, <1>12 DEF Statement

LEMMA SerialStepInv ==
  ASSUME OneAtATime, SellersOnly, SerialInv, [Next]_vars PROVE SerialInv'
<1>1. Inv'
  BY NextInv DEF SerialInv
<1>2. ASSUME UNCHANGED <<order, storeOrders>>
      PROVE  /\ Follows(order.status, AtWork)'
             /\ \A r : Serial(r)' <=> Serial(r)
  <2>1. \A r : SeesOrder(r)' = SeesOrder(r) /\ SeesAtWork(r)' = SeesAtWork(r)
    BY <1>2 DEF SeesOrder, SeesAtWork, SeesShop, Updated
  <2> QED
    BY <1>2, <2>1 DEF SerialInv, Follows, AtWork, Serial
<1>3. ASSUME NEW p \in Requests, UNCHANGED <<order, storeOrders, job>>,
             Serial(requests'[p])
      PROVE  SerialInv'
  BY <1>1, <1>2, <1>3 DEF OneAtATime, SerialInv
<1>4. ASSUME NEW p \in Requests, Commit(p) PROVE SerialInv'
  <2>1. Follows(SeesOrder(requests[p]), SeesAtWork(requests[p]))
    BY <1>4, CommitFollows DEF Commit
  <2>2. /\ order'.status = SeesOrder(requests[p])
        /\ \A s \in Shops : storeOrders'[s].status = SeesShop(requests[p], s)
        /\ requests'[p] = Idle
    BY <1>4 DEF Commit, SeesShop, SerialInv, Inv, TypeOK
  <2>3. AtWork' = SeesAtWork(requests[p])
    BY <2>2 DEF AtWork, SeesAtWork
  <2>4. Follows(order.status, AtWork)'
    BY <2>1, <2>2, <2>3 DEF Follows
  <2>5. \A q \in Requests : Serial(requests[q])'
    BY <2>2 DEF OneAtATime, Idle, Serial, Syncs
  <2>6. job'.phase = "none"
    <3>1. requests[p].op # "pay"
      BY DEF SerialInv, Serial, Syncs
    <3> QED
      BY <1>4, <3>1 DEF Commit, SerialInv
  <2> QED
    BY <1>1, <2>4, <2>5, <2>6 DEF SerialInv
<1>5. ASSUME NEW p \in Requests, Call(p) \/ Statement(p) \/ Rollback(p)
      PROVE  SerialInv'
  BY <1>3, <1>4, <1>5, CallSerial, StatementSerial
<1>6. ~Work /\ ~JobFails
  <2>1. \A s \in Shops : job.phase = "none" =>
                           ~ConfirmRow(s) /\ ~AddEmail(s) /\ ~AddPush(s)
    BY DEF ConfirmRow, AddEmail, AddPush
  <2> QED
    BY <2>1 DEF SerialInv, Work, JobFails, TakeJob, FinishJob
<1>7. CASE UNCHANGED vars
  BY <1>1, <1>2, <1>7 DEF vars, rows, SerialInv
<1> QED
  BY <1>5, <1>6, <1>7 DEF Next

\* order-status-sync.ts: as long as the API serves its calls one at a time,
\* and only sellers and admins move a manual order, it is as far along as its
\* least advanced shop, whatever they call and wherever a call fails.
THEOREM FollowsAlone ==
  ASSUME OneAtATime, SellersOnly
  PROVE  Spec => []FollowsLeastAdvanced
<1>1. Init => SerialInv
  <2> SUFFICES ASSUME Init PROVE SerialInv
    OBVIOUS
  <2>1. order.status = "CONFIRMED"
        /\ \A s \in Shops : storeOrders[s].status = "CONFIRMED"
    BY DEF Init, InitialStatus, SellersOnly
  <2>2. AtWork \subseteq {"CONFIRMED"}
    BY <2>1 DEF AtWork
  <2>3. Follows(order.status, AtWork)
    BY <2>1, <2>2, FollowsOne
  <2>4. \A p \in Requests : Serial(requests[p])
    BY DEF Init, Idle, Serial, Syncs
  <2>5. job.phase = "none"
    BY DEF Init
  <2> QED
    BY <2>3, <2>4, <2>5, InitInv DEF SerialInv
<1>2. SerialInv /\ [Next]_vars => SerialInv'
  BY SerialStepInv
<1>3. SerialInv => FollowsLeastAdvanced
  BY DEF SerialInv, Follows, AtWork, FollowsLeastAdvanced
<1> QED
  BY <1>1, <1>2, <1>3, PTL DEF Spec

=============================================================================
