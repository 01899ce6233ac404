----------------------------- MODULE Fulfilment -----------------------------
(***************************************************************************)
(* Sending one shop's part of an order to its print providers, and what    *)
(* the providers report back.                                              *)
(*                                                                         *)
(*   fulfillment.processor.ts          process, handlePushStoreOrder,      *)
(*                                     onFailed                            *)
(*   fulfillment-webhook.service.ts    handlePrintifyEvent,                *)
(*                                     handleMerchizeEvent                 *)
(*   order-tracking.service.ts         updateStage                         *)
(*                                                                         *)
(* One job, push-store-order, walks over the connections its items are     *)
(* mapped to and makes an order at each provider; an error throws the job  *)
(* back into the queue, whole.  A provider's orders then go their way, and *)
(* every step of theirs is reported by a webhook any number of times, in   *)
(* any order, or never.                                                    *)
(*                                                                         *)
(* A worker may lose the lock of its job, dead or alive: one alive goes on *)
(* writing rows and making orders, and nothing it says of the job counts.  *)
(*                                                                         *)
(* The providers are external: a POST makes an order whether or not its    *)
(* answer arrives.  Left out: what is printed and where it is sent, and    *)
(* the seller's mail.                                                      *)
(***************************************************************************)
EXTENDS Naturals, Sequences, FiniteSetsExt

CONSTANTS
  Printify,     \* connections of the shop to Printify that the items need
  Merchize,     \* ... and to Merchize
  NoConn,       \* no connection
  Pushers,      \* workers of the queue fulfillment
  Postmen,      \* webhook requests under way at one time
  PushAttempts, \* FULFILLMENT_JOB_OPTIONS.attempts
  PushStalls,   \* BullMQ's maxStalledCount
  MaxPrints     \* bound: orders made at all providers together

Connections == Printify \cup Merchize

VARIABLES
  row,          \* the StoreOrderFulfillment row of a connection
  prints,       \* the orders a provider made, in turn, and how far each is
  push,         \* the job push-store-order
  walk,         \* what each worker is doing
  postman,      \* what each webhook request is doing
  stage,        \* OrderTracking.currentStage
  parcelOf,     \* whose tracking number the StoreOrder row shows
  late          \* history: rows created after onFailed had marked the others

reports == <<stage, parcelOf>>
fulfilVars == <<row, prints, push, walk, postman, reports, late>>

ASSUME FulfilKeysAssumption == /\ Printify \cap Merchize = {}
                               /\ NoConn \notin Connections
ASSUME FulfilBoundsAssumption == /\ PushAttempts \in Nat \ {0}
                                 /\ PushStalls \in Nat
                                 /\ MaxPrints \in Nat \ {0}

-----------------------------------------------------------------------------
PrintState == {"made", "production", "shipped", "delivered", "cancelled"}
RowStatus == {"PENDING", "SUBMITTED", "IN_PRODUCTION", "FULFILLED", "FAILED"}
Stages == {"SENT_TO_FULFILLMENT", "IN_PRODUCTION", "PICKED_UP", "IN_TRANSIT",
           "DELIVERED"}

\* external: externalOrderId, 0 while it is null.
Row == [status : RowStatus \cup {"none"}, external : Nat]

\* left: connections still to come.  files: printable as read at the start.
\* locked: the job is this worker's.
Walk == [at : {"loop", "call", "write", "threw"},
         conn : Connections \cup {NoConn}, left : SUBSET Connections,
         files : SUBSET Merchize, external : Nat, locked : BOOLEAN]

\* What a webhook request has left to write: the row's status, the tracking
\* number, the stage the buyer sees (one of stages).
Postman == [conn : Connections \cup {NoConn}, status : RowStatus \cup {"none"},
            numbered : BOOLEAN, stages : SUBSET Stages]

\* exhausted: failed, onFailed to come; then dead, or unmarked if its update
\* was not written.  stalled: failed with attempts left.
Push == [state : {"waiting", "active", "skipped", "completed", "refused",
                  "stalled", "exhausted", "dead", "unmarked"},
         attempts : 0 .. PushAttempts, stalls : 0 .. PushStalls]

AtRest == [at |-> "none", locked |-> FALSE]
Home == [conn |-> NoConn, status |-> "none", numbered |-> FALSE,
         stages |-> {}]

FulfilTypeOK ==
  /\ row \in [Connections -> Row]
  /\ prints \in [Connections -> Seq(PrintState)]
  /\ push \in Push
  /\ walk \in [Pushers -> Walk \cup {AtRest}]
  /\ \A w \in Pushers : walk[w].at \in {"call", "write"}
                           => walk[w].conn \in walk[w].left
  /\ postman \in [Postmen -> Postman]
  /\ \A m \in Postmen : postman[m].status # "none" \/ postman[m].numbered
                           => postman[m].conn \in Connections
  /\ stage \in Stages \cup {"none"}
  /\ parcelOf \subseteq Connections
  /\ late \subseteq Connections

FulfilInit ==
  /\ row = [c \in Connections |-> [status |-> "none", external |-> 0]]
  /\ prints = [c \in Connections |-> <<>>]
  /\ push = [state |-> "waiting", attempts |-> 0, stalls |-> 0]
  /\ walk = [w \in Pushers |-> AtRest]
  /\ postman = [m \in Postmen |-> Home]
  /\ stage = "none"
  /\ parcelOf = {}
  /\ late = {}

-----------------------------------------------------------------------------
(* The providers' reports, and what is made of them                        *)

\* externalOrderId of the nth order: Merchize is given the row's own id.
External(c, n) == IF c \in Merchize THEN 1 ELSE n

Following(state) ==
  CASE state = "made" -> {"production", "cancelled"}
    [] state = "production" -> {"shipped"}
    [] state = "shipped" -> {"delivered"}
    [] OTHER -> {}

\* The states an order has been in.
Reached(state) ==
  CASE state = "made" -> {"made"}
    [] state = "cancelled" -> {"made", "cancelled"}
    [] state = "production" -> {"made", "production"}
    [] state = "shipped" -> {"made", "production", "shipped"}
    [] state = "delivered" -> {"made", "production", "shipped", "delivered"}

\* updated: order:updated with the status.  milestone: sent-to-production,
\* shipment:created and :delivered.  The others are Merchize's.
Kinds(c, state) ==
  IF c \in Printify
    THEN {"updated"} \cup {k \in {"milestone"} :
                             state \in {"production", "shipped", "delivered"}}
    ELSE {k \in {"progress"} : state # "cancelled"}
           \cup {k \in {"tracking"} : state = "shipped"}
           \cup {k \in {"shipment"} : state \in {"shipped", "delivered"}}
           \cup {k \in {"error"} : state = "cancelled"}

\* MUTANT of StatusOf: an order counts as sent as soon as it is produced.
StatusOfHasty(state) ==
  CASE state = "made" -> "SUBMITTED"
    [] state = "cancelled" -> "FAILED"
    [] OTHER -> "FULFILLED"

\* ORDER_UPDATED_STATUS_MAP, MERCHIZE_PROGRESS_MAP and resolveStatus.
StatusOf(state) ==
  CASE state = "made" -> "SUBMITTED"
    [] state = "production" -> "IN_PRODUCTION"
    [] state \in {"shipped", "delivered"} -> "FULFILLED"
    [] state = "cancelled" -> "FAILED"

Numbered(kind, state) ==
  \/ kind = "tracking"
  \/ kind = "milestone" /\ state \in {"shipped", "delivered"}

\* TRACKING_STAGE_MAP, where every order:updated means IN_PRODUCTION,
\* MERCHIZE_PROGRESS_MAP and MERCHIZE_SHIPMENT_STAGE_MAP.
StagesOf(kind, state) ==
  CASE kind = "updated" -> {"IN_PRODUCTION"}
    [] kind = "error" -> {}
    [] OTHER ->
       CASE state = "made" -> {"SENT_TO_FULFILLMENT"}
         [] state = "production" ->
              {IF kind = "milestone" THEN "SENT_TO_FULFILLMENT"
                                     ELSE "IN_PRODUCTION"}
         [] state = "shipped" ->
              {"IN_TRANSIT"} \cup {p \in {"PICKED_UP"} : kind = "shipment"}
         [] state = "delivered" -> {"DELIVERED"}

\* What a request has left to write, Home when that is nothing.
Left(work, status, numbered) ==
  IF status = "none" /\ ~numbered
    THEN IF work.stages = {} THEN Home
                             ELSE [Home EXCEPT !.stages = work.stages]
    ELSE [work EXCEPT !.status = status, !.numbered = numbered]

-----------------------------------------------------------------------------
(* handlePushStoreOrder                                                    *)

Turns(w, step) == walk' = [walk EXCEPT ![w] = step]
Throws(w) == Turns(w, [walk[w] EXCEPT !.at = "threw"])

\* The worker is through with the job, which is finished, or has failed, only
\* if the worker still holds its lock.
Leaves(w, state, tries) ==
  /\ push' = IF walk[w].locked
               THEN [push EXCEPT !.state = state, !.attempts = @ + tries]
               ELSE push
  /\ Turns(w, AtRest)

\* It reads once what is the seller's to change: whether the shop is on
\* MANUAL fulfilment, and which items have a FRONT print file by now.
TakePush(w) ==
  /\ push.state = "waiting"
  /\ walk[w] = AtRest
  /\ \/ /\ push' = [push EXCEPT !.state = "active"]
        /\ \E files \in SUBSET Merchize :
             Turns(w, [at |-> "loop", conn |-> NoConn, left |-> Connections,
                       files |-> files, external |-> 0, locked |-> TRUE])
     \/ push' = [push EXCEPT !.state = "skipped"] /\ UNCHANGED walk
  /\ UNCHANGED <<row, prints, postman, reports, late>>

\* The items come in no particular order.  The upsert keeps the row there is,
\* or throws, as the reads before it may.
OpenRow(w, c) ==
  /\ walk[w].at = "loop"
  /\ c \in walk[w].left
  /\ \/ /\ row' = [row EXCEPT ![c].status = IF @ = "none" THEN "PENDING"
                                                          ELSE @]
        /\ late' = late \cup {d \in {c} : row[d].status = "none"
                                           /\ push.state = "dead"}
        /\ Turns(w, [walk[w] EXCEPT !.at = "call", !.conn = c])
     \/ Throws(w) /\ UNCHANGED <<row, late>>
  /\ UNCHANGED <<prints, push, postman, reports>>

\* Without a print file Merchize is not called, and the job not retried,
\* unless one of the two updates on the way, here or in the catch, throws.
Refuse(w) ==
  LET refused == [row EXCEPT ![walk[w].conn].status = "FAILED"] IN
  /\ walk[w].at = "call"
  /\ walk[w].conn \in Merchize \ walk[w].files
  /\ \/ row' = refused /\ Leaves(w, "refused", 1)
     \/ row' \in {row, refused} /\ Throws(w) /\ UNCHANGED push
  /\ UNCHANGED <<prints, postman, reports, late>>

PrintsAt(c) == Len(prints[c])
Printed == MapThenSumSet(PrintsAt, Connections)

\* createOrder: made and answered, made and not answered, or not made.  The
\* connection is used whether or not it is ACTIVE.  Merchize is given the
\* row's id as the order's number, Printify answers with a number of its own.
CallProvider(w) ==
  LET c == walk[w].conn
      made == Append(prints[c], "made") IN
  /\ walk[w].at = "call"
  /\ c \notin Merchize \ walk[w].files
  /\ \/ /\ Printed < MaxPrints
        /\ prints' = [prints EXCEPT ![c] = made]
        /\ \/ Turns(w, [walk[w] EXCEPT !.at = "write",
                                       !.external = External(c, Len(made))])
           \/ Throws(w)
     \/ Throws(w) /\ UNCHANGED prints
  /\ UNCHANGED <<row, push, postman, reports, late>>

RecordSubmitted(w) ==
  LET c == walk[w].conn IN
  /\ walk[w].at = "write"
  /\ \/ /\ row' = [row EXCEPT ![c] = [status |-> "SUBMITTED",
                                      external |-> walk[w].external]]
        /\ Turns(w, [walk[w] EXCEPT !.at = "loop", !.conn = NoConn,
                                    !.left = @ \ {c}, !.external = 0])
     \/ Throws(w) /\ UNCHANGED row
  /\ UNCHANGED <<prints, push, postman, reports, late>>

PushCompletes(w) ==
  /\ walk[w].at = "loop"
  /\ walk[w].left = {}
  /\ Leaves(w, "completed", 0)
  /\ UNCHANGED <<row, prints, postman, reports, late>>

\* The error is rethrown: BullMQ takes the whole job up again.
PushThrows(w) ==
  /\ walk[w].at = "threw"
  /\ Leaves(w, IF push.attempts + 1 < PushAttempts THEN "waiting"
                                                   ELSE "exhausted", 1)
  /\ UNCHANGED <<row, prints, postman, reports, late>>

\* MUTANT of GivenUp: nothing becomes FAILED.
GivenUpNone == {}

GivenUp == {c \in Connections : row[c].status = "PENDING"}

\* onFailed, once the attempts are used up.  Its updateMany may throw, which
\* is swallowed, and the process may die before it: the job has failed.
OnFailed ==
  /\ push.state = "exhausted"
  /\ \/ /\ row' = [c \in Connections |->
                     IF c \in GivenUp THEN [row[c] EXCEPT !.status = "FAILED"]
                                      ELSE row[c]]
        /\ push' = [push EXCEPT !.state = "dead"]
     \/ push' = [push EXCEPT !.state = "unmarked"] /\ UNCHANGED row
  /\ UNCHANGED <<prints, walk, postman, reports, late>>

\* The lock of the job runs out, under a worker that died or that goes on.
\* BullMQ gives the job back, but a job that stalled too often it fails, with
\* attempts left: onFailed returns ("more retries pending") and marks nothing.
PushStalled(w) ==
  /\ walk[w].locked
  /\ push' = IF push.stalls < PushStalls
               THEN [push EXCEPT !.state = "waiting", !.stalls = @ + 1]
               ELSE [push EXCEPT !.state = "stalled"]
  /\ \/ Turns(w, AtRest)
     \/ Turns(w, [walk[w] EXCEPT !.locked = FALSE])
  /\ UNCHANGED <<row, prints, postman, reports, late>>

\* A worker that had lost the job dies after all.
PusherDies(w) ==
  /\ walk[w].at # "none" /\ ~walk[w].locked
  /\ Turns(w, AtRest)
  /\ UNCHANGED <<row, prints, push, postman, reports, late>>

-----------------------------------------------------------------------------
(* The provider, and its webhooks                                          *)

PrintAdvances(c, n) ==
  /\ n \in DOMAIN prints[c]
  /\ \E state \in Following(prints[c][n]) :
       prints' = [prints EXCEPT ![c][n] = state]
  /\ UNCHANGED <<row, push, walk, postman, reports, late>>

\* A number on no row is ignored; so is, by the guard, what comes over a
\* connection that is not ACTIVE: that one counts as never delivered.
ReceiveNotice(m, c, n, kind, state) ==
  /\ postman[m] = Home
  /\ n \in DOMAIN prints[c]
  /\ state \in Reached(prints[c][n])
  /\ kind \in Kinds(c, state)
  /\ row[c].external = External(c, n)
  /\ postman' = [postman EXCEPT
                   ![m] = [conn |-> c,
                           status |-> IF kind = "shipment"
                                        THEN "none" ELSE StatusOf(state),
                           numbered |-> Numbered(kind, state),
                           stages |-> StagesOf(kind, state)]]
  /\ UNCHANGED <<row, prints, push, walk, reports, late>>

\* The row is updated by the id it was found with.
WriteStatus(m) ==
  /\ postman[m].status # "none"
  /\ row' = [row EXCEPT ![postman[m].conn].status = postman[m].status]
  /\ postman' = [postman EXCEPT ![m] = Left(@, "none", @.numbered)]
  /\ UNCHANGED <<prints, push, walk, reports, late>>

\* The number goes on the StoreOrder, whichever provider's it is: Printify's
\* after the status, Merchize's before.
WriteNumber(m) ==
  /\ postman[m].numbered
  /\ parcelOf' = {postman[m].conn}
  /\ postman' = [postman EXCEPT ![m] = Left(@, @.status, FALSE)]
  /\ UNCHANGED <<row, prints, push, walk, stage, late>>

\* updateStage overwrites the stage there is.
WriteStage(m) ==
  /\ postman[m].status = "none" /\ ~postman[m].numbered
  /\ stage' \in postman[m].stages
  /\ postman' = [postman EXCEPT ![m] = Home]
  /\ UNCHANGED <<row, prints, push, walk, parcelOf, late>>

PostmanDies(m) ==
  /\ postman[m] # Home
  /\ postman' = [postman EXCEPT ![m] = Home]
  /\ UNCHANGED <<row, prints, push, walk, reports, late>>

FulfilNext ==
  \/ \E w \in Pushers :
       \/ \E c \in Connections : OpenRow(w, c)
       \/ TakePush(w) \/ Refuse(w) \/ CallProvider(w) \/ RecordSubmitted(w)
       \/ PushCompletes(w) \/ PushThrows(w) \/ PushStalled(w) \/ PusherDies(w)
  \/ OnFailed
  \/ \E c \in Connections : \E n \in DOMAIN prints[c] : PrintAdvances(c, n)
  \/ \E m \in Postmen :
       \/ \E c \in Connections : \E n \in DOMAIN prints[c] :
            \E state \in Reached(prints[c][n]) :
              \E kind \in Kinds(c, state) : ReceiveNotice(m, c, n, kind, state)
       \/ WriteStatus(m) \/ WriteNumber(m) \/ WriteStage(m) \/ PostmanDies(m)

FulfilSpec == FulfilInit /\ [][FulfilNext]_fulfilVars

-----------------------------------------------------------------------------
\* A job that completed has an order made at every connection, and of one
\* that used up its attempts onFailed leaves no row PENDING, whoever threw,
\* died or went on without the lock meanwhile; but for a row that such a
\* worker created after onFailed had looked.  This is as far as it goes: a
\* refusal, a stall too many and an onFailed that could not write (the
\* states refused, stalled and unmarked) leave rows PENDING for good.
NothingForgotten ==
  /\ push.state = "completed" =>
       \A c \in Connections : row[c].external # 0 /\ prints[c] # <<>>
  /\ push.state = "dead" =>
       \A c \in Connections \ late : row[c].status # "PENDING"

SomePrint(states) ==
  \E c \in Connections : \E n \in DOMAIN prints[c] : prints[c][n] \in states

\* Whatever is delivered late, twice or never: a row is IN_PRODUCTION or
\* FULFILLED after an order of its connection was, and its number is shown
\* after it was sent; the buyer is shown that the order was picked up or is on
\* its way after one was sent, and DELIVERED after one was.  Of the two stages
\* before, the buyer learns no more than that some order was placed: every
\* order:updated, pending or canceled, means IN_PRODUCTION to the code.
ReportedIsReal ==
  /\ \A c \in Connections :
       /\ row[c].status = "IN_PRODUCTION" =>
            \E n \in DOMAIN prints[c] :
              prints[c][n] \in {"production", "shipped", "delivered"}
       /\ row[c].status = "FULFILLED" =>
            \E n \in DOMAIN prints[c] :
              prints[c][n] \in {"shipped", "delivered"}
  /\ stage # "none" => SomePrint(PrintState)
  /\ stage \in {"PICKED_UP", "IN_TRANSIT"} =>
       SomePrint({"shipped", "delivered"})
  /\ stage = "DELIVERED" => SomePrint({"delivered"})
  /\ \A c \in parcelOf :
       \E n \in DOMAIN prints[c] : prints[c][n] \in {"shipped", "delivered"}

\* order.processor.ts, of queueing this job: "A duplicate push here would
\* place a second REAL print order with the provider".
OrderedOnce ==
  \A c \in Connections : prints[c] = <<>> \/ DOMAIN prints[c] = {1}
=============================================================================
