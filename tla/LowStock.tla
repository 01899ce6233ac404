------------------------------ MODULE LowStock ------------------------------
(***************************************************************************)
(* What is left of a product once orders are paid, and who is told that it *)
(* runs low.                                                               *)
(*                                                                         *)
(*   low-stock.service.ts     checkAfterOrder, dailyScan, maybeAlert       *)
(*   low-stock.processor.ts   process                                      *)
(*   products.service.ts      update, where it writes the quantity         *)
(*                                                                         *)
(* ORDER_PAID puts one job check-order-low-stock per order on the queue    *)
(* (EventBus).  Its processor takes the order's items off their products,  *)
(* one UPDATE each, and mails the administrator of a product that is low,  *)
(* unless a key of 24 hours in Redis says it was done.  Every API process  *)
(* has a worker; a job that throws is tried again, whole, and so is one    *)
(* whose worker lost its lock, which may still be running.                 *)
(*                                                                         *)
(* A seller's edit overwrites the quantity.  What has to add up is counted *)
(* from there: base and since are history.  Left out: turning the tracking *)
(* of a product on or off, and its threshold's edits.                      *)
(***************************************************************************)
EXTENDS Integers, Sequences, FiniteSetsExt

CONSTANTS
  Products,
  Untracked,        \* those without trackInventory, or with quantity NULL
  Threshold,        \* lowStockThreshold, where there is one
  Baskets,          \* orders
  Lines,            \* Lines[o]: the items of order o
  Pickers,          \* workers of the queue low-stock
  StockAttempts,    \* DEFAULT_JOB_OPTIONS.attempts
  StockStalls,      \* BullMQ's maxStalledCount
  Quantities,       \* bound: what a seller enters
  MaxStockFaults,   \* bound: throws and lost locks
  MaxStockEdits     \* bound: edits of a quantity

Tracked == Products \ Untracked
Line == [product : Products, n : Nat \ {0}]

ASSUME StockAssumption ==
  /\ Untracked \subseteq Products
  /\ Lines \in [Baskets -> Seq(Line)]
  /\ DOMAIN Threshold \subseteq Tracked
  /\ \A p \in DOMAIN Threshold : Threshold[p] \in Nat
  /\ Quantities \subseteq Nat
  /\ StockAttempts \in Nat \ {0} /\ StockStalls \in Nat
  /\ MaxStockFaults \in Nat /\ MaxStockEdits \in Nat

VARIABLES
  quantity,      \* Product.quantity
  alertKey,      \* Redis: low_stock_alert:<product> is there
  checks,        \* the jobs check-order-low-stock
  pickers,       \* what each worker is doing
  base,          \* history: the quantity last entered
  since,         \* history: checks first begun after that
  heard,         \* history: alerted of since it was last taken or edited
  missed,        \* history: last taken by a worker without the job's lock,
                 \* which died or threw before it had alerted
  stockFaults, stockEdits

stockHistory == <<base, since, heard, missed>>
stockBounds == <<stockFaults, stockEdits>>
stockVars == <<quantity, alertKey, checks, pickers, stockHistory, stockBounds>>

Check == [state : {"none", "waiting", "active", "completed", "failed"},
          attempts : 0 .. StockAttempts, stalls : 0 .. StockStalls]
NoCheck == [state |-> "none", attempts |-> 0, stalls |-> 0]

\* rest: products still to be looked at.  order {}: the daily scan.
Picker == [at : {"idle", "next", "ask", "set", "mail"},
           order : {{}} \cup {{o} : o \in Baskets}, rest : SUBSET Tracked,
           product : {{}} \cup {{p} : p \in Tracked}, locked : BOOLEAN]
Resting == [at |-> "idle", order |-> {}, rest |-> {}, product |-> {},
            locked |-> FALSE]

StockTypeOK ==
  /\ quantity \in [Tracked -> Int]
  /\ alertKey \in [Tracked -> BOOLEAN]
  /\ checks \in [Baskets -> Check]
  /\ pickers \in [Pickers -> Picker]
  /\ base \in [Tracked -> Quantities]
  /\ since \in [Tracked -> SUBSET Baskets]
  /\ heard \in [Tracked -> BOOLEAN]
  /\ missed \subseteq Tracked
  /\ stockFaults \in 0 .. MaxStockFaults
  /\ stockEdits \in 0 .. MaxStockEdits

StockInit ==
  /\ base \in [Tracked -> Quantities]
  /\ quantity = base
  /\ alertKey = [p \in Tracked |-> FALSE]
  /\ checks = [o \in Baskets |-> NoCheck]
  /\ pickers = [w \in Pickers |-> Resting]
  /\ since = [p \in Tracked |-> {}]
  /\ heard = [p \in Tracked |-> FALSE] /\ missed = {}
  /\ stockFaults = 0 /\ stockEdits = 0

-----------------------------------------------------------------------------
LinesOf(o, p) == {i \in DOMAIN Lines[o] : Lines[o][i].product = p}
Bought(o) == {p \in Tracked : LinesOf(o, p) # {}}
Numbers(o, p) == {Lines[o][i].n : i \in LinesOf(o, p)}
Sold(o, p) == MapThenSumSet(LAMBDA i : Lines[o][i].n, LinesOf(o, p))

\* isOutOfStock or isLowStock.
IsLow(p, q) == \/ q <= 0
               \/ p \in DOMAIN Threshold /\ q <= Threshold[p]

Becomes(w, r) == pickers' = [pickers EXCEPT ![w] = r]

-----------------------------------------------------------------------------
(* The job of one order                                                    *)

\* The dispatcher adds the job.
AddCheck(o) ==
  /\ checks[o].state = "none"
  /\ checks' = [checks EXCEPT ![o].state = "waiting"]
  /\ UNCHANGED <<quantity, alertKey, pickers, stockHistory, stockBounds>>

\* checkAfterOrder: the order and its items.
TakeCheck(w, o) ==
  /\ pickers[w] = Resting
  /\ checks[o].state = "waiting"
  /\ checks' = [checks EXCEPT ![o].state = "active"]
  /\ Becomes(w, [Resting EXCEPT !.at = "next", !.order = {o},
                                !.rest = Bought(o), !.locked = TRUE])
  /\ since' = IF checks[o] = [NoCheck EXCEPT !.state = "waiting"]
              THEN [p \in Tracked |-> since[p] \cup {o}] ELSE since
  /\ UNCHANGED <<quantity, alertKey, base, heard, missed, stockBounds>>

\* MUTANT of Returned: the product as it was read, not what UPDATE returned.
ReturnedAsRead(p, n) == quantity[p]

\* The quantity UPDATE ... RETURNING answers with.
Returned(p, n) == quantity[p] - n

\* MUTANT of Others: a product seen twice ends the loop.
OthersNone(o, rest, p) == IF Cardinality(LinesOf(o, p)) > 1 THEN {}
                          ELSE rest \ {p}

\* What the loop has left: a second item of p is passed over (processed).
Others(o, rest, p) == rest \ {p}

\* One turn of the loop.  The items come in no stated order.
DecrementStock(w, i) ==
  \E o \in pickers[w].order :
    LET p == Lines[o][i].product
        n == Lines[o][i].n
        r == [pickers[w] EXCEPT !.rest = Others(o, @, p)]
    IN
    /\ pickers[w].at = "next"
    /\ p \in pickers[w].rest
    /\ quantity' = [quantity EXCEPT ![p] = @ - n]
    /\ heard' = [heard EXCEPT ![p] = FALSE]
    /\ missed' = missed \ {p}
    /\ Becomes(w, IF IsLow(p, Returned(p, n))
                  THEN [r EXCEPT !.at = "ask", !.product = {p}] ELSE r)
    /\ UNCHANGED <<alertKey, checks, base, since, stockBounds>>

\* Nothing left: the job completes, if this worker still holds it.
FinishPicking(w) ==
  /\ pickers[w].at = "next" /\ pickers[w].rest = {}
  /\ checks' = [o \in Baskets |->
                  IF o \in pickers[w].order /\ pickers[w].locked
                  THEN [checks[o] EXCEPT !.state = "completed"]
                  ELSE checks[o]]
  /\ Becomes(w, Resting)
  /\ UNCHANGED <<quantity, alertKey, stockHistory, stockBounds>>

-----------------------------------------------------------------------------
(* The daily scan                                                          *)

\* dailyScan reads the tracked products that are on sale.
ReadForScan(w, onSale) ==
  /\ pickers[w] = Resting
  /\ Becomes(w, [Resting EXCEPT
                   !.at = "next",
                   !.rest = {p \in onSale : IsLow(p, quantity[p])}])
  /\ UNCHANGED <<quantity, alertKey, checks, stockHistory, stockBounds>>

ScanNext(w, p) ==
  /\ pickers[w].at = "next" /\ pickers[w].order = {}
  /\ p \in pickers[w].rest
  /\ Becomes(w, [pickers[w] EXCEPT !.at = "ask", !.rest = @ \ {p},
                                   !.product = {p}])
  /\ UNCHANGED <<quantity, alertKey, checks, stockHistory, stockBounds>>

-----------------------------------------------------------------------------
(* maybeAlert                                                              *)

Fault == /\ stockFaults < MaxStockFaults
         /\ stockFaults' = stockFaults + 1
         /\ UNCHANGED stockEdits

Hears(w) == heard' = [p \in Tracked |-> heard[p] \/ p \in pickers[w].product]
Proceeds(w) == [pickers[w] EXCEPT !.at = "next", !.product = {}]

AskKey(w) ==
  /\ pickers[w].at = "ask"
  /\ \/ /\ \E p \in pickers[w].product : alertKey[p]
        /\ Becomes(w, Proceeds(w))
        /\ Hears(w)
     \/ /\ \E p \in pickers[w].product : ~alertKey[p]
        /\ Becomes(w, [pickers[w] EXCEPT !.at = "set"])
        /\ UNCHANGED heard
  /\ UNCHANGED <<quantity, alertKey, checks, base, since, missed,
                 stockBounds>>

SetKey(w) ==
  /\ pickers[w].at = "set"
  /\ alertKey' = [p \in Tracked |-> alertKey[p] \/ p \in pickers[w].product]
  /\ Becomes(w, [pickers[w] EXCEPT !.at = "mail"])
  /\ UNCHANGED <<quantity, checks, stockHistory, stockBounds>>

\* RedisService answers an error of Redis with FALSE, or with nothing done.
RedisFails(w) ==
  /\ pickers[w].at \in {"ask", "set"}
  /\ Fault
  /\ Becomes(w, [pickers[w] EXCEPT
                   !.at = IF @ = "ask" THEN "set" ELSE "mail"])
  /\ UNCHANGED <<quantity, alertKey, checks, stockHistory>>

QueueAlert(w) ==
  /\ pickers[w].at = "mail"
  /\ Becomes(w, Proceeds(w))
  /\ Hears(w)
  /\ UNCHANGED <<quantity, alertKey, checks, base, since, missed,
                 stockBounds>>

\* The key's 24 hours are over.
AlertKeyExpires(p) ==
  /\ alertKey[p]
  /\ alertKey' = [alertKey EXCEPT ![p] = FALSE]
  /\ UNCHANGED <<quantity, checks, pickers, stockHistory, stockBounds>>

-----------------------------------------------------------------------------
(* Failures, and the seller                                                *)

Holds(w, o) == o \in pickers[w].order /\ pickers[w].locked
AgainIf(more) == IF more THEN "waiting" ELSE "failed"

\* A statement, or the add of the mail, throws.
PickerThrows(w) ==
  /\ pickers[w] # Resting
  /\ Fault
  /\ checks' = [o \in Baskets |->
       IF Holds(w, o)
       THEN [checks[o] EXCEPT
               !.attempts = @ + 1,
               !.state = AgainIf(checks[o].attempts + 1 < StockAttempts)]
       ELSE checks[o]]
  /\ missed' = IF pickers[w].locked THEN missed
               ELSE missed \cup {p \in pickers[w].product : ~heard[p]}
  /\ Becomes(w, Resting)
  /\ UNCHANGED <<quantity, alertKey, base, since, heard>>

\* The lock of the job runs out, under a worker that died or that goes on.
PickerStalls(w) ==
  /\ pickers[w].locked
  /\ Fault
  /\ checks' = [o \in Baskets |->
       IF Holds(w, o)
       THEN IF checks[o].stalls < StockStalls
            THEN [checks[o] EXCEPT !.stalls = @ + 1, !.state = "waiting"]
            ELSE [checks[o] EXCEPT !.state = "failed"]
       ELSE checks[o]]
  /\ \/ Becomes(w, Resting)
     \/ Becomes(w, [pickers[w] EXCEPT !.locked = FALSE])
  /\ UNCHANGED <<quantity, alertKey, stockHistory>>

\* A seller saves a quantity, whatever was there.
EnterQuantity(p, q) ==
  /\ stockEdits < MaxStockEdits
  /\ stockEdits' = stockEdits + 1
  /\ quantity' = [quantity EXCEPT ![p] = q]
  /\ base' = [base EXCEPT ![p] = q]
  /\ since' = [since EXCEPT ![p] = {}]
  /\ heard' = [heard EXCEPT ![p] = FALSE]
  /\ UNCHANGED <<alertKey, checks, pickers, missed, stockFaults>>

-----------------------------------------------------------------------------
StockNext ==
  \/ \E o \in Baskets : AddCheck(o)
  \/ \E w \in Pickers, o \in Baskets : TakeCheck(w, o)
  \/ \E w \in Pickers : \E o \in pickers[w].order :
       \E i \in DOMAIN Lines[o] : DecrementStock(w, i)
  \/ \E w \in Pickers : \/ FinishPicking(w) \/ AskKey(w) \/ SetKey(w)
                        \/ RedisFails(w) \/ QueueAlert(w)
                        \/ PickerThrows(w) \/ PickerStalls(w)
  \/ \E w \in Pickers, onSale \in SUBSET Tracked : ReadForScan(w, onSale)
  \/ \E w \in Pickers, p \in Tracked : ScanNext(w, p)
  \/ \E p \in Tracked : AlertKeyExpires(p)
  \/ \E p \in Tracked, q \in Quantities : EnterQuantity(p, q)

StockSpec == StockInit /\ [][StockNext]_stockVars

-----------------------------------------------------------------------------
(* Properties                                                              *)

CheckedSince(p) == {o \in since[p] : checks[o].state = "completed"}

\* Whatever was retried, stalled or run side by side, an order whose check
\* completed has been taken off the stock: at least one of its items of each
\* product, since no completed check skips a product (checkAfterOrder).
SoldIsTaken == \A p \in Tracked :
  quantity[p] <= base[p] - SumFunctionOnSet(
    [o \in Baskets |-> Min(Numbers(o, p))],
    {o \in CheckedSince(p) : p \in Bought(o)})

\* A product that checks have brought down to its threshold, or to nothing,
\* was not passed over in silence once they are through: whoever took the
\* last of it queued the mail, or found the key of an alert less than a day
\* old (checkAfterOrder and maybeAlert), although nobody locks anything; but
\* for a worker that had lost its job and failed, which nobody repeats.  The
\* key is set first: a mail that cannot be queued is not tried again that day.
Quiet(p) ==
  /\ \A o \in Baskets : p \in Bought(o) =>
       checks[o].state \in {"none", "completed"}
  /\ \A w \in Pickers : \A o \in pickers[w].order : p \notin Bought(o)

LowIsHeardOf == \A p \in Tracked :
  (\E o \in CheckedSince(p) : p \in Bought(o))
    /\ Quiet(p) /\ IsLow(p, quantity[p])
  => heard[p] \/ p \in missed

\* "a repeat run costs at most a duplicate alert and never duplicate data"
\* (low-stock.processor.ts): what is gone was sold.  The code takes an order's
\* items again on every retry.
TakenOnce == \A p \in Tracked :
  quantity[p] >= base[p] - MapThenSumSet(
    LAMBDA o : Sold(o, p), {o \in Baskets : checks[o].state # "none"})
=============================================================================
