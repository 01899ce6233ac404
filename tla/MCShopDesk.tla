----------------------------- MODULE MCShopDesk -----------------------------
(* What a shop has on its desk: the orders it fulfils, the threads it        *)
(* answers, and its stock.  They share no row; a behaviour stays with the    *)
(* one it starts with, and what the others hold is left as it began.         *)
EXTENDS MCStoreOrders, Threads, LowStock

\* Who has a request or a job under way is w1 or w2 in every part.
CONSTANTS w1, w2,
          mug, tray, b1, b2   \* LowStock

VARIABLE desk

\* Order b1 has two items of one product; the other order has one of it.
MCThreshold == mug :> 1
MCLines ==
  [b \in {b1, b2} |->
     IF b = b1 THEN <<[product |-> mug, n |-> 2], [product |-> mug, n |-> 1],
                      [product |-> tray, n |-> 1]>>
               ELSE <<[product |-> mug, n |-> 1]>>]

DeskInit == /\ Init /\ ThreadInit /\ StockInit
            /\ desk \in {"orders", "threads", "stock"}

Selling == desk = "orders" /\ UNCHANGED <<desk, threadVars, stockVars>>
Writing == desk = "threads" /\ UNCHANGED <<desk, vars, stockVars>>
Counting == desk = "stock" /\ UNCHANGED <<desk, vars, threadVars>>

\* The parts' next-state relations, disjunct by disjunct, so that TLC counts
\* each.
DeskNext ==
  \/ Selling /\ Next
  \/ \E t \in Threads, buyer \in Buyers : Writing /\ MakeThread(t, buyer)
  \/ \E t \in Threads, side \in Sides : Writing /\ PutUnkeyed(t, side)
  \/ \E t \in Threads : Writing /\ PutFromPanel(t)
  \/ \E r \in Callers, t \in Threads, side \in Sides :
       Writing /\ Compose(r, t, side)
  \/ \E r \in Callers : Writing /\ WritePost(r)
  \/ \E r \in Callers, t \in Threads, side \in Sides :
       Writing /\ ResetBadge(r, t, side)
  \/ \E r \in Callers : Writing /\ MarkRows(r)
  \/ \E t \in Threads, n \in 0 .. 1 : Writing /\ BulkBadge(t, n)
  \/ \E r \in Callers, n \in DOMAIN posts : Writing /\ ReadForUnsend(r, n)
  \/ \E r \in Callers : Writing /\ Withdraw(r)
  \/ \E r \in Callers : Writing /\ FindLatest(r)
  \/ \E r \in Callers : Writing /\ CountUnread(r)
  \/ \E r \in Callers : Writing /\ RefreshPreview(r)
  \/ \E r \in Callers : Writing /\ ReadForLink(r)
  \/ \E r \in Callers : Writing /\ Relabel(r)
  \/ \E r \in Callers : Writing /\ FoldRead(r)
  \/ \E r \in Callers : Writing /\ FoldMove(r)
  \/ \E r \in Callers : Writing /\ FoldCommit(r)
  \/ \E r \in Callers : Writing /\ GiveUp(r)
  \/ \E o \in Baskets : Counting /\ AddCheck(o)
  \/ \E w \in Pickers, o \in Baskets : Counting /\ TakeCheck(w, o)
  \/ \E w \in Pickers : \E o \in pickers[w].order :
       \E i \in DOMAIN Lines[o] : Counting /\ DecrementStock(w, i)
  \/ \E w \in Pickers : Counting /\ FinishPicking(w)
  \/ \E w \in Pickers : Counting /\ AskKey(w)
  \/ \E w \in Pickers : Counting /\ SetKey(w)
  \/ \E w \in Pickers : Counting /\ RedisFails(w)
  \/ \E w \in Pickers : Counting /\ QueueAlert(w)
  \/ \E w \in Pickers : Counting /\ PickerThrows(w)
  \/ \E w \in Pickers : Counting /\ PickerStalls(w)
  \/ \E w \in Pickers, onSale \in SUBSET Tracked :
       Counting /\ ReadForScan(w, onSale)
  \/ \E w \in Pickers, p \in Tracked : Counting /\ ScanNext(w, p)
  \/ \E p \in Tracked : Counting /\ AlertKeyExpires(p)
  \/ \E p \in Tracked, q \in Quantities : Counting /\ EnterQuantity(p, q)

DeskSpec == DeskInit /\ [][DeskNext]_<<desk, vars, threadVars, stockVars>>

DeskSymmetry == StoreSymmetry \cup Permutations(Callers)

\* Each part keeps its types, whatever its requests, calls and jobs are in the
\* middle of; in particular a step of the shop's own never becomes a status,
\* of which the schema has none such (moveOrders).
DeskTypeOK ==
  CASE desk = "orders" -> TypeOK
    [] desk = "threads" -> ThreadTypeOK
    [] desk = "stock" -> StockTypeOK

\* Bound: nothing is explored past a thread the code has miscounted, of which
\* ListIsTrue says nothing any more.
Undisturbed == disturbed = {}

\* Bound: a seller enters a quantity, or a check of the stock fails; a second
\* failure is followed where it is that of a worker without its job's lock.
StockTrouble == \/ stockFaults + stockEdits <= 1
                \/ stockEdits = 0 /\ missed # {}
=============================================================================
