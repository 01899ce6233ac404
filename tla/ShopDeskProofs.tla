--------------------------- MODULE ShopDeskProofs ----------------------------
(***************************************************************************)
(* What TLAPS proves of a shop's stock and of what is written to it.       *)
(*                                                                         *)
(* LowStock, for any orders, products, workers and faults: what the        *)
(* checks of paid orders were to take is taken (SoldIsTaken), and a        *)
(* product that runs low is heard of (LowIsHeardOf).  The argument: what   *)
(* a worker has taken for its job, together with what it still holds, is   *)
(* what the job had of every product (StockSound); what was taken in all   *)
(* is then a sum over the checks that are done (TakenSound), and a worker  *)
(* that brought a product low still has it to alert of (HeardSound).       *)
(*                                                                         *)
(* Threads, for any threads, messages and calls: a composer's message is   *)
(* there once (SentOnce), and the lists are right (ListIsTrue).            *)
(* The argument: a fold under way is of the guest's thread into the        *)
(* account's, and what it has not moved came in after it looked            *)
(* (CallSound); a message with a composer's key is where it was written    *)
(* or its first thread is gone (PostsSound).  A badge is right unless      *)
(* somebody is between its two writes, and the guest's preview shows the   *)
(* newest message (ListSound): so a fold that nobody came between leaves   *)
(* nothing unread behind.                                                  *)
(*                                                                         *)
(* MCShopDesk, the two and StoreOrders side by side: each behaves as it    *)
(* does alone (EachPartAlone).                                             *)
(***************************************************************************)
EXTENDS MCShopDesk, StoreOrdersProofs, SumTheorems, SequenceTheorems,
        NaturalsInduction

-----------------------------------------------------------------------------
(* LowStock                                                                *)

-----------------------------------------------------------------------------
(* The stock's workers, and the jobs they hold                             *)

\* A worker that is between two products has none; what it has left, and what
\* it alerts of, its order's items are of; a job is held by one worker at
\* most, and is active while it is.
PickersSound ==
  \A w \in Pickers :
    /\ pickers[w].at \in {"idle", "next"} => pickers[w].product = {}
    /\ \A o \in pickers[w].order : /\ pickers[w].rest \subseteq Bought(o)
                                   /\ pickers[w].product \subseteq Bought(o)
    /\ \A o \in Baskets : Holds(w, o) =>
         /\ checks[o].state = "active"
         /\ \A v \in Pickers : Holds(v, o) => v = w

\* A job that is to run again has an attempt left.
ChecksSound ==
  \A o \in Baskets :
    checks[o].state \in {"none", "waiting", "active"} =>
      checks[o].attempts < StockAttempts

StockSound == StockTypeOK /\ PickersSound /\ ChecksSound

LEMMA BoughtTracked == \A o : Bought(o) \in SUBSET Tracked
  BY DEF Bought

LEMMA RestingPicker == Resting \in Picker
  BY DEF Resting, Picker

LEMMA StockInitSound == StockInit => StockSound
<1> SUFFICES ASSUME StockInit PROVE StockSound
  OBVIOUS
<1>1. NoCheck \in Check /\ NoCheck.attempts < StockAttempts
  BY StockAssumption DEF NoCheck, Check
<1>2. StockTypeOK
  <2>1. base \in [Tracked -> Quantities] /\ quantity \in [Tracked -> Int]
    <3>1. Quantities \subseteq Int
      BY StockAssumption
    <3>2. base \in [Tracked -> Quantities] /\ quantity = base
      BY DEF StockInit
    <3> QED
      BY <3>1, <3>2
  <2>2. /\ checks \in [Baskets -> Check] /\ pickers \in [Pickers -> Picker]
        /\ since \in [Tracked -> SUBSET Baskets]
    BY <1>1, RestingPicker DEF StockInit
  <2> QED
    BY <2>1, <2>2, StockAssumption DEF StockInit, StockTypeOK
<1>3. PickersSound
  BY DEF StockInit, PickersSound, Resting, Holds
<1>4. ChecksSound
  BY <1>1 DEF StockInit, ChecksSound
<1> QED
  BY <1>2, <1>3, <1>4 DEF StockSound

\* What one turn of the loop takes: some of a product that was left, and no
\* fewer than the smallest item of it.
LEMMA TurnTakes ==
  ASSUME StockSound, NEW w \in Pickers, NEW o \in pickers[w].order,
         NEW i \in DOMAIN Lines[o], DecrementStock(w, i)
  PROVE  LET p == Lines[o][i].product
             n == Lines[o][i].n
             r == [pickers[w] EXCEPT !.rest = @ \ {p}]
         IN /\ o \in Baskets /\ pickers[w].order = {o}
            /\ p \in Tracked /\ p \in Bought(o) /\ p \in pickers[w].rest
            /\ n \in Nat /\ n > 0 /\ n \in Numbers(o, p)
            /\ pickers[w].at = "next" /\ pickers[w].product = {}
            /\ quantity' = [quantity EXCEPT ![p] = @ - n]
            /\ heard' = [heard EXCEPT ![p] = FALSE]
            /\ missed' = missed \ {p}
            /\ \/ /\ IsLow(p, quantity[p] - n)
                  /\ pickers' = [pickers EXCEPT
                                   ![w] = [r EXCEPT !.at = "ask",
                                                    !.product = {p}]]
               \/ /\ ~IsLow(p, quantity[p] - n)
                  /\ pickers' = [pickers EXCEPT ![w] = r]
            /\ UNCHANGED <<alertKey, checks, base, since, stockBounds>>
<1> DEFINE p == Lines[o][i].product
           n == Lines[o][i].n
           r == [pickers[w] EXCEPT !.rest = @ \ {p}]
<1>1. pickers[w] \in Picker
  BY DEF StockSound, StockTypeOK
<1>2. o \in Baskets /\ pickers[w].order = {o}
  BY <1>1 DEF Picker
<1>3. Lines[o][i] \in Line /\ n \in Nat /\ n > 0
  <2>1. Lines[o] \in Seq(Line)
    BY <1>2, StockAssumption
  <2>2. Lines[o][i] \in Line
    BY <2>1
  <2> QED
    BY <2>2 DEF Line
<1>4. /\ pickers[w].at = "next"
      /\ p \in pickers[w].rest
      /\ quantity' = [quantity EXCEPT ![p] = @ - n]
      /\ heard' = [heard EXCEPT ![p] = FALSE]
      /\ missed' = missed \ {p}
      /\ Becomes(w, IF IsLow(p, quantity[p] - n)
                    THEN [r EXCEPT !.at = "ask", !.product = {p}] ELSE r)
      /\ UNCHANGED <<alertKey, checks, base, since, stockBounds>>
  BY <1>2 DEF DecrementStock, Returned, Others
<1>5. pickers[w].product = {} /\ p \in Bought(o)
  BY <1>4 DEF StockSound, PickersSound
<1>6. p \in Tracked /\ n \in Numbers(o, p)
  BY <1>5, BoughtTracked DEF Numbers, LinesOf
<1> HIDE DEF p, n, r
<1>7. \/ /\ IsLow(p, quantity[p] - n)
         /\ pickers' = [pickers EXCEPT ![w] = [r EXCEPT !.at = "ask",
                                                        !.product = {p}]]
      \/ /\ ~IsLow(p, quantity[p] - n)
         /\ pickers' = [pickers EXCEPT ![w] = r]
  BY <1>4 DEF Becomes
<1> QED
  BY <1>2, <1>3, <1>4, <1>5, <1>6, <1>7 DEF p, n, r

\* The types a step leaves, from what it does to the jobs and the workers.
LEMMA TurnSound ==
  ASSUME StockSound, NEW w \in Pickers, NEW o \in pickers[w].order,
         NEW i \in DOMAIN Lines[o], DecrementStock(w, i)
  PROVE  StockSound'
<1> DEFINE p == Lines[o][i].product
           n == Lines[o][i].n
<1>1. /\ o \in Baskets /\ pickers[w].order = {o}
      /\ p \in Tracked /\ p \in Bought(o)
      /\ n \in Nat
      /\ quantity' = [quantity EXCEPT ![p] = @ - n]
      /\ heard' = [heard EXCEPT ![p] = FALSE]
      /\ missed' = missed \ {p}
      /\ UNCHANGED <<alertKey, checks, base, since, stockBounds>>
  BY TurnTakes
<1>2. PICK r : /\ pickers' = [pickers EXCEPT ![w] = r]
               /\ \/ r = [[pickers[w] EXCEPT !.rest = @ \ {p}]
                           EXCEPT !.at = "ask", !.product = {p}]
                  \/ r = [pickers[w] EXCEPT !.rest = @ \ {p}]
  BY TurnTakes
<1> HIDE DEF p, n
<1>3. pickers[w] \in Picker /\ pickers \in [Pickers -> Picker]
  BY DEF StockSound, StockTypeOK
<1>4. /\ r \in Picker
      /\ r.order = {o} /\ r.locked = pickers[w].locked
      /\ r.rest \subseteq pickers[w].rest
      /\ \/ r.product = {p} /\ r.at = "ask"
         \/ r.product = pickers[w].product /\ r.at = pickers[w].at
  <2>1. PICK b : b = pickers[w] /\ b \in Picker /\ b.order = {o}
    BY <1>1, <1>3
  <2>2. CASE r = [b EXCEPT !.rest = @ \ {p}]
    BY <2>1, <2>2 DEF Picker
  <2>3. CASE r = [[b EXCEPT !.rest = @ \ {p}] EXCEPT !.at = "ask", !.product = {p}]
    BY <1>1, <2>1, <2>3 DEF Picker
  <2> QED
    BY <1>2, <2>1, <2>2, <2>3
<1>5. StockTypeOK'
  BY <1>1, <1>2, <1>4 DEF StockSound, StockTypeOK, stockBounds
<1>6. PickersSound'
  <2>1. \A v \in Pickers : v # w => pickers'[v] = pickers[v]
    BY <1>2, <1>3
  <2>2. pickers'[w] = r
    BY <1>2, <1>3
  <2>3. \A v \in Pickers, d \in Baskets : Holds(v, d)' <=> Holds(v, d)
    BY <1>1, <1>4, <2>1, <2>2 DEF Holds
  <2>4. \A d \in r.order : /\ r.rest \subseteq Bought(d)
                           /\ r.product \subseteq Bought(d)
    BY <1>1, <1>4 DEF StockSound, PickersSound
  <2>5. r.at \in {"idle", "next"} => r.product = {}
    BY <1>4 DEF StockSound, PickersSound
  <2> QED
    BY <1>1, <2>1, <2>2, <2>3, <2>4, <2>5 DEF StockSound, PickersSound
<1> QED
  BY <1>1, <1>5, <1>6 DEF StockSound, ChecksSound

\* A step of one worker that keeps the order and the lock it has and does no
\* more than go on.
LEMMA GoesOn ==
  ASSUME StockSound, NEW w \in Pickers, NEW r \in Picker,
         pickers' = [pickers EXCEPT ![w] = r],
         r.order = pickers[w].order, r.locked = pickers[w].locked,
         \A o \in r.order : /\ r.rest \subseteq pickers[w].rest
                            /\ r.product \subseteq pickers[w].product,
         r.at \in {"idle", "next"} => r.product = {},
         UNCHANGED checks
  PROVE  /\ pickers' \in [Pickers -> Picker]
         /\ PickersSound' /\ ChecksSound'
<1>1. pickers \in [Pickers -> Picker]
  BY DEF StockSound, StockTypeOK
<1>2. \A v \in Pickers : pickers'[v] = IF v = w THEN r ELSE pickers[v]
  BY <1>1
<1>3. \A v \in Pickers, d \in Baskets : Holds(v, d)' <=> Holds(v, d)
  BY <1>2 DEF Holds
<1>4. \A d \in r.order : /\ r.rest \subseteq Bought(d)
                         /\ r.product \subseteq Bought(d)
  BY DEF StockSound, PickersSound
<1>5. PickersSound'
  BY <1>2, <1>3, <1>4 DEF StockSound, PickersSound
<1> QED
  BY <1>1, <1>5 DEF StockSound, ChecksSound

\* A worker that lets go of its job, or is stripped of it: whoever held one
\* held that one.
LEMMA LetsGo ==
  ASSUME StockSound, NEW w \in Pickers, NEW r \in Picker,
         pickers' = [pickers EXCEPT ![w] = r], ~r.locked,
         r.order \subseteq pickers[w].order, r.rest \subseteq pickers[w].rest,
         r.product \subseteq pickers[w].product,
         r.at \in {"idle", "next"} => r.product = {},
         checks' \in [Baskets -> Check],
         \A o \in Baskets : ~Holds(w, o) => checks'[o] = checks[o],
         ChecksSound'
  PROVE  pickers' \in [Pickers -> Picker] /\ PickersSound'
<1>1. pickers \in [Pickers -> Picker]
  BY DEF StockSound, StockTypeOK
<1>2. \A v \in Pickers : pickers'[v] = IF v = w THEN r ELSE pickers[v]
  BY <1>1
<1>3. \A v \in Pickers, d \in Baskets : Holds(v, d)' => Holds(v, d) /\ v # w
  BY <1>2 DEF Holds
<1>4. \A d \in r.order : /\ r.rest \subseteq Bought(d)
                         /\ r.product \subseteq Bought(d)
  BY DEF StockSound, PickersSound
<1>5. \A v \in Pickers, d \in Baskets : Holds(v, d)' => checks'[d] = checks[d]
  BY <1>3 DEF StockSound, PickersSound
<1>6. PickersSound'
  BY <1>2, <1>3, <1>4, <1>5 DEF StockSound, PickersSound
<1> QED
  BY <1>1, <1>6

-----------------------------------------------------------------------------
(* What the sum and the silence rest on                                    *)

\* The orders of which the product has surely been taken since the seller
\* last entered its quantity: the check completed, or the worker that holds
\* it has the product behind it.  A stalled worker's may come on top.
TakenOff(p) ==
  {o \in since[p] :
     /\ p \in Bought(o)
     /\ \/ checks[o].state = "completed"
        \/ \E w \in Pickers : Holds(w, o) /\ p \notin pickers[w].rest}

\* Somebody will yet take of the product or alert of it, or its order's check
\* has failed for good.
Pending(p) ==
  \/ \E o \in Baskets : /\ p \in Bought(o)
                        /\ checks[o].state \in {"waiting", "failed"}
  \/ \E w \in Pickers : \E o \in pickers[w].order :
       /\ p \in Bought(o)
       /\ \/ p \in pickers[w].product
          \/ pickers[w].locked /\ p \in pickers[w].rest
Answered(p) == heard[p] \/ p \in missed \/ Pending(p)

Smallest(p) == [o \in Baskets |-> Min(Numbers(o, p))]

TakenSound ==
  \A p \in Tracked :
    /\ IsFiniteSet(since[p])
    /\ quantity[p] <= base[p] - SumFunctionOnSet(Smallest(p), TakenOff(p))
HeardSound ==
  \A p \in Tracked :
    TakenOff(p) # {} /\ IsLow(p, quantity[p]) => Answered(p)

StockInv == StockSound /\ TakenSound /\ HeardSound

LEMMA SmallestIsLeast ==
  ASSUME NEW o \in Baskets, NEW p \in Bought(o)
  PROVE  /\ Min(Numbers(o, p)) \in Nat
         /\ \A n \in Numbers(o, p) : Min(Numbers(o, p)) <= n
<1>1. /\ Numbers(o, p) \subseteq Nat /\ Numbers(o, p) # {}
  <2>1. Lines[o] \in Seq(Line)
    BY StockAssumption
  <2>2. \A i \in DOMAIN Lines[o] : Lines[o][i] \in Line
    BY <2>1
  <2>3. \A i \in DOMAIN Lines[o] : Lines[o][i].n \in Nat
    BY <2>2 DEF Line
  <2> QED
    BY <2>3 DEF Numbers, LinesOf, Bought
<1> DEFINE Below == {pair \in Nat \X Nat : pair[1] < pair[2]}
<1>2. PICK least \in Numbers(o, p) : \A n \in Numbers(o, p) :
        <<n, least>> \notin Below
  <2>1. IsWellFoundedOn(Below, Nat)
    BY NatLessThanWellFounded DEF OpToRel
  <2> HIDE DEF Below
  <2> QED
    BY <1>1, <2>1, WFMin
<1>3. \A n \in Numbers(o, p) : least <= n
  <2> SUFFICES ASSUME NEW n \in Numbers(o, p) PROVE least <= n
    OBVIOUS
  <2>1. n \in Nat /\ least \in Nat /\ <<n, least>> \in Nat \X Nat
    BY <1>1
  <2>2. ~ n < least
    BY <1>2, <2>1
  <2> QED
    BY <2>1, <2>2
<1>4. Min(Numbers(o, p)) \in Numbers(o, p)
      /\ \A n \in Numbers(o, p) : Min(Numbers(o, p)) <= n
  BY <1>3 DEF Min
<1> QED
  BY <1>1, <1>4

\* The orders are finitely many and what they took is no less than nothing.
LEMMA TakenCounts ==
  ASSUME StockSound, NEW p \in Tracked, IsFiniteSet(since[p])
  PROVE  /\ IsFiniteSet(TakenOff(p)) /\ TakenOff(p) \subseteq Baskets
         /\ \A o \in TakenOff(p) : Smallest(p)[o] \in Nat
         /\ SumFunctionOnSet(Smallest(p), TakenOff(p)) \in Int
<1>1. TakenOff(p) \subseteq since[p] /\ since[p] \subseteq Baskets
  BY DEF TakenOff, StockSound, StockTypeOK
<1>2. IsFiniteSet(TakenOff(p))
  BY <1>1, FS_Subset
<1>3. \A o \in TakenOff(p) : Smallest(p)[o] \in Nat
  BY <1>1, SmallestIsLeast DEF TakenOff, Smallest
<1>4. \A o \in TakenOff(p) : Smallest(p)[o] \in Int
  BY <1>3
<1> QED
  BY <1>1, <1>2, <1>3, <1>4, SumIsInt

\* A step that leaves the quantities keeps the invariant if it forgets nobody's
\* alert, and counts no order that was not counted.
LEMMA KeepsInv ==
  ASSUME StockInv, StockSound', UNCHANGED <<quantity, base>>,
         \A p \in Tracked : IsFiniteSet(since'[p]),
         \A p \in Tracked : /\ TakenOff(p)' \subseteq TakenOff(p)
                            /\ Answered(p) => Answered(p)'
  PROVE  StockInv'
<1>1. ASSUME NEW p \in Tracked
      PROVE  quantity[p] <= base[p] - SumFunctionOnSet(Smallest(p), TakenOff(p)')
  <2>1. /\ IsFiniteSet(TakenOff(p))
        /\ \A o \in TakenOff(p) : Smallest(p)[o] \in Nat
    BY TakenCounts DEF StockInv, TakenSound
  <2>2. PICK weigh, before, after : /\ weigh = Smallest(p)
                                    /\ before = TakenOff(p)
                                    /\ after = TakenOff(p)'
    OBVIOUS
  <2>3. after \in SUBSET before
    <3>1. TakenOff(p)' \subseteq TakenOff(p)
      OBVIOUS
    <3> QED
      BY <2>2, <3>1
  <2>4. /\ SumFunctionOnSet(weigh, before) \in Int
        /\ SumFunctionOnSet(weigh, after) \in Int
        /\ SumFunctionOnSet(weigh, after) <= SumFunctionOnSet(weigh, before)
    <3>1. IsFiniteSet(before) /\ \A o \in before : weigh[o] \in Nat
      BY <2>1, <2>2
    <3> QED
      BY ONLY <2>3, <3>1, SumOfFewer
  <2>5. quantity[p] <= base[p] - SumFunctionOnSet(weigh, before)
    BY <2>2 DEF StockInv, TakenSound
  <2>6. quantity[p] \in Int /\ base[p] \in Int
    <3>1. base[p] \in Quantities /\ quantity[p] \in Int
      BY DEF StockInv, StockSound, StockTypeOK
    <3>2. Quantities \subseteq Int
      BY StockAssumption
    <3> QED
      BY <3>1, <3>2
  <2>7. quantity[p] <= base[p] - SumFunctionOnSet(weigh, after)
    BY ONLY <2>4, <2>5, <2>6
  <2> QED
    BY <2>2, <2>7
<1>2. TakenSound'
  BY <1>1 DEF StockInv, TakenSound, Smallest
<1>3. HeardSound'
  <2> SUFFICES ASSUME NEW p \in Tracked, TakenOff(p)' # {},
                      IsLow(p, quantity[p])
               PROVE  Answered(p)'
    BY DEF HeardSound, IsLow
  <2>1. TakenOff(p)' \subseteq TakenOff(p) /\ (Answered(p) => Answered(p)')
    OBVIOUS
  <2> QED
    BY <2>1 DEF StockInv, HeardSound
<1> QED
  BY <1>2, <1>3 DEF StockInv

-----------------------------------------------------------------------------
(* The steps that leave the quantities                                     *)

\* A worker goes on with what it has, and of a product it drops it has heard.
LEMMA GoesOnInv ==
  ASSUME StockInv, NEW w \in Pickers, NEW r \in Picker,
         pickers' = [pickers EXCEPT ![w] = r],
         r.order = pickers[w].order, r.locked = pickers[w].locked,
         r.order # {} => r.rest = pickers[w].rest,
         r.at \in {"idle", "next"} => r.product = {},
         r.order # {} => r.product \subseteq pickers[w].product,
         alertKey' \in [Tracked -> BOOLEAN], heard' \in [Tracked -> BOOLEAN],
         \A p \in Tracked : heard[p] => heard'[p],
         \A p \in pickers[w].product : p \in r.product \/ heard'[p],
         stockFaults' \in 0 .. MaxStockFaults,
         UNCHANGED <<quantity, base, since, checks, missed, stockEdits>>
  PROVE  StockInv'
<1>1. /\ pickers' \in [Pickers -> Picker] /\ PickersSound' /\ ChecksSound'
  BY GoesOn DEF StockInv
<1>2. StockSound'
  BY <1>1 DEF StockInv, StockSound, StockTypeOK
<1>3. \A v \in Pickers : pickers'[v] = IF v = w THEN r ELSE pickers[v]
  BY DEF StockInv, StockSound, StockTypeOK
<1>4. ASSUME NEW p \in Tracked
      PROVE  TakenOff(p)' \subseteq TakenOff(p)
  BY <1>3 DEF TakenOff, Holds
<1>5. ASSUME NEW p \in Tracked, Answered(p)
      PROVE  Answered(p)'
  <2>1. CASE heard[p] \/ p \in missed
    BY <2>1 DEF Answered
  <2>2. CASE \E o \in Baskets : /\ p \in Bought(o)
                                /\ checks[o].state \in {"waiting", "failed"}
    BY <2>2 DEF Answered, Pending
  <2>3. ASSUME NEW v \in Pickers, NEW o \in pickers[v].order,
               p \in Bought(o),
               \/ p \in pickers[v].product
               \/ pickers[v].locked /\ p \in pickers[v].rest
        PROVE  Answered(p)'
    <3>1. o \in pickers'[v].order
      BY <1>3
    <3>2. \/ heard'[p]
          \/ p \in pickers'[v].product
          \/ pickers'[v].locked /\ p \in pickers'[v].rest
      BY <1>3, <2>3
    <3> QED
      BY <2>3, <3>1, <3>2 DEF Answered, Pending
  <2> QED
    BY <1>5, <2>1, <2>2, <2>3 DEF Answered, Pending
<1> QED
  BY <1>2, <1>4, <1>5, KeepsInv DEF StockInv, TakenSound

LEMMA AlertSteps ==
  ASSUME StockInv, NEW w \in Pickers,
         \/ AskKey(w) \/ SetKey(w) \/ RedisFails(w) \/ QueueAlert(w)
         \/ \E p \in Tracked : ScanNext(w, p)
         \/ \E onSale \in SUBSET Tracked : ReadForScan(w, onSale)
  PROVE  StockInv'
<1>1. PICK b : b = pickers[w]
  OBVIOUS
<1>2. b \in Picker /\ pickers \in [Pickers -> Picker]
  BY <1>1 DEF StockInv, StockSound, StockTypeOK
<1>3. /\ alertKey \in [Tracked -> BOOLEAN] /\ heard \in [Tracked -> BOOLEAN]
      /\ stockFaults \in 0 .. MaxStockFaults /\ MaxStockFaults \in Nat
  BY StockAssumption DEF StockInv, StockSound, StockTypeOK
<1>4. ASSUME Hears(w)
      PROVE  /\ heard' \in [Tracked -> BOOLEAN]
             /\ \A p \in Tracked : heard[p] => heard'[p]
             /\ \A p \in b.product : heard'[p]
  <2>1. heard' = [p \in Tracked |-> heard[p] \/ p \in b.product]
    BY <1>1, <1>4 DEF Hears
  <2>2. b.product \subseteq Tracked
    BY <1>2 DEF Picker
  <2> QED
    BY <1>3, <2>1, <2>2, Zenon
<1>5. PICK r : r = [b EXCEPT !.at = "next", !.product = {}]
  OBVIOUS
<1>6. /\ r \in Picker /\ r.order = b.order /\ r.locked = b.locked
      /\ r.rest = b.rest /\ r.product = {}
  BY <1>2, <1>5 DEF Picker
<1>7. ASSUME Hears(w), Becomes(w, Proceeds(w)),
             UNCHANGED <<quantity, alertKey, checks, base, since, missed,
                         stockBounds>>
      PROVE  StockInv'
  <2>1. pickers' = [pickers EXCEPT ![w] = r]
    BY <1>1, <1>5, <1>7 DEF Becomes, Proceeds
  <2> QED
    BY <1>1, <1>3, <1>4, <1>6, <1>7, <2>1, GoesOnInv DEF stockBounds
<1>8. ASSUME NEW at \in {"set", "mail"}, Becomes(w, [b EXCEPT !.at = at]),
             alertKey' \in [Tracked -> BOOLEAN],
             stockFaults' \in 0 .. MaxStockFaults,
             UNCHANGED <<quantity, checks, base, since, heard, missed,
                         stockEdits>>
      PROVE  StockInv'
  <2>1. PICK a : a = [b EXCEPT !.at = at]
    OBVIOUS
  <2>2. /\ a \in Picker /\ a.order = b.order /\ a.locked = b.locked
        /\ a.rest = b.rest /\ a.product = b.product /\ a.at = at
    BY <1>2, <2>1 DEF Picker
  <2>3. pickers' = [pickers EXCEPT ![w] = a]
    BY <1>8, <2>1 DEF Becomes
  <2> QED
    BY <1>1, <1>3, <1>8, <2>2, <2>3, GoesOnInv
<1>9. CASE AskKey(w)
  <2>1. CASE Becomes(w, Proceeds(w)) /\ Hears(w)
    BY <1>7, <1>9, <2>1 DEF AskKey
  <2>2. CASE Becomes(w, [b EXCEPT !.at = "set"]) /\ UNCHANGED heard
    BY <1>3, <1>8, <1>9, <2>2 DEF AskKey, stockBounds
  <2> QED
    BY <1>1, <1>9, <2>1, <2>2 DEF AskKey
<1>10. CASE SetKey(w)
  <2>1. alertKey' \in [Tracked -> BOOLEAN]
    <3>1. alertKey' = [p \in Tracked |-> alertKey[p] \/ p \in b.product]
      BY <1>1, <1>10 DEF SetKey
    <3> QED
      BY <1>3, <3>1, Zenon
  <2>2. Becomes(w, [b EXCEPT !.at = "mail"])
    BY <1>1, <1>10 DEF SetKey
  <2> QED
    BY <1>3, <1>8, <1>10, <2>1, <2>2 DEF SetKey, stockBounds, stockHistory
<1>11. CASE RedisFails(w)
  <2>1. PICK at \in {"set", "mail"} : Becomes(w, [b EXCEPT !.at = at])
    BY <1>1, <1>11 DEF RedisFails
  <2>2. stockFaults' \in 0 .. MaxStockFaults
    BY <1>3, <1>11 DEF RedisFails, Fault
  <2> QED
    BY <1>3, <1>8, <1>11, <2>1, <2>2 DEF RedisFails, Fault, stockHistory
<1>12. CASE QueueAlert(w)
  BY <1>7, <1>12 DEF QueueAlert
<1>13. ASSUME NEW p \in Tracked, ScanNext(w, p)
       PROVE  StockInv'
  <2>1. PICK a : a = [b EXCEPT !.at = "ask", !.rest = @ \ {p}, !.product = {p}]
    OBVIOUS
  <2>2. b.order = {} /\ b.product = {}
    BY <1>1, <1>13 DEF ScanNext, StockInv, StockSound, PickersSound
  <2>3. /\ a \in Picker /\ a.order = b.order /\ a.locked = b.locked
        /\ a.at = "ask"
    BY <1>2, <2>1 DEF Picker
  <2>4. pickers' = [pickers EXCEPT ![w] = a]
    BY <1>1, <1>13, <2>1 DEF ScanNext, Becomes
  <2> QED
    BY <1>1, <1>3, <1>13, <2>2, <2>3, <2>4, GoesOnInv
    DEF ScanNext, stockBounds, stockHistory
<1>14. ASSUME NEW onSale \in SUBSET Tracked, ReadForScan(w, onSale)
       PROVE  StockInv'
  <2>1. PICK some : some = {p \in onSale : IsLow(p, quantity[p])}
    OBVIOUS
  <2>2. PICK a : a = [Resting EXCEPT !.at = "next", !.rest = some]
    OBVIOUS
  <2>3. b = Resting
    BY <1>1, <1>14 DEF ReadForScan
  <2>4. /\ a \in Picker /\ a.order = b.order /\ a.locked = b.locked
        /\ a.order = {} /\ a.product = {} /\ b.product = {}
    <3>1. some \in SUBSET Tracked
      BY <2>1
    <3> QED
      BY <2>2, <2>3, <3>1 DEF Picker, Resting
  <2>5. pickers' = [pickers EXCEPT ![w] = a]
    BY <1>14, <2>1, <2>2 DEF ReadForScan, Becomes
  <2> QED
    BY <1>1, <1>3, <1>14, <2>4, <2>5, GoesOnInv
    DEF ReadForScan, stockBounds, stockHistory
<1> QED
  BY <1>9, <1>10, <1>11, <1>12, <1>13, <1>14

\* A worker ends with its job, or is stripped of it: a job it held, and only
\* that, is written to, and unless it has nothing left the job is one that
\* runs again or has failed.
LEMMA LetsGoInv ==
  ASSUME StockInv, NEW w \in Pickers, NEW r \in Picker,
         pickers' = [pickers EXCEPT ![w] = r], ~r.locked,
         r.order \subseteq pickers[w].order, r.rest \subseteq pickers[w].rest,
         r.product \subseteq pickers[w].product,
         r.at \in {"idle", "next"} => r.product = {},
         checks' \in [Baskets -> Check], ChecksSound',
         \A o \in Baskets : ~Holds(w, o) => checks'[o] = checks[o],
         \/ \A o \in Baskets : Holds(w, o) =>
                              checks'[o].state \in {"waiting", "failed"}
         \/ pickers[w].rest = {} /\ pickers[w].product = {},
         missed' \in SUBSET Tracked, missed \subseteq missed',
         \A p \in Tracked : p \in pickers[w].product /\ ~pickers[w].locked =>
           \/ p \in r.product /\ r.order = pickers[w].order
           \/ p \in missed' \/ heard[p],
         stockFaults' \in 0 .. MaxStockFaults,
         UNCHANGED <<quantity, alertKey, base, since, heard, stockEdits>>
  PROVE  StockInv'
<1>1. pickers' \in [Pickers -> Picker] /\ PickersSound'
  BY LetsGo DEF StockInv
<1>2. StockSound'
  BY <1>1 DEF StockInv, StockSound, StockTypeOK
<1>3. \A v \in Pickers : pickers'[v] = IF v = w THEN r ELSE pickers[v]
  BY DEF StockInv, StockSound, StockTypeOK
<1>4. ASSUME NEW p \in Tracked
      PROVE  TakenOff(p)' \subseteq TakenOff(p)
  <2> SUFFICES ASSUME NEW o \in TakenOff(p)' PROVE o \in TakenOff(p)
    OBVIOUS
  <2>1. /\ o \in since[p] /\ p \in Bought(o) /\ o \in Baskets
        /\ \/ checks'[o].state = "completed"
           \/ \E v \in Pickers : Holds(v, o)' /\ p \notin pickers'[v].rest
    BY DEF TakenOff, StockInv, StockSound, StockTypeOK
  <2>2. CASE checks'[o].state = "completed" /\ Holds(w, o)
    BY <2>1, <2>2 DEF TakenOff
  <2>3. CASE checks'[o].state = "completed" /\ ~Holds(w, o)
    BY <2>1, <2>3 DEF TakenOff
  <2>4. ASSUME NEW v \in Pickers, Holds(v, o)', p \notin pickers'[v].rest
        PROVE  o \in TakenOff(p)
    <3>1. v # w /\ Holds(v, o) /\ p \notin pickers[v].rest
      BY <1>3, <2>4 DEF Holds
    <3> QED
      BY <2>1, <3>1 DEF TakenOff
  <2> QED
    BY <2>1, <2>2, <2>3, <2>4
<1>5. ASSUME NEW p \in Tracked, Answered(p)
      PROVE  Answered(p)'
  <2>1. CASE heard[p] \/ p \in missed
    BY <2>1 DEF Answered
  <2>2. ASSUME NEW o \in Baskets, p \in Bought(o),
               checks[o].state \in {"waiting", "failed"}
        PROVE  Answered(p)'
    <3>1. ~Holds(w, o)
      BY <2>2 DEF StockInv, StockSound, PickersSound
    <3>2. checks'[o] = checks[o]
      BY <3>1
    <3> QED
      BY <2>2, <3>2 DEF Answered, Pending
  <2>3. ASSUME NEW v \in Pickers, NEW o \in pickers[v].order,
               p \in Bought(o),
               \/ p \in pickers[v].product
               \/ pickers[v].locked /\ p \in pickers[v].rest
        PROVE  Answered(p)'
    <3>1. CASE v # w
      BY <1>3, <2>3, <3>1 DEF Answered, Pending
    <3>2. CASE v = w /\ pickers[w].locked
      <4>1. o \in Baskets
        BY <2>3 DEF StockInv, StockSound, StockTypeOK, Picker
      <4>2. Holds(w, o) /\ checks'[o].state \in {"waiting", "failed"}
        BY <2>3, <3>2, <4>1 DEF Holds
      <4> QED
        BY <2>3, <4>1, <4>2 DEF Answered, Pending
    <3>3. CASE v = w /\ ~pickers[w].locked
      <4>1. \/ p \in r.product /\ o \in r.order
            \/ p \in missed' \/ heard'[p]
        BY <2>3, <3>3
      <4> QED
        BY <1>3, <2>3, <4>1, <3>3 DEF Answered, Pending
    <3> QED
      BY <3>1, <3>2, <3>3
  <2> QED
    BY <1>5, <2>1, <2>2, <2>3 DEF Answered, Pending
<1> QED
  BY <1>2, <1>4, <1>5, KeepsInv DEF StockInv, TakenSound

LEMMA EndSteps ==
  ASSUME StockInv, NEW w \in Pickers,
         FinishPicking(w) \/ PickerThrows(w) \/ PickerStalls(w)
  PROVE  StockInv'
<1>1. PICK b : b = pickers[w]
  OBVIOUS
<1>2. /\ b \in Picker /\ pickers \in [Pickers -> Picker]
      /\ checks \in [Baskets -> Check] /\ missed \in SUBSET Tracked
      /\ stockFaults \in 0 .. MaxStockFaults /\ MaxStockFaults \in Nat
      /\ StockAttempts \in Nat /\ StockStalls \in Nat
  BY <1>1, StockAssumption DEF StockInv, StockSound, StockTypeOK
<1>3. /\ Resting \in Picker /\ ~Resting.locked /\ Resting.order = {}
      /\ Resting.rest = {} /\ Resting.product = {}
  BY RestingPicker DEF Resting
<1>4. \A o \in Baskets : /\ Holds(w, o) <=> o \in b.order /\ b.locked
                         /\ Holds(w, o) => checks[o].state = "active"
                                           /\ checks[o].attempts < StockAttempts
  BY <1>1 DEF Holds, StockInv, StockSound, PickersSound, ChecksSound
<1>5. \A o \in Baskets : /\ checks[o].attempts \in 0 .. StockAttempts
                         /\ checks[o].stalls \in 0 .. StockStalls
  BY <1>2 DEF Check
<1>6. CASE FinishPicking(w)
  <2>1. checks' = [o \in Baskets |->
                     IF Holds(w, o) THEN [checks[o] EXCEPT !.state = "completed"]
                     ELSE checks[o]]
    BY <1>4, <1>1, <1>6 DEF FinishPicking
  <2>2. /\ checks' \in [Baskets -> Check]
        /\ \A o \in Baskets : ~Holds(w, o) => checks'[o] = checks[o]
        /\ \A o \in Baskets : Holds(w, o) => checks'[o].state = "completed"
    BY <1>2, <2>1 DEF Check
  <2>3. ChecksSound'
    BY <2>2 DEF ChecksSound, StockInv, StockSound
  <2>4. b.at = "next" /\ b.rest = {} /\ b.product = {}
    BY <1>1, <1>6 DEF FinishPicking, StockInv, StockSound, PickersSound
  <2>5. pickers' = [pickers EXCEPT ![w] = Resting]
    BY <1>6 DEF FinishPicking, Becomes
  <2> QED
    BY <1>1, <1>2, <1>3, <1>6, <2>2, <2>3, <2>4, <2>5, LetsGoInv
    DEF FinishPicking, stockHistory, stockBounds
<1>7. CASE PickerThrows(w)
  <2>1. checks' = [o \in Baskets |->
          IF Holds(w, o)
          THEN [checks[o] EXCEPT
                  !.attempts = @ + 1,
                  !.state = AgainIf(checks[o].attempts + 1 < StockAttempts)]
          ELSE checks[o]]
    BY <1>7 DEF PickerThrows
  <2>2. ASSUME NEW o \in Baskets, Holds(w, o)
        PROVE  /\ checks'[o] \in Check
               /\ checks'[o].state \in {"waiting", "failed"}
               /\ checks'[o].state = "waiting" =>
                    checks'[o].attempts < StockAttempts
    <3>1. PICK n \in 0 .. StockAttempts : n = checks[o].attempts + 1
      BY <1>2, <1>4, <1>5, <2>2
    <3>2. PICK state \in {"waiting", "failed"} :
            /\ state = AgainIf(n < StockAttempts)
            /\ state = "waiting" => n < StockAttempts
      BY DEF AgainIf
    <3>3. checks'[o] = [checks[o] EXCEPT !.attempts = n, !.state = state]
      BY <2>1, <2>2, <3>1, <3>2
    <3>4. PICK c : c = checks[o] /\ c \in Check
      BY <1>2
    <3>5. checks'[o] = [c EXCEPT !.attempts = n, !.state = state]
      BY <3>3, <3>4
    <3> QED
      BY <3>2, <3>4, <3>5 DEF Check
  <2>3. \A o \in Baskets : ~Holds(w, o) => checks'[o] = checks[o]
    BY <2>1
  <2>4. checks' \in [Baskets -> Check]
    BY <1>2, <2>1, <2>2, <2>3
  <2>5. ChecksSound'
    BY <2>2, <2>3 DEF ChecksSound, StockInv, StockSound
  <2>6. /\ missed' \in SUBSET Tracked /\ missed \subseteq missed'
        /\ \A p \in Tracked : p \in b.product /\ ~b.locked =>
                              p \in missed' \/ heard[p]
    BY <1>1, <1>2, <1>7 DEF PickerThrows, Picker
  <2>7. stockFaults' \in 0 .. MaxStockFaults /\ stockEdits' = stockEdits
    <3>1. Fault
      BY <1>7 DEF PickerThrows
    <3> QED
      BY <1>2, <3>1 DEF Fault
  <2>8. pickers' = [pickers EXCEPT ![w] = Resting]
    BY <1>7 DEF PickerThrows, Becomes
  <2> QED
    BY <1>1, <1>3, <1>7, <2>2, <2>3, <2>4, <2>5, <2>6, <2>7, <2>8, LetsGoInv
    DEF PickerThrows
<1>8. CASE PickerStalls(w)
  <2>1. checks' = [o \in Baskets |->
          IF Holds(w, o)
          THEN IF checks[o].stalls < StockStalls
               THEN [checks[o] EXCEPT !.stalls = @ + 1, !.state = "waiting"]
               ELSE [checks[o] EXCEPT !.state = "failed"]
          ELSE checks[o]]
    BY <1>8 DEF PickerStalls
  <2>2. ASSUME NEW o \in Baskets, Holds(w, o)
        PROVE  /\ checks'[o] \in Check
               /\ checks'[o].state \in {"waiting", "failed"}
               /\ checks'[o].attempts = checks[o].attempts
    <3>1. PICK c : c = checks[o] /\ c \in Check
      BY <1>2
    <3>2. CASE c.stalls < StockStalls
      <4>1. PICK n \in 0 .. StockStalls : n = c.stalls + 1
        BY <1>2, <1>5, <3>1, <3>2
      <4>2. checks'[o] = [c EXCEPT !.stalls = n, !.state = "waiting"]
        BY <2>1, <2>2, <3>1, <3>2, <4>1
      <4> QED
        BY <3>1, <4>2 DEF Check
    <3>3. CASE ~ c.stalls < StockStalls
      <4>1. checks'[o] = [c EXCEPT !.state = "failed"]
        BY <2>1, <2>2, <3>1, <3>3
      <4> QED
        BY <3>1, <4>1 DEF Check
    <3> QED
      BY <3>2, <3>3
  <2>3. \A o \in Baskets : ~Holds(w, o) => checks'[o] = checks[o]
    BY <2>1
  <2>4. checks' \in [Baskets -> Check]
    BY <1>2, <2>1, <2>2, <2>3
  <2>5. ChecksSound'
    BY <1>4, <2>2, <2>3 DEF ChecksSound, StockInv, StockSound
  <2>6. stockFaults' \in 0 .. MaxStockFaults /\ stockEdits' = stockEdits
    <3>1. Fault
      BY <1>8 DEF PickerStalls
    <3> QED
      BY <1>2, <3>1 DEF Fault
  <2>7. b.locked /\ UNCHANGED <<quantity, alertKey, stockHistory>>
    BY <1>1, <1>8 DEF PickerStalls
  <2>8. PICK r : /\ pickers' = [pickers EXCEPT ![w] = r]
                 /\ r = Resting \/ r = [b EXCEPT !.locked = FALSE]
    BY <1>1, <1>8 DEF PickerStalls, Becomes
  <2>9. /\ r \in Picker /\ ~r.locked /\ r.order \subseteq b.order
        /\ r.rest \subseteq b.rest /\ r.product \subseteq b.product
        /\ r.at \in {"idle", "next"} => r.product = {}
    <3>1. CASE r = Resting
      BY <1>3, <3>1
    <3>2. CASE r = [b EXCEPT !.locked = FALSE]
      <4>1. b.at \in {"idle", "next"} => b.product = {}
        BY <1>1 DEF StockInv, StockSound, PickersSound
      <4> QED
        BY <1>2, <3>2, <4>1 DEF Picker
    <3> QED
      BY <2>8, <3>1, <3>2
  <2> QED
    BY <1>1, <1>2, <2>2, <2>3, <2>4, <2>5, <2>6, <2>7, <2>8, <2>9, LetsGoInv
    DEF stockHistory
<1> QED
  BY <1>6, <1>7, <1>8

LEMMA QueueSteps ==
  ASSUME StockInv,
         \/ UNCHANGED stockVars \/ \E o \in Baskets : AddCheck(o)
         \/ \E p \in Tracked : AlertKeyExpires(p)
  PROVE  StockInv'
<1>1. /\ alertKey \in [Tracked -> BOOLEAN] /\ checks \in [Baskets -> Check]
  BY DEF StockInv, StockSound, StockTypeOK
<1>2. /\ UNCHANGED <<quantity, pickers, stockHistory, stockBounds>>
      /\ alertKey' \in [Tracked -> BOOLEAN]
  BY <1>1 DEF stockVars, AddCheck, AlertKeyExpires
<1>3. /\ checks' \in [Baskets -> Check]
      /\ \A o \in Baskets : /\ checks'[o].attempts = checks[o].attempts
                            /\ \/ checks'[o] = checks[o]
                               \/ /\ checks[o].state = "none"
                                  /\ checks'[o].state = "waiting"
  <2>1. CASE UNCHANGED checks
    BY <1>1, <2>1
  <2>2. ASSUME NEW o \in Baskets, AddCheck(o)
        PROVE  <1>3
    <3>1. PICK c : c = checks[o] /\ c \in Check
      BY <1>1
    <3>2. PICK d : d = [c EXCEPT !.state = "waiting"]
      OBVIOUS
    <3>3. /\ d \in Check /\ d.state = "waiting" /\ d.attempts = c.attempts
          /\ c.state = "none"
      BY <2>2, <3>1, <3>2 DEF Check, AddCheck
    <3>4. checks' = [checks EXCEPT ![o] = d]
      BY <2>2, <3>1, <3>2 DEF AddCheck
    <3> QED
      BY <1>1, <3>1, <3>3, <3>4
  <2> QED
    BY <2>1, <2>2 DEF stockVars, AlertKeyExpires
<1>4. /\ pickers' = pickers
      /\ \A v \in Pickers, o \in Baskets :
           Holds(v, o) => checks'[o] = checks[o]
  BY <1>2, <1>3 DEF StockInv, StockSound, PickersSound
<1>5. StockSound'
  <2>1. StockTypeOK'
    BY <1>2, <1>3
    DEF StockInv, StockSound, StockTypeOK, stockHistory, stockBounds
  <2>2. PickersSound'
    BY <1>4 DEF StockInv, StockSound, PickersSound, Holds
  <2>3. ChecksSound'
    BY <1>3 DEF StockInv, StockSound, ChecksSound
  <2> QED
    BY <2>1, <2>2, <2>3 DEF StockSound
<1>6. ASSUME NEW p \in Tracked
      PROVE  TakenOff(p)' \subseteq TakenOff(p)
  <2> SUFFICES ASSUME NEW o \in TakenOff(p)' PROVE o \in TakenOff(p)
    OBVIOUS
  <2>1. /\ o \in since[p] /\ p \in Bought(o) /\ o \in Baskets
        /\ \/ checks'[o].state = "completed"
           \/ \E v \in Pickers : Holds(v, o)' /\ p \notin pickers[v].rest
    BY <1>2 DEF TakenOff, StockInv, StockSound, StockTypeOK, stockHistory
  <2>2. \/ checks[o].state = "completed"
        \/ \E v \in Pickers : Holds(v, o) /\ p \notin pickers[v].rest
    BY <1>3, <1>4, <2>1 DEF Holds
  <2> QED
    BY <2>1, <2>2 DEF TakenOff
<1>7. ASSUME NEW p \in Tracked, Answered(p)
      PROVE  Answered(p)'
  <2>1. heard' = heard /\ missed' = missed /\ pickers' = pickers
    BY <1>2 DEF stockHistory
  <2>2. \A o \in Baskets : checks[o].state \in {"waiting", "failed"} =>
          checks'[o].state \in {"waiting", "failed"}
    BY <1>3
  <2> QED
    BY <1>7, <2>1, <2>2 DEF Answered, Pending
<1> QED
  BY <1>2, <1>5, <1>6, <1>7, KeepsInv
  DEF stockHistory, StockInv, TakenSound

\* A check begins, perhaps again: none of its order's products is behind it.
LEMMA BeginStep ==
  ASSUME StockInv, NEW w \in Pickers, NEW o \in Baskets, TakeCheck(w, o)
  PROVE  StockInv'
<1>1. PICK r : r = [Resting EXCEPT !.at = "next", !.order = {o},
                                   !.rest = Bought(o), !.locked = TRUE]
  OBVIOUS
<1>2. /\ r \in Picker /\ r.at = "next" /\ r.order = {o} /\ r.locked
      /\ r.rest = Bought(o) /\ r.product = {}
  BY <1>1, BoughtTracked DEF Resting, Picker
<1>3. /\ pickers \in [Pickers -> Picker] /\ checks \in [Baskets -> Check]
      /\ since \in [Tracked -> SUBSET Baskets]
  BY DEF StockInv, StockSound, StockTypeOK
<1>4. /\ pickers' = [pickers EXCEPT ![w] = r]
      /\ pickers[w] = Resting /\ checks[o].state = "waiting"
      /\ UNCHANGED <<quantity, alertKey, base, heard, missed, stockBounds>>
  BY <1>1 DEF TakeCheck, Becomes
<1>5. /\ checks' \in [Baskets -> Check]
      /\ checks'[o].state = "active"
      /\ checks'[o].attempts = checks[o].attempts
      /\ \A d \in Baskets : d # o => checks'[d] = checks[d]
  <2>1. PICK c : c = checks[o] /\ c \in Check
    BY <1>3
  <2>2. PICK d : d = [c EXCEPT !.state = "active"]
    OBVIOUS
  <2>3. d \in Check /\ d.state = "active" /\ d.attempts = c.attempts
    BY <2>1, <2>2 DEF Check
  <2>4. checks' = [checks EXCEPT ![o] = d]
    BY <2>1, <2>2 DEF TakeCheck
  <2> QED
    BY <1>3, <2>1, <2>3, <2>4
<1>6. \A p \in Tracked : since'[p] \in {since[p], since[p] \cup {o}}
  BY <1>3 DEF TakeCheck
<1>7. since' \in [Tracked -> SUBSET Baskets]
  BY <1>3 DEF TakeCheck
<1>8. \A v \in Pickers : pickers'[v] = IF v = w THEN r ELSE pickers[v]
  BY <1>3, <1>4
<1>9. /\ \A v \in Pickers : ~Holds(v, o)
      /\ \A v \in Pickers, d \in Baskets :
           /\ v # w => (Holds(v, d)' <=> Holds(v, d))
           /\ Holds(w, d)' <=> d = o
           /\ ~Holds(w, d)
  BY <1>2, <1>4, <1>8
  DEF Holds, Resting, StockInv, StockSound, PickersSound
<1>10. StockSound'
  <2>1. StockTypeOK'
    BY <1>2, <1>3, <1>4, <1>5, <1>7
    DEF StockInv, StockSound, StockTypeOK, stockBounds
  <2>2. PickersSound'
    <3>1. ASSUME NEW v \in Pickers, NEW d \in Baskets, Holds(v, d)'
          PROVE  /\ checks'[d].state = "active"
                 /\ \A u \in Pickers : Holds(u, d)' => u = v
      <4>1. CASE d = o
        BY <1>5, <1>9, <3>1, <4>1
      <4>2. CASE d # o
        BY <1>5, <1>9, <3>1, <4>2 DEF StockInv, StockSound, PickersSound
      <4> QED
        BY <4>1, <4>2
    <3>2. ASSUME NEW v \in Pickers
          PROVE  /\ pickers'[v].at \in {"idle", "next"} =>
                      pickers'[v].product = {}
                 /\ \A d \in pickers'[v].order :
                      /\ pickers'[v].rest \subseteq Bought(d)
                      /\ pickers'[v].product \subseteq Bought(d)
      BY <1>2, <1>8 DEF StockInv, StockSound, PickersSound
    <3> QED
      BY <3>1, <3>2 DEF PickersSound
  <2>3. ChecksSound'
    BY <1>4, <1>5 DEF StockInv, StockSound, ChecksSound
  <2> QED
    BY <2>1, <2>2, <2>3 DEF StockSound
<1>11. ASSUME NEW p \in Tracked
       PROVE  TakenOff(p)' \subseteq TakenOff(p)
  <2> SUFFICES ASSUME NEW d \in TakenOff(p)' PROVE d \in TakenOff(p)
    OBVIOUS
  <2>1. /\ d \in since'[p] /\ p \in Bought(d) /\ d \in Baskets
        /\ \/ checks'[d].state = "completed"
           \/ \E v \in Pickers : Holds(v, d)' /\ p \notin pickers'[v].rest
    BY <1>7 DEF TakenOff
  <2>2. d # o
    BY <1>2, <1>5, <1>8, <1>9, <2>1
  <2>3. d \in since[p] /\ checks'[d] = checks[d]
    BY <1>5, <1>6, <2>1, <2>2
  <2>4. \/ checks[d].state = "completed"
        \/ \E v \in Pickers : Holds(v, d) /\ p \notin pickers[v].rest
    BY <1>8, <1>9, <2>1, <2>2, <2>3
  <2> QED
    BY <2>1, <2>3, <2>4 DEF TakenOff
<1>12. ASSUME NEW p \in Tracked, Answered(p)
       PROVE  Answered(p)'
  <2>1. CASE heard[p] \/ p \in missed
    BY <1>4, <2>1 DEF Answered
  <2>2. ASSUME NEW d \in Baskets, p \in Bought(d),
               checks[d].state \in {"waiting", "failed"}
        PROVE  Answered(p)'
    <3>1. CASE d # o
      BY <1>5, <2>2, <3>1 DEF Answered, Pending
    <3>2. CASE d = o
      <4>1. /\ o \in pickers'[w].order /\ pickers'[w].locked
            /\ p \in pickers'[w].rest
        BY <1>2, <1>8, <2>2, <3>2
      <4> QED
        BY <2>2, <3>2, <4>1 DEF Answered, Pending
    <3> QED
      BY <3>1, <3>2
  <2>3. ASSUME NEW v \in Pickers, NEW d \in pickers[v].order,
               p \in Bought(d),
               \/ p \in pickers[v].product
               \/ pickers[v].locked /\ p \in pickers[v].rest
        PROVE  Answered(p)'
    <3>1. v # w
      BY <1>4, <2>3 DEF Resting
    <3>2. pickers'[v] = pickers[v]
      BY <1>8, <3>1
    <3> QED
      BY <2>3, <3>2 DEF Answered, Pending
  <2> QED
    BY <1>12, <2>1, <2>2, <2>3 DEF Answered, Pending
<1>13. \A p \in Tracked : IsFiniteSet(since'[p])
  <2> SUFFICES ASSUME NEW p \in Tracked PROVE IsFiniteSet(since'[p])
    OBVIOUS
  <2>1. IsFiniteSet(since[p])
    BY DEF StockInv, TakenSound
  <2>2. IsFiniteSet(since[p] \cup {o})
    BY <2>1, FS_AddElement
  <2> QED
    BY <1>6, <2>1, <2>2
<1> QED
  BY <1>4, <1>10, <1>11, <1>12, <1>13, KeepsInv

-----------------------------------------------------------------------------
(* The steps that change a quantity                                        *)

\* A seller starts the count afresh.
LEMMA EditStep ==
  ASSUME StockInv, NEW p \in Tracked, NEW q \in Quantities, EnterQuantity(p, q)
  PROVE  StockInv'
<1>1. /\ quantity' = [quantity EXCEPT ![p] = q] /\ q \in Int
      /\ base' = [base EXCEPT ![p] = q]
      /\ since' = [since EXCEPT ![p] = {}]
      /\ heard' = [heard EXCEPT ![p] = FALSE]
      /\ UNCHANGED <<alertKey, checks, pickers, missed, stockFaults>>
  BY StockAssumption DEF EnterQuantity
<1>2. /\ quantity \in [Tracked -> Int] /\ base \in [Tracked -> Quantities]
      /\ since \in [Tracked -> SUBSET Baskets]
      /\ heard \in [Tracked -> BOOLEAN]
  BY DEF StockInv, StockSound, StockTypeOK
<1>3. /\ quantity'[p] = q /\ base'[p] = q /\ since'[p] = {}
      /\ \A d \in Tracked : d # p => /\ quantity'[d] = quantity[d]
                                     /\ base'[d] = base[d]
                                     /\ since'[d] = since[d]
                                     /\ heard'[d] = heard[d]
  BY <1>1, <1>2
<1>4. StockSound'
  <2>1. stockEdits' \in 0 .. MaxStockEdits
    <3>1. stockEdits \in 0 .. MaxStockEdits /\ MaxStockEdits \in Nat
      BY StockAssumption DEF StockInv, StockSound, StockTypeOK
    <3> QED
      BY <3>1 DEF EnterQuantity
  <2>2. StockTypeOK'
    BY <1>1, <1>2, <2>1 DEF StockInv, StockSound, StockTypeOK
  <2>3. PickersSound' /\ ChecksSound'
    BY <1>1 DEF StockInv, StockSound, PickersSound, ChecksSound, Holds
  <2> QED
    BY <2>2, <2>3 DEF StockSound
<1>5. TakenOff(p)' = {}
  BY <1>3 DEF TakenOff
<1>6. ASSUME NEW d \in Tracked, d # p
      PROVE  TakenOff(d)' = TakenOff(d) /\ (Answered(d) => Answered(d)')
  BY <1>1, <1>3, <1>6 DEF TakenOff, Holds, Answered, Pending
<1>7. TakenSound'
  <2> SUFFICES ASSUME NEW d \in Tracked
               PROVE  /\ IsFiniteSet(since'[d])
                      /\ quantity'[d] <= base'[d]
                           - SumFunctionOnSet(Smallest(d), TakenOff(d)')
    BY DEF TakenSound, Smallest
  <2>1. CASE d = p
    <3>1. SumFunctionOnSet(Smallest(d), {}) = 0 /\ IsFiniteSet({})
      BY SumOfNone, FS_EmptySet
    <3>2. TakenOff(d)' = {}
      BY <1>5, <2>1
    <3>3. quantity'[d] = q /\ base'[d] = q /\ since'[d] = {}
      BY <1>3, <2>1
    <3> QED
      BY <1>1, <3>1, <3>2, <3>3
  <2>2. CASE d # p
    <3>1. TakenOff(d)' = TakenOff(d)
      BY <1>6, <2>2
    <3> QED
      BY <1>3, <2>2, <3>1 DEF StockInv, TakenSound
  <2> QED
    BY <2>1, <2>2
<1>8. HeardSound'
  <2> SUFFICES ASSUME NEW d \in Tracked, TakenOff(d)' # {},
                      IsLow(d, quantity'[d])
               PROVE  Answered(d)'
    BY DEF HeardSound, IsLow
  <2>1. d # p
    BY <1>5
  <2>2. TakenOff(d) # {} /\ IsLow(d, quantity[d])
    BY <1>3, <1>6, <2>1
  <2> QED
    BY <1>6, <2>1, <2>2 DEF StockInv, HeardSound
<1> QED
  BY <1>4, <1>7, <1>8 DEF StockInv

\* One turn of a check's loop.
LEMMA TurnStep ==
  ASSUME StockInv, NEW w \in Pickers, NEW o \in pickers[w].order,
         NEW i \in DOMAIN Lines[o], DecrementStock(w, i)
  PROVE  StockInv'
<1> DEFINE p == Lines[o][i].product
           n == Lines[o][i].n
<1>1. /\ o \in Baskets /\ pickers[w].order = {o}
      /\ p \in Tracked /\ p \in Bought(o) /\ p \in pickers[w].rest
      /\ n \in Nat /\ n > 0 /\ n \in Numbers(o, p)
      /\ pickers[w].product = {}
      /\ quantity' = [quantity EXCEPT ![p] = @ - n]
      /\ heard' = [heard EXCEPT ![p] = FALSE]
      /\ missed' = missed \ {p}
      /\ UNCHANGED <<alertKey, checks, base, since, stockBounds>>
  BY TurnTakes DEF StockInv
<1>2. PICK r : /\ pickers' = [pickers EXCEPT ![w] = r]
               /\ \/ /\ r = [[pickers[w] EXCEPT !.rest = @ \ {p}]
                             EXCEPT !.at = "ask", !.product = {p}]
                     /\ IsLow(p, quantity[p] - n)
                  \/ /\ r = [pickers[w] EXCEPT !.rest = @ \ {p}]
                     /\ ~IsLow(p, quantity[p] - n)
  <2>1. \/ /\ IsLow(p, quantity[p] - n)
           /\ pickers' = [pickers EXCEPT
                            ![w] = [[pickers[w] EXCEPT !.rest = @ \ {p}]
                                    EXCEPT !.at = "ask", !.product = {p}]]
        \/ /\ ~IsLow(p, quantity[p] - n)
           /\ pickers' = [pickers EXCEPT
                            ![w] = [pickers[w] EXCEPT !.rest = @ \ {p}]]
    BY TurnTakes DEF StockInv
  <2> HIDE DEF p, n
  <2> QED
    BY <2>1
<1>3. StockSound'
  BY TurnSound DEF StockInv
<1> HIDE DEF p, n
<1>4. /\ pickers[w] \in Picker /\ pickers \in [Pickers -> Picker]
      /\ quantity \in [Tracked -> Int] /\ heard \in [Tracked -> BOOLEAN]
  BY DEF StockInv, StockSound, StockTypeOK
<1>5. /\ r.order = {o} /\ r.locked = pickers[w].locked
      /\ r.rest = pickers[w].rest \ {p}
      /\ IsLow(p, quantity[p] - n) => r.product = {p}
  <2>1. PICK b : b = pickers[w] /\ b \in Picker /\ b.order = {o}
    BY <1>1, <1>4
  <2>2. CASE /\ r = [b EXCEPT !.rest = @ \ {p}]
             /\ ~IsLow(p, quantity[p] - n)
    BY <2>1, <2>2 DEF Picker
  <2>3. CASE r = [[b EXCEPT !.rest = @ \ {p}] EXCEPT !.at = "ask", !.product = {p}]
    BY <2>1, <2>3 DEF Picker
  <2> QED
    BY <1>2, <2>1, <2>2, <2>3
<1>6. \A v \in Pickers : pickers'[v] = IF v = w THEN r ELSE pickers[v]
  BY <1>2, <1>4
<1>7. \A d \in Tracked : d # p => /\ quantity'[d] = quantity[d]
                                  /\ heard[d] => heard'[d]
                                  /\ d \in missed => d \in missed'
  BY <1>1, <1>4
<1>8. quantity'[p] = quantity[p] - n
  BY <1>1, <1>4
<1>9. ASSUME NEW d \in Tracked
      PROVE  TakenOff(d)' \subseteq
               TakenOff(d) \cup (IF d = p THEN {o} ELSE {})
  <2> SUFFICES ASSUME NEW b \in TakenOff(d)', b \notin TakenOff(d)
               PROVE  d = p /\ b = o
    OBVIOUS
  <2>1. /\ b \in since[d] /\ d \in Bought(b)
        /\ checks'[b] = checks[b] /\ checks[b].state # "completed"
    BY <1>1 DEF TakenOff
  <2>2. PICK v \in Pickers : Holds(v, b)' /\ d \notin pickers'[v].rest
    BY <1>1, <2>1 DEF TakenOff
  <2>3. Holds(v, b)
    BY <1>1, <1>5, <1>6, <2>2 DEF Holds
  <2>4. d \in pickers[v].rest
    BY <2>1, <2>3 DEF TakenOff
  <2>5. v = w
    BY <1>6, <2>2, <2>4
  <2> QED
    BY <1>1, <1>5, <1>6, <2>2, <2>3, <2>4, <2>5 DEF Holds
<1>10. ASSUME Holds(w, o) PROVE o \notin TakenOff(p)
  <2>1. checks[o].state = "active" /\ \A v \in Pickers : Holds(v, o) => v = w
    BY <1>1, <1>10 DEF StockInv, StockSound, PickersSound
  <2> QED
    BY <1>1, <2>1 DEF TakenOff
<1>11. TakenSound'
  <2> SUFFICES ASSUME NEW d \in Tracked
               PROVE  quantity'[d] <= base[d]
                        - SumFunctionOnSet(Smallest(d), TakenOff(d)')
    BY <1>1 DEF TakenSound, StockInv, Smallest
  <2>1. PICK weigh, before, after :
          weigh = Smallest(d) /\ before = TakenOff(d) /\ after = TakenOff(d)'
    OBVIOUS
  <2>2. /\ quantity[d] <= base[d] - SumFunctionOnSet(weigh, before)
        /\ quantity[d] \in Int /\ base[d] \in Int
    <3>1. quantity[d] <= base[d] - SumFunctionOnSet(weigh, before)
      BY <2>1 DEF StockInv, TakenSound
    <3>2. base[d] \in Quantities
      BY DEF StockInv, StockSound, StockTypeOK
    <3>3. Quantities \subseteq Int
      BY StockAssumption
    <3> QED
      BY <1>4, <3>1, <3>2, <3>3
  <2>3. /\ IsFiniteSet(before) /\ \A b \in before : weigh[b] \in Nat
        /\ SumFunctionOnSet(weigh, before) \in Int
    BY <2>1, TakenCounts DEF StockInv, TakenSound
  <2>4. CASE after \subseteq before
    <3>1. /\ SumFunctionOnSet(weigh, after) \in Int
          /\ SumFunctionOnSet(weigh, after) <= SumFunctionOnSet(weigh, before)
      BY ONLY <2>3, <2>4, SumOfFewer
    <3>2. quantity'[d] \in Int /\ quantity'[d] <= quantity[d]
      BY <1>1, <1>7, <1>8, <2>2
    <3>3. quantity'[d] <= base[d] - SumFunctionOnSet(weigh, after)
      BY ONLY <2>2, <2>3, <3>1, <3>2
    <3> QED
      BY <2>1, <3>3
  <2>5. CASE ~ after \subseteq before
    <3>1. d = p /\ after \subseteq before \cup {o} /\ o \in after
      BY <1>9, <2>1, <2>5
    <3>2. o \notin before
      BY <2>1, <2>5, <3>1
    <3>3. /\ weigh[o] \in Nat /\ weigh[o] <= n
      BY <1>1, <2>1, <3>1, SmallestIsLeast DEF Smallest
    <3>4. PICK both : both = before \cup {o}
      OBVIOUS
    <3>5. IsFiniteSet(both) /\ \A b \in both : weigh[b] \in Nat
      BY <2>3, <3>3, <3>4, FS_AddElement
    <3>6. after \in SUBSET both
      BY <3>1, <3>4
    <3>7. /\ SumFunctionOnSet(weigh, after) \in Int
          /\ SumFunctionOnSet(weigh, after) <= SumFunctionOnSet(weigh, both)
      BY ONLY <3>5, <3>6, SumOfFewer
    <3>8. SumFunctionOnSet(weigh, both)
            = SumFunctionOnSet(weigh, before) + weigh[o]
      <4>1. \A b \in before \cup {o} : weigh[b] \in Int
        BY <3>4, <3>5
      <4>2. SumFunctionOnSet(weigh, before \cup {o})
              = SumFunctionOnSet(weigh, before) + weigh[o]
        BY ONLY <2>3, <3>2, <4>1, SumWith
      <4> QED
        BY <3>4, <4>2
    <3>9. quantity'[d] = quantity[d] - n
      BY <1>8, <3>1
    <3>10. quantity'[d] <= base[d] - SumFunctionOnSet(weigh, after)
      <4>1. n \in Nat
        BY <1>1
      <4> QED
        BY ONLY <2>2, <2>3, <3>3, <3>7, <3>8, <3>9, <4>1
    <3> QED
      BY <2>1, <3>10
  <2> QED
    BY <2>4, <2>5
<1>12. HeardSound'
  <2> SUFFICES ASSUME NEW d \in Tracked, TakenOff(d)' # {},
                      IsLow(d, quantity'[d])
               PROVE  Answered(d)'
    BY DEF HeardSound, IsLow
  <2>1. CASE d = p
    <3>1. IsLow(p, quantity[p] - n)
      BY <1>8, <2>1
    <3>2. o \in pickers'[w].order /\ p \in pickers'[w].product
      BY <1>5, <1>6, <3>1
    <3> QED
      BY <1>1, <2>1, <3>2 DEF Answered, Pending
  <2>2. CASE d # p
    <3>1. Answered(d)
      <4>1. TakenOff(d) # {}
        BY <1>9, <2>2
      <4>2. IsLow(d, quantity[d])
        BY <1>7, <2>2 DEF IsLow
      <4> QED
        BY <4>1, <4>2 DEF StockInv, HeardSound
    <3>2. ASSUME NEW v \in Pickers, NEW b \in pickers[v].order, d \in Bought(b),
                 \/ d \in pickers[v].product
                 \/ pickers[v].locked /\ d \in pickers[v].rest
          PROVE  Answered(d)'
      <4>1. /\ b \in pickers'[v].order
            /\ \/ d \in pickers'[v].product
               \/ pickers'[v].locked /\ d \in pickers'[v].rest
        BY <1>1, <1>5, <1>6, <2>2, <3>2
      <4> QED
        BY <3>2, <4>1 DEF Answered, Pending
    <3>3. ASSUME heard[d] \/ d \in missed PROVE Answered(d)'
      <4>1. heard'[d] \/ d \in missed'
        BY <1>7, <2>2, <3>3
      <4> QED
        BY <4>1 DEF Answered
    <3>4. ASSUME NEW b \in Baskets, d \in Bought(b),
                 checks[b].state \in {"waiting", "failed"}
          PROVE  Answered(d)'
      BY <1>1, <3>4 DEF Answered, Pending
    <3> QED
      BY <3>1, <3>2, <3>3, <3>4 DEF Answered, Pending
  <2> QED
    BY <2>1, <2>2
<1> QED
  BY <1>3, <1>11, <1>12 DEF StockInv

-----------------------------------------------------------------------------
(* The theorems                                                            *)

LEMMA StockInitInv == StockInit => StockInv
<1> SUFFICES ASSUME StockInit PROVE StockInv
  OBVIOUS
<1>1. StockSound
  BY StockInitSound
<1>2. \A p \in Tracked : since[p] = {} /\ TakenOff(p) = {} /\ quantity[p] = base[p]
  BY DEF StockInit, TakenOff
<1>3. TakenSound
  <2> SUFFICES ASSUME NEW p \in Tracked
               PROVE  /\ IsFiniteSet(since[p])
                      /\ quantity[p] <= base[p]
                           - SumFunctionOnSet(Smallest(p), TakenOff(p))
    BY DEF TakenSound
  <2>1. SumFunctionOnSet(Smallest(p), {}) = 0 /\ IsFiniteSet({})
    BY SumOfNone, FS_EmptySet
  <2>2. quantity[p] \in Int
    BY <1>1 DEF StockSound, StockTypeOK
  <2>3. quantity[p] <= base[p] - 0
    BY <1>2, <2>2
  <2> QED
    BY <1>2, <2>1, <2>3
<1>4. HeardSound
  BY <1>2 DEF HeardSound
<1> QED
  BY <1>1, <1>3, <1>4 DEF StockInv

LEMMA StockStepInv == StockInv /\ [StockNext]_stockVars => StockInv'
<1> SUFFICES ASSUME StockInv, [StockNext]_stockVars PROVE StockInv'
  OBVIOUS
<1> QED
  BY AlertSteps, EndSteps, QueueSteps, BeginStep, EditStep, TurnStep
  DEF StockNext

\* Every order whose check completed has been taken off the stock, at least
\* one of its items of each product, whatever was retried or stalled.
THEOREM SoldAlwaysTaken == StockSpec => []SoldIsTaken
<1>1. StockInv => SoldIsTaken
  <2> SUFFICES ASSUME StockInv, NEW p \in Tracked
               PROVE  quantity[p] <= base[p] - SumFunctionOnSet(
                        Smallest(p), {o \in CheckedSince(p) : p \in Bought(o)})
    BY DEF SoldIsTaken, Smallest
  <2>1. PICK weigh, all, done : /\ weigh = Smallest(p) /\ all = TakenOff(p)
                                /\ done = {o \in CheckedSince(p) : p \in Bought(o)}
    OBVIOUS
  <2>2. done \in SUBSET all
    BY <2>1 DEF CheckedSince, TakenOff
  <2>3. /\ IsFiniteSet(all) /\ \A o \in all : weigh[o] \in Nat
    BY <2>1, TakenCounts DEF StockInv, TakenSound
  <2>4. /\ SumFunctionOnSet(weigh, all) \in Int
        /\ SumFunctionOnSet(weigh, done) \in Int
        /\ SumFunctionOnSet(weigh, done) <= SumFunctionOnSet(weigh, all)
    BY ONLY <2>2, <2>3, SumOfFewer
  <2>5. quantity[p] <= base[p] - SumFunctionOnSet(weigh, all)
    BY <2>1 DEF StockInv, TakenSound
  <2>6. quantity[p] \in Int /\ base[p] \in Int
    <3>1. base[p] \in Quantities /\ quantity[p] \in Int
      BY DEF StockInv, StockSound, StockTypeOK
    <3>2. Quantities \subseteq Int
      BY StockAssumption
    <3> QED
      BY <3>1, <3>2
  <2>7. quantity[p] <= base[p] - SumFunctionOnSet(weigh, done)
    BY ONLY <2>4, <2>5, <2>6
  <2> QED
    BY <2>1, <2>7
<1> QED
  BY <1>1, StockInitInv, StockStepInv, PTL DEF StockSpec

\* No product that checks have brought low is passed over in silence, but for
\* the alert of a worker that had lost its job and failed.
THEOREM LowAlwaysHeardOf == StockSpec => []LowIsHeardOf
<1>1. StockInv => LowIsHeardOf
  <2> SUFFICES ASSUME StockInv, NEW p \in Tracked, Quiet(p),
                      IsLow(p, quantity[p]),
                      NEW o \in CheckedSince(p), p \in Bought(o)
               PROVE  heard[p] \/ p \in missed
    BY DEF LowIsHeardOf
  <2>1. o \in TakenOff(p)
    BY DEF CheckedSince, TakenOff
  <2>2. Answered(p)
    BY <2>1 DEF StockInv, HeardSound
  <2>3. ~Pending(p)
    BY DEF Pending, Quiet
  <2> QED
    BY <2>2, <2>3 DEF Answered
<1> QED
  BY <1>1, StockInitInv, StockStepInv, PTL DEF StockSpec

-----------------------------------------------------------------------------
(* Threads                                                                 *)

-----------------------------------------------------------------------------
(* Messages in a sequence                                                  *)

\* A sequence whose entries are rewritten in place.
LEMMA InPlace ==
  ASSUME NEW S, NEW s \in Seq(S), NEW t,
         t = [n \in DOMAIN s |-> t[n]], \A n \in DOMAIN s : t[n] \in S
  PROVE  t \in Seq(S) /\ Len(t) = Len(s) /\ DOMAIN t = DOMAIN s
<1>1. Len(s) \in Nat /\ DOMAIN s = 1 .. Len(s)
  BY LenProperties
<1>2. t \in [1 .. Len(s) -> S]
  BY <1>1
<1>3. t \in Seq(S)
  BY <1>1, <1>2, SeqDef
<1>4. Len(t) \in Nat /\ DOMAIN t = 1 .. Len(t)
  BY <1>3, LenProperties
<1>5. Len(t) = Len(s)
  BY <1>1, <1>2, <1>4
<1> QED
  BY <1>1, <1>3, <1>4, <1>5

\* What Max chooses of some numbers up to n.
LEMMA LargestIs ==
  ASSUME NEW n \in Nat, NEW S \in SUBSET (1 .. n), S # {}
  PROVE  Max(S) \in S /\ \A m \in S : m <= Max(S)
<1> DEFINE Below == {pair \in Nat \X Nat : pair[1] < pair[2]}
           Gaps == {n - m : m \in S}
<1>1. Gaps \subseteq Nat /\ Gaps # {}
  <2>1. \A m \in S : n - m \in Nat
    OBVIOUS
  <2> QED
    BY <2>1
<1>2. PICK least \in Gaps : \A gap \in Gaps : <<gap, least>> \notin Below
  <2>1. IsWellFoundedOn(Below, Nat)
    BY NatLessThanWellFounded DEF OpToRel
  <2> HIDE DEF Below, Gaps
  <2> QED
    BY <1>1, <2>1, WFMin
<1>3. PICK top \in S : least = n - top
  OBVIOUS
<1>4. \A m \in S : m <= top
  <2> SUFFICES ASSUME NEW m \in S PROVE m <= top
    OBVIOUS
  <2>1. n - m \in Gaps /\ n - m \in Nat /\ least \in Nat
    BY <1>1
  <2>2. <<n - m, least>> \in Nat \X Nat
    BY <2>1
  <2>3. ~ n - m < least
    BY <1>2, <2>1, <2>2
  <2> QED
    BY <1>3, <2>3
<1> HIDE DEF Gaps
<1>5. \E x \in S : \A y \in S : x >= y
  BY <1>4
<1> QED
  BY <1>5 DEF Max

-----------------------------------------------------------------------------
(* What the calls know, and where the messages are                         *)

\* A call is about a thread that was there.  A fold is of the guest's thread,
\* or of what was it, into the account's, which is there to stay; of what it
\* has not moved it has seen nothing.
CallSound(e) ==
  /\ e.op # "idle" => e.on \in Threads /\ threads[e.on].buyer # "none"
  /\ e.op \in {"keeper", "fold", "moved"} =>
       /\ threads[e.on].buyer \in {"guest", "gone"}
       /\ e.into \in Threads /\ threads[e.into].buyer = "account"
  /\ e.op = "unsend" => e.post \in DOMAIN posts /\ posts[e.post].from = "SHOP"
  /\ e.op \in {"latest", "counted"} => e.post <= Len(posts)
  /\ e.op \in {"fold", "moved"} => /\ e.seen.last <= Len(posts)
                                   /\ e.seenInto.last <= Len(posts)
  /\ e.op = "moved" /\ Alive(e.on) =>
       /\ e.moved \subseteq In(e.on)
       /\ \A n \in In(e.on) \ e.moved : n > e.seen.last

CallsSound == \A r \in Callers : CallSound(calls[r])

\* A message is in a thread that is there, or in none.  A composer's is where
\* it was written, unless that thread is gone.
PostsSound ==
  \A n \in DOMAIN posts :
    /\ posts[n].thread # 0 => threads[posts[n].thread].buyer \in Buyers
    /\ posts[n].key[1] # 0 =>
         \/ posts[n].thread = posts[n].key[1]
         \/ threads[posts[n].key[1]].buyer = "gone"

\* No thread shows more than there is, and one that is not there shows nothing.
NewThreads ==
  \A t \in Threads : /\ threads[t].list.last <= Len(posts)
                     /\ threads[t].buyer = "none" => threads[t].list = Blank

ThreadSound == /\ ThreadTypeOK /\ CallsSound /\ PostsSound /\ NewThreads
               /\ SentOnce

LEMMA BlankTyped == Blank \in Summary /\ NoCall \in Errand
<1>1. Blank \in Summary
  BY ThreadBoundsAssumption DEF Blank, Summary
<1> QED
  BY <1>1, ThreadBoundsAssumption DEF NoCall, Errand, Sides

\* A key is of a composer, of the order panel, or there is none.
LEMMA KeysAre ==
  ASSUME NEW key \in Keys
  PROVE  key[1] = 0 <=> key \in {NoKey, PanelKey}
  BY DEF Keys, NoKey, PanelKey, Sides

LEMMA PostsAre ==
  ASSUME ThreadTypeOK
  PROVE  /\ Len(posts) \in Nat /\ DOMAIN posts = 1 .. Len(posts)
         /\ \A n \in DOMAIN posts : posts[n] \in Post
         /\ DOMAIN posts \subseteq Posts
<1>1. /\ posts \in Seq(Post) /\ Len(posts) <= MaxPosts /\ MaxPosts \in Nat
  BY ThreadBoundsAssumption DEF ThreadTypeOK
<1>2. /\ Len(posts) \in Nat /\ DOMAIN posts = 1 .. Len(posts)
      /\ \A n \in DOMAIN posts : posts[n] \in Post
  BY <1>1, LenProperties
<1> QED
  BY <1>1, <1>2 DEF Posts

LEMMA ThreadInitSound == ThreadInit => ThreadSound
<1> SUFFICES ASSUME ThreadInit PROVE ThreadSound
  OBVIOUS
<1>1. posts = <<>> /\ posts \in Seq(Post) /\ Len(posts) = 0 /\ DOMAIN posts = {}
  BY EmptySeq DEF ThreadInit
<1>2. ThreadTypeOK
  BY <1>1, BlankTyped, ThreadBoundsAssumption
  DEF ThreadInit, ThreadTypeOK, Thread
<1>3. CallsSound
  BY DEF ThreadInit, CallsSound, CallSound, NoCall
<1>4. PostsSound /\ NewThreads /\ SentOnce
  BY <1>1 DEF ThreadInit, PostsSound, NewThreads, SentOnce, Blank
<1> QED
  BY <1>2, <1>3, <1>4 DEF ThreadSound

\* A thread's list is written.
LEMMA ListWritten ==
  ASSUME NEW t \in Threads, NEW list \in Summary,
         threads \in [Threads -> Thread],
         threads' = [threads EXCEPT ![t].list = list]
  PROVE  /\ threads' \in [Threads -> Thread]
         /\ threads'[t].list = list
         /\ \A u \in Threads : /\ u # t => threads'[u] = threads[u]
                               /\ threads'[u].buyer = threads[u].buyer
  BY DEF Thread

LEMMA ListTyped ==
  ASSUME NEW unread \in [Sides -> Nat], NEW last \in 0 .. MaxPosts,
         NEW at \in 0 .. MaxPosts
  PROVE  [unread |-> unread, last |-> last, at |-> at] \in Summary
  BY DEF Summary

\* The threads and the messages go on: no thread is the guest's again, and
\* what comes into the guest's is new.
Onwards ==
  /\ \A t \in Threads :
       /\ threads[t].buyer # "none" => threads'[t].buyer # "none"
       /\ threads[t].buyer = "gone" => threads'[t].buyer = "gone"
       /\ threads[t].buyer = "account" => threads'[t].buyer = "account"
       /\ threads[t].buyer = "guest" =>
            threads'[t].buyer \in {"guest", "gone"} \/ ~Has("account")
  /\ Len(posts) <= Len(posts')
  /\ \A n \in DOMAIN posts : posts'[n].from = posts[n].from
  /\ \A t \in Threads :
       threads[t].buyer = "guest" /\ threads'[t].buyer = "guest" =>
         \A n \in DOMAIN posts' :
           n > Len(posts) \/ (posts'[n].thread = t <=> posts[n].thread = t)

\* What a call knows stays so.
LEMMA CallStaysSound ==
  ASSUME ThreadTypeOK, ThreadTypeOK', Onwards, NEW e \in Errand, CallSound(e)
  PROVE  CallSound(e)'
<1>1. /\ Len(posts) \in Nat /\ DOMAIN posts = 1 .. Len(posts)
      /\ Len(posts') \in Nat /\ DOMAIN posts' = 1 .. Len(posts')
  BY PostsAre
<1>2. e.op # "idle" => e.on \in Threads /\ threads'[e.on].buyer # "none"
  BY DEF CallSound, Onwards
<1>3. e.op \in {"keeper", "fold", "moved"} =>
        /\ threads'[e.on].buyer \in {"guest", "gone"}
        /\ e.into \in Threads /\ threads'[e.into].buyer = "account"
  <2>1. e.op \in {"keeper", "fold", "moved"} => Has("account")
    BY DEF CallSound, Has
  <2> QED
    BY <1>2, <2>1 DEF CallSound, Onwards
<1>4. e.op = "unsend" => e.post \in DOMAIN posts' /\ posts'[e.post].from = "SHOP"
  BY <1>1 DEF CallSound, Onwards
<1>5. /\ e.op \in {"latest", "counted"} => e.post <= Len(posts')
      /\ e.op \in {"fold", "moved"} => /\ e.seen.last <= Len(posts')
                                       /\ e.seenInto.last <= Len(posts')
  <2>1. e.seen.last \in Int /\ e.seenInto.last \in Int /\ e.post \in Int
    BY ThreadBoundsAssumption DEF Errand, Summary
  <2> QED
    BY <1>1, <2>1 DEF CallSound, Onwards
<1>6. ASSUME e.op = "moved", Alive(e.on)'
      PROVE  /\ e.moved \subseteq In(e.on)'
             /\ \A n \in In(e.on)' \ e.moved : n > e.seen.last
  <2>1. e.on \in Threads /\ threads'[e.on].buyer = "guest"
    BY <1>2, <1>3, <1>6 DEF Alive, Buyers
  <2>2. threads[e.on].buyer = "guest" /\ Alive(e.on)
    BY <1>6, <2>1 DEF CallSound, Alive, Buyers, Threads, Onwards
  <2>3. /\ e.moved \subseteq In(e.on) /\ e.seen.last <= Len(posts)
        /\ \A n \in In(e.on) \ e.moved : n > e.seen.last
    BY <1>6, <2>2 DEF CallSound
  <2>4. \A n \in In(e.on) : n \in In(e.on)'
    BY <1>1, <2>1, <2>2 DEF In, Onwards
  <2>5. \A n \in In(e.on)' : n > Len(posts) \/ n \in In(e.on)
    BY <1>1, <2>1, <2>2 DEF In, Onwards
  <2>6. e.seen.last \in Int
    BY ThreadBoundsAssumption DEF Errand, Summary
  <2>7. In(e.on)' \subseteq Int
    BY <1>1 DEF In
  <2> QED
    BY <1>1, <2>3, <2>4, <2>5, <2>6, <2>7
<1> QED
  BY <1>2, <1>3, <1>4, <1>5, <1>6 DEF CallSound

LEMMA CallsKeep ==
  ASSUME ThreadTypeOK, ThreadTypeOK', Onwards, CallsSound,
         NEW work \in Errand, CallSound(work)',
         \A r \in Callers : calls'[r] \in {calls[r], work}
  PROVE  CallsSound'
<1> SUFFICES ASSUME NEW r \in Callers PROVE CallSound(calls[r])'
  BY DEF CallsSound
<1>1. PICK e \in Errand : e = calls'[r] /\ CallSound(e)'
  <2>1. CASE calls'[r] = work
    BY <2>1
  <2>2. CASE calls'[r] = calls[r]
    <3>1. PICK e : e = calls[r] /\ e \in Errand
      BY DEF ThreadTypeOK
    <3>2. CallSound(e)
      BY <3>1 DEF CallsSound
    <3>3. CallSound(e)'
      BY <3>1, <3>2, CallStaysSound
    <3> QED
      BY <2>2, <3>1, <3>3
  <2> QED
    BY <2>1, <2>2
<1> QED
  BY <1>1 DEF CallSound, In, Alive

\* A step that only changes what a call is doing.
LEMMA OnlyCalls ==
  ASSUME ThreadSound, NEW r \in Callers, NEW work \in Errand, CallSound(work),
         calls' = [calls EXCEPT ![r] = work],
         disturbed' \subseteq Threads, UNCHANGED <<threads, posts, lost>>
  PROVE  ThreadSound'
<1>1. /\ ThreadTypeOK'
      /\ \A s \in Callers : calls'[s] \in {calls[s], work}
  BY DEF ThreadSound, ThreadTypeOK
<1>2. Onwards
  BY PostsAre DEF ThreadSound, ThreadTypeOK, Onwards, Thread
<1>3. CallSound(work)'
  BY DEF CallSound, In, Alive
<1>4. CallsSound'
  BY <1>1, <1>2, <1>3, CallsKeep DEF ThreadSound
<1>5. PostsSound' /\ NewThreads' /\ SentOnce'
  BY DEF ThreadSound, PostsSound, NewThreads, SentOnce
<1> QED
  BY <1>1, <1>4, <1>5 DEF ThreadSound

LEMMA NoCallSound == CallSound(NoCall) /\ CallSound(NoCall)'
  BY DEF CallSound, NoCall

\* Which calls go on, and with what.
CallStep ==
  \E r \in Callers :
    \/ FindLatest(r) \/ CountUnread(r) \/ ReadForLink(r) \/ FoldRead(r)
    \/ FoldMove(r) \/ GiveUp(r)
    \/ \E t \in Threads, side \in Sides : Compose(r, t, side)
    \/ \E n \in DOMAIN posts : ReadForUnsend(r, n)

LEMMA LatestIs ==
  ASSUME ThreadTypeOK, NEW t
  PROVE  LET shown == {n \in In(t) : ~posts[n].deleted}
         IN /\ shown # {} => /\ Latest(t) \in shown
                             /\ \A n \in shown : n <= Latest(t)
            /\ shown = {} => Latest(t) = 0
            /\ Latest(t) \in 0 .. MaxPosts /\ Latest(t) <= Len(posts)
<1> DEFINE shown == {n \in In(t) : ~posts[n].deleted}
<1>1. shown \subseteq 1 .. Len(posts) /\ Len(posts) \in Nat
      /\ shown \subseteq Posts
  BY PostsAre DEF In
<1>2. Latest(t) = IF shown = {} THEN 0 ELSE Max(shown)
  BY DEF Latest
<1> HIDE DEF shown
<1>3. shown # {} => Max(shown) \in shown /\ \A n \in shown : n <= Max(shown)
  BY <1>1, LargestIs
<1>4. Latest(t) \in 0 .. MaxPosts
  <2>1. shown # {} => Latest(t) \in Posts
    BY <1>1, <1>2, <1>3
  <2>2. shown = {} => Latest(t) = 0
    BY <1>2
  <2> QED
    BY <2>1, <2>2, ThreadBoundsAssumption DEF Posts
<1>5. Latest(t) <= Len(posts)
  <2>1. shown # {} => Latest(t) \in 1 .. Len(posts)
    BY <1>1, <1>2, <1>3
  <2>2. shown = {} => Latest(t) = 0
    BY <1>2
  <2> QED
    BY <1>1, <2>1, <2>2
<1> QED
  BY <1>2, <1>3, <1>4, <1>5 DEF shown

LEMMA UnreadCounts ==
  ASSUME ThreadTypeOK, NEW t, NEW side
  PROVE  /\ IsFiniteSet(Unread(t, side))
         /\ Cardinality(Unread(t, side)) \in Nat
<1>1. Unread(t, side) \subseteq 1 .. Len(posts) /\ Len(posts) \in Nat
  BY PostsAre DEF Unread, In
<1>2. IsFiniteSet(1 .. Len(posts))
  BY <1>1, FS_Interval
<1>3. IsFiniteSet(Unread(t, side))
  BY <1>1, <1>2, FS_Subset
<1> QED
  BY <1>3, FS_CardinalityType

LEMMA CallStepSound ==
  ASSUME ThreadSound, CallStep PROVE ThreadSound'
<1>1. PICK r \in Callers :
        \/ FindLatest(r) \/ CountUnread(r) \/ ReadForLink(r) \/ FoldRead(r)
        \/ FoldMove(r) \/ GiveUp(r)
        \/ \E t \in Threads, side \in Sides : Compose(r, t, side)
        \/ \E n \in DOMAIN posts : ReadForUnsend(r, n)
  BY DEF CallStep
<1>2. /\ UNCHANGED <<threads, posts, lost>> /\ disturbed \subseteq Threads
      /\ calls \in [Callers -> Errand] /\ threads \in [Threads -> Thread]
  BY <1>1
  DEF FindLatest, CountUnread, ReadForLink, FoldRead, FoldMove, GiveUp, Compose,
      ReadForUnsend, listings, threadHistory, ThreadSound, ThreadTypeOK
<1>3. PICK e : e = calls[r] /\ e \in Errand /\ CallSound(e)
  BY <1>2 DEF ThreadSound, CallsSound
<1>4. PICK idle : /\ idle = NoCall /\ idle \in Errand
                  /\ Threads \subseteq 0 .. MaxThreads /\ 0 \in 0 .. MaxThreads
                  /\ Posts \subseteq 0 .. MaxPosts
  BY BlankTyped, ThreadBoundsAssumption DEF Threads, Posts
<1>5. ASSUME NEW work \in Errand, CallSound(work),
             Goes(r, work) \/ Go(r, work), disturbed' \subseteq Threads
      PROVE  ThreadSound'
  <2>1. calls' = [calls EXCEPT ![r] = work]
    BY <1>5 DEF Goes, Go
  <2> QED
    BY <1>2, <1>5, <2>1, OnlyCalls
<1>6. CASE FindLatest(r)
  <2>1. PICK work : work = [e EXCEPT !.op = "latest", !.post = Latest(e.on)]
    OBVIOUS
  <2>2. Goes(r, work) /\ e.op = "withdrawn" /\ disturbed' = disturbed
    BY <1>3, <1>6, <2>1 DEF FindLatest, threadHistory
  <2>3. Latest(e.on) \in 0 .. MaxPosts /\ Latest(e.on) <= Len(posts)
    BY LatestIs DEF ThreadSound
  <2>4. /\ work \in Errand /\ work.op = "latest" /\ work.on = e.on
        /\ work.post = Latest(e.on)
    BY <1>3, <2>1, <2>3 DEF Errand
  <2>5. CallSound(work)
    BY <1>3, <2>2, <2>3, <2>4 DEF CallSound
  <2> QED
    BY <1>2, <1>5, <2>2, <2>4, <2>5
<1>7. CASE CountUnread(r)
  <2>1. PICK work : work = [e EXCEPT !.op = "counted",
                                     !.count = Cardinality(ToRead(e.on))]
    OBVIOUS
  <2>2. Goes(r, work) /\ e.op = "latest" /\ disturbed' = disturbed
    BY <1>3, <1>7, <2>1 DEF CountUnread, threadHistory
  <2>3. Cardinality(ToRead(e.on)) \in Nat
    BY UnreadCounts DEF ToRead, ThreadSound
  <2>4. /\ work \in Errand /\ work.op = "counted" /\ work.on = e.on
        /\ work.post = e.post
    BY <1>3, <2>1, <2>3 DEF Errand
  <2>5. CallSound(work)
    BY <1>3, <2>2, <2>4 DEF CallSound
  <2> QED
    BY <1>2, <1>5, <2>2, <2>4, <2>5
<1>8. CASE ReadForLink(r)
  <2>1. PICK guest \in Threads : /\ guest = ThreadOf("guest")
                                 /\ threads[guest].buyer = "guest"
    BY <1>8 DEF ReadForLink, Has, ThreadOf
  <2>2. CASE Has("account")
    <3>1. PICK account \in Threads : /\ account = ThreadOf("account")
                                     /\ threads[account].buyer = "account"
      BY <2>2 DEF Has, ThreadOf
    <3>2. PICK work : work = [idle EXCEPT !.op = "keeper", !.on = guest,
                                          !.into = account]
      OBVIOUS
    <3>3. Go(r, work) /\ disturbed' = disturbed
      BY <1>4, <1>8, <2>1, <2>2, <3>1, <3>2 DEF ReadForLink, threadHistory
    <3>4. /\ work \in Errand /\ work.op = "keeper" /\ work.on = guest
          /\ work.into = account
      BY <1>4, <2>1, <3>1, <3>2 DEF Errand
    <3>5. CallSound(work)
      BY <2>1, <3>1, <3>4 DEF CallSound
    <3> QED
      BY <1>2, <1>5, <3>3, <3>4, <3>5
  <2>3. CASE ~Has("account")
    <3>1. PICK work : work = [idle EXCEPT !.op = "relabel", !.on = guest,
                                          !.into = 0]
      OBVIOUS
    <3>2. Go(r, work) /\ disturbed' = disturbed
      BY <1>4, <1>8, <2>1, <2>3, <3>1 DEF ReadForLink, threadHistory
    <3>3. work \in Errand /\ work.op = "relabel" /\ work.on = guest
      BY <1>4, <2>1, <3>1 DEF Errand
    <3>4. CallSound(work)
      BY <2>1, <3>3 DEF CallSound
    <3> QED
      BY <1>2, <1>5, <3>2, <3>3, <3>4
  <2> QED
    BY <2>2, <2>3
<1>9. CASE FoldRead(r)
  <2>1. PICK work : work = [e EXCEPT !.op = "fold", !.seen = threads[e.on].list,
                                     !.seenInto = threads[e.into].list]
    OBVIOUS
  <2>2. /\ Goes(r, work) /\ e.op = "keeper" /\ disturbed' = disturbed
        /\ Alive(e.on) /\ Alive(e.into)
    BY <1>3, <1>9, <2>1 DEF FoldRead, threadHistory
  <2>3. /\ e.on \in Threads /\ e.into \in Threads
        /\ threads[e.on].list \in Summary /\ threads[e.into].list \in Summary
    BY <1>2, <1>3, <2>2 DEF CallSound, Thread
  <2>4. /\ work \in Errand /\ work.op = "fold" /\ work.on = e.on
        /\ work.into = e.into /\ work.seen = threads[e.on].list
        /\ work.seenInto = threads[e.into].list
    BY <1>3, <2>1, <2>3 DEF Errand
  <2>5. /\ threads[e.on].list.last <= Len(posts)
        /\ threads[e.into].list.last <= Len(posts)
    BY <2>3 DEF ThreadSound, NewThreads
  <2>6. CallSound(work)
    BY <1>3, <2>2, <2>4, <2>5 DEF CallSound
  <2> QED
    BY <1>2, <1>5, <2>2, <2>4, <2>6
<1>10. CASE FoldMove(r)
  <2>1. PICK work : work = [e EXCEPT !.op = "moved", !.moved = In(e.on)]
    OBVIOUS
  <2>2. Goes(r, work) /\ e.op = "fold" /\ disturbed' = disturbed
    BY <1>3, <1>10, <2>1 DEF FoldMove, threadHistory
  <2>3. In(e.on) \in SUBSET Posts
    BY PostsAre DEF In, ThreadSound
  <2>4. /\ work \in Errand /\ work.op = "moved" /\ work.on = e.on
        /\ work.into = e.into /\ work.moved = In(e.on)
        /\ work.seen = e.seen /\ work.seenInto = e.seenInto
    BY <1>3, <2>1, <2>3 DEF Errand
  <2>5. CallSound(work)
    BY <1>3, <2>2, <2>4 DEF CallSound
  <2> QED
    BY <1>2, <1>5, <2>2, <2>4, <2>5
<1>11. CASE GiveUp(r)
  <2>1. Goes(r, NoCall) /\ disturbed' \subseteq Threads
    BY <1>2, <1>3, <1>11 DEF GiveUp, Ends, CallSound
  <2> QED
    BY <1>4, <1>5, <2>1, NoCallSound
<1>12. ASSUME NEW t \in Threads, NEW side \in Sides, Compose(r, t, side)
       PROVE  ThreadSound'
  <2>1. PICK work : work = [idle EXCEPT !.op = "write", !.on = t, !.side = side]
    OBVIOUS
  <2>2. Go(r, work) /\ disturbed' = disturbed /\ Alive(t)
    BY <1>4, <1>12, <2>1 DEF Compose, threadHistory
  <2>3. work \in Errand /\ work.op = "write" /\ work.on = t
    BY <1>4, <2>1 DEF Errand
  <2>4. CallSound(work)
    BY <2>2, <2>3 DEF CallSound, Alive, Buyers
  <2> QED
    BY <1>2, <1>5, <2>2, <2>3, <2>4
<1>13. ASSUME NEW n \in DOMAIN posts, ReadForUnsend(r, n)
       PROVE  ThreadSound'
  <2>1. PICK t : t = posts[n].thread
    OBVIOUS
  <2>2. PICK work : work = [idle EXCEPT !.op = "unsend", !.on = t, !.post = n]
    OBVIOUS
  <2>3. /\ Go(r, work) /\ disturbed' = disturbed
        /\ t # 0 /\ posts[n].from = "SHOP"
    BY <1>4, <1>13, <2>1, <2>2 DEF ReadForUnsend, threadHistory
  <2>4. n \in Posts /\ t \in 0 .. MaxThreads /\ t \in Threads
        /\ threads[t].buyer \in Buyers
    BY <2>1, <2>3, PostsAre, ThreadBoundsAssumption
    DEF ThreadSound, PostsSound, Post, Threads
  <2>5. /\ work \in Errand /\ work.op = "unsend" /\ work.on = t
        /\ work.post = n
    BY <1>4, <2>2, <2>4 DEF Errand
  <2>6. CallSound(work)
    BY <2>3, <2>4, <2>5 DEF CallSound, Buyers
  <2> QED
    BY <1>2, <1>5, <2>3, <2>5, <2>6
<1> QED
  BY <1>1, <1>6, <1>7, <1>8, <1>9, <1>10, <1>11, <1>12, <1>13

-----------------------------------------------------------------------------
(* A message is written                                                    *)

\* What Put leaves, where it does not find the key.
Written(t, side, key, n) ==
  /\ n = Len(posts) + 1 /\ n \in Posts
  /\ posts' \in Seq(Post) /\ Len(posts') = n
  /\ \A m \in DOMAIN posts : posts'[m] = posts[m]
  /\ posts'[n] = [thread |-> t, from |-> side, key |-> key,
                  isRead |-> FALSE, deleted |-> FALSE]
  /\ threads' \in [Threads -> Thread]
  /\ \A u \in Threads : /\ u # t => threads'[u] = threads[u]
                        /\ threads'[u].buyer = threads[u].buyer
  /\ threads'[t].list.last = n
  /\ threads'[t].list.unread[side] = threads[t].list.unread[side]
  /\ \A other \in Sides : other # side =>
       threads'[t].list.unread[other] = threads[t].list.unread[other] + 1
  /\ threads[t].buyer \in Buyers
  /\ key # NoKey => \A m \in In(t) : posts[m].key # key

LEMMA PutWrites ==
  ASSUME ThreadSound, NEW t \in Threads, NEW side \in Sides, NEW key \in Keys,
         Put(t, side, key)
  PROVE  \/ UNCHANGED <<threads, posts>>
         \/ \E n : Written(t, side, key, n)
<1> SUFFICES ASSUME ~UNCHANGED <<threads, posts>>
             PROVE  Written(t, side, key, Len(posts) + 1)
  OBVIOUS
<1>1. PICK n : n = Len(posts) + 1
  OBVIOUS
<1>2. PICK reader : /\ reader = CHOOSE other \in Sides : other # side
                    /\ reader \in Sides /\ reader # side
                    /\ \A other \in Sides : other # side => other = reader
  BY DEF Sides
<1>3. PICK post : post = [thread |-> t, from |-> side, key |-> key,
                          isRead |-> FALSE, deleted |-> FALSE]
  OBVIOUS
<1>4. PICK was : was = threads[t].list.unread
  OBVIOUS
<1>5. PICK counts : counts = [was EXCEPT ![reader] = @ + 1]
  OBVIOUS
<1>6. PICK list : list = [unread |-> counts, last |-> n, at |-> n]
  OBVIOUS
<1>7. /\ n <= MaxPosts /\ threads[t].buyer \in Buyers
      /\ key # NoKey => \A m \in In(t) : posts[m].key # key
      /\ posts' = Append(posts, post)
  BY <1>1, <1>3 DEF Put, Alive, KeyTaken
<1>8. threads' = [threads EXCEPT ![t].list = list]
  BY <1>1, <1>2, <1>4, <1>5, <1>6 DEF Put
<1>9. /\ posts \in Seq(Post) /\ Len(posts) \in Nat
      /\ DOMAIN posts = 1 .. Len(posts)
      /\ threads \in [Threads -> Thread] /\ MaxPosts \in Nat
      /\ MaxThreads \in Nat
  BY PostsAre, ThreadBoundsAssumption DEF ThreadSound, ThreadTypeOK
<1>10. n \in 1 .. MaxPosts /\ n \in 0 .. MaxPosts
  BY ONLY <1>1, <1>7, <1>9
<1>11. post \in Post
  <2>1. t \in 0 .. MaxThreads
    BY ONLY <1>9, t \in Threads DEF Threads
  <2> QED
    BY <1>3, <2>1 DEF Post
<1>12. /\ posts' \in Seq(Post) /\ Len(posts') = n
       /\ \A m \in DOMAIN posts : posts'[m] = posts[m]
       /\ posts'[n] = post
  BY ONLY <1>1, <1>7, <1>9, <1>11, AppendProperties
<1>13. was \in [Sides -> Nat]
  BY ONLY <1>4, <1>9, t \in Threads DEF Thread, Summary
<1>14. /\ counts \in [Sides -> Nat] /\ counts[reader] = was[reader] + 1
       /\ counts[side] = was[side]
  BY ONLY <1>2, <1>5, <1>13, side \in Sides
<1>15. list \in Summary
  BY <1>6, <1>10, <1>14, ListTyped
<1>16. /\ threads' \in [Threads -> Thread] /\ threads'[t].list = list
       /\ \A u \in Threads : /\ u # t => threads'[u] = threads[u]
                             /\ threads'[u].buyer = threads[u].buyer
  BY <1>8, <1>9, <1>15, ListWritten
<1>17. list.last = n /\ list.unread = counts
  BY <1>6
<1>18. \A other \in Sides : other # side =>
         threads'[t].list.unread[other] = threads[t].list.unread[other] + 1
  BY ONLY <1>2, <1>4, <1>14, <1>16, <1>17
<1>19. threads'[t].list.unread[side] = threads[t].list.unread[side]
  BY ONLY <1>4, <1>14, <1>16, <1>17
<1> QED
  BY ONLY <1>1, <1>3, <1>7, <1>10, <1>12, <1>16, <1>17, <1>18, <1>19
  DEF Written, Posts

\* ... which no key twice, and no call out of its way.
LEMMA WrittenSound ==
  ASSUME ThreadSound, NEW t \in Threads, NEW side \in Sides, NEW key \in Keys,
         key[1] \in {0, t}, NEW n, Written(t, side, key, n),
         calls' \in [Callers -> Errand],
         \A r \in Callers : calls'[r] \in {calls[r], NoCall},
         UNCHANGED <<disturbed, lost>>
  PROVE  ThreadSound'
<1>1. /\ Len(posts) \in Nat /\ DOMAIN posts = 1 .. Len(posts)
      /\ \A m \in DOMAIN posts : posts[m] \in Post
      /\ threads \in [Threads -> Thread] /\ MaxPosts \in Nat
  BY PostsAre, ThreadBoundsAssumption DEF ThreadSound, ThreadTypeOK
<1>2. ThreadTypeOK'
  BY <1>1 DEF ThreadSound, ThreadTypeOK, Written, Posts
<1>3. /\ DOMAIN posts' = 1 .. n /\ n = Len(posts) + 1
      /\ n \notin DOMAIN posts /\ DOMAIN posts' = DOMAIN posts \cup {n}
      /\ \A m \in DOMAIN posts : posts'[m] = posts[m]
      /\ posts'[n].thread = t /\ posts'[n].from = side /\ posts'[n].key = key
  <2>1. DOMAIN posts' = 1 .. n /\ n = Len(posts) + 1
    BY LenProperties DEF Written
  <2> QED
    BY <1>1, <2>1 DEF Written
<1>4. Onwards
  BY <1>1, <1>3 DEF Onwards, Written, Thread
<1>5. CallsSound'
  BY <1>2, <1>4, BlankTyped, NoCallSound, CallsKeep DEF ThreadSound
<1>6. PostsSound'
  <2>1. \A u \in Threads : threads'[u].buyer = threads[u].buyer
    BY DEF Written
  <2>2. \A m \in DOMAIN posts : /\ posts[m].thread \in 0 .. MaxThreads
                                /\ posts[m].key[1] \in 0 .. MaxThreads
    BY <1>1 DEF Post, Keys
  <2>3. \A u \in 0 .. MaxThreads : u # 0 => u \in Threads
    BY ThreadBoundsAssumption DEF Threads
  <2>4. \A m \in DOMAIN posts :
          /\ posts'[m].thread # 0 => threads'[posts'[m].thread].buyer \in Buyers
          /\ posts'[m].key[1] # 0 =>
               \/ posts'[m].thread = posts'[m].key[1]
               \/ threads'[posts'[m].key[1]].buyer = "gone"
    BY <1>3, <2>1, <2>2, <2>3 DEF ThreadSound, PostsSound
  <2>5. threads'[t].buyer \in Buyers
    BY <2>1 DEF Written
  <2> QED
    BY <1>3, <2>4, <2>5 DEF PostsSound
<1>7. NewThreads'
  <2> SUFFICES ASSUME NEW u \in Threads
               PROVE  /\ threads'[u].list.last <= n
                      /\ threads'[u].buyer = "none" => threads'[u].list = Blank
    BY DEF NewThreads, Written
  <2>1. CASE u = t
    BY <1>1, <1>3, <2>1 DEF Written, Buyers
  <2>2. CASE u # t
    <3>1. threads'[u] = threads[u] /\ threads[u].list.last <= Len(posts)
      BY <2>2 DEF Written, ThreadSound, NewThreads
    <3>2. threads[u].list.last \in 0 .. MaxPosts
      BY <1>1 DEF Thread, Summary
    <3> QED
      BY <1>1, <1>3, <3>1, <3>2 DEF ThreadSound, NewThreads
  <2> QED
    BY <2>1, <2>2
<1>8. SentOnce'
  <2>1. ASSUME NEW m \in DOMAIN posts, posts[m].key = key, key \notin {NoKey, PanelKey}
        PROVE  FALSE
    <3>1. key[1] = t /\ t # 0
      BY <2>1, KeysAre DEF Threads
    <3>2. posts[m].thread = t
      BY <2>1, <3>1 DEF ThreadSound, PostsSound, Written, Buyers
    <3> QED
      BY <2>1, <3>2 DEF Written, In
  <2> QED
    BY <1>3, <2>1 DEF ThreadSound, SentOnce
<1> QED
  BY <1>2, <1>5, <1>6, <1>7, <1>8 DEF ThreadSound

LEMMA PutUnkeyedSound ==
  ASSUME ThreadSound, NEW t \in Threads, NEW side \in Sides,
         PutUnkeyed(t, side) \/ PutFromPanel(t)
  PROVE  ThreadSound'
<1>1. PICK from \in Sides, key \in Keys :
        Put(t, from, key) /\ key[1] = 0 /\ UNCHANGED calls
  <2>1. /\ NoKey \in Keys /\ NoKey[1] = 0
        /\ PanelKey \in Keys /\ PanelKey[1] = 0 /\ "SHOP" \in Sides
    BY ThreadBoundsAssumption DEF NoKey, PanelKey, Keys, Sides
  <2> QED
    BY <2>1 DEF PutUnkeyed, PutFromPanel
<1>2. UNCHANGED <<disturbed, lost>>
  BY <1>1 DEF Put, threadHistory
<1>3. calls' \in [Callers -> Errand]
  BY <1>1 DEF ThreadSound, ThreadTypeOK
<1>4. CASE UNCHANGED <<threads, posts>>
  BY <1>1, <1>2, <1>4
  DEF ThreadSound, ThreadTypeOK, CallsSound, CallSound, Alive, In, PostsSound,
      NewThreads, SentOnce
<1>5. CASE \E n : Written(t, from, key, n)
  BY <1>1, <1>2, <1>3, <1>5, WrittenSound
<1> QED
  BY <1>1, <1>4, <1>5, PutWrites

LEMMA WritePostSound ==
  ASSUME ThreadSound, NEW r \in Callers, WritePost(r)
  PROVE  ThreadSound'
<1>1. PICK t \in Threads, side \in Sides, key \in Keys :
        /\ Put(t, side, key) /\ key[1] = t
        /\ calls' = [calls EXCEPT ![r] = NoCall]
  <2>1. PICK e \in Errand : e = calls[r] /\ CallSound(e) /\ e.op = "write"
    BY DEF ThreadSound, ThreadTypeOK, CallsSound, WritePost
  <2>2. e.on \in Threads /\ e.side \in Sides
    BY <2>1 DEF CallSound, Errand
  <2>3. <<e.on, e.side>> \in Keys
    BY <2>2, ThreadBoundsAssumption DEF Keys, Threads
  <2>4. Put(e.on, e.side, <<e.on, e.side>>)
    BY <2>1 DEF WritePost
  <2> QED
    BY <2>2, <2>3, <2>4 DEF WritePost, Ends, Goes
<1>2. UNCHANGED <<disturbed, lost>>
  BY <1>1 DEF Put, threadHistory
<1>3. /\ calls' \in [Callers -> Errand]
      /\ \A s \in Callers : calls'[s] \in {calls[s], NoCall}
  BY <1>1, BlankTyped DEF ThreadSound, ThreadTypeOK
<1>4. CASE UNCHANGED <<threads, posts>>
  BY <1>1, <1>2, <1>4, BlankTyped, NoCallSound, OnlyCalls
  DEF ThreadSound, ThreadTypeOK
<1>5. CASE \E n : Written(t, side, key, n)
  BY <1>1, <1>2, <1>3, <1>5, WrittenSound
<1> QED
  BY <1>1, <1>4, <1>5, PutWrites

-----------------------------------------------------------------------------
(* Badges and marks                                                        *)

\* A step after which every message is where it was, of whom it was, and
\* every thread whose it was.
LEMMA SameRows ==
  ASSUME ThreadSound, ThreadTypeOK',
         Len(posts') = Len(posts),
         \A n \in DOMAIN posts : /\ posts'[n].thread = posts[n].thread
                                 /\ posts'[n].from = posts[n].from
                                 /\ posts'[n].key = posts[n].key,
         \A t \in Threads : /\ threads'[t].buyer = threads[t].buyer
                            /\ \/ threads'[t] = threads[t]
                               \/ /\ threads[t].buyer # "none"
                                  /\ threads'[t].list.last <= Len(posts),
         NEW work \in Errand, CallSound(work)',
         \A r \in Callers : calls'[r] \in {calls[r], work}
  PROVE  ThreadSound'
<1>1. /\ Len(posts) \in Nat /\ DOMAIN posts = 1 .. Len(posts)
      /\ DOMAIN posts' = DOMAIN posts
      /\ \A n \in DOMAIN posts : posts[n] \in Post
      /\ threads \in [Threads -> Thread]
  BY PostsAre DEF ThreadSound, ThreadTypeOK
<1>2. Onwards
  BY <1>1 DEF Onwards, Thread
<1>3. CallsSound'
  BY <1>2, CallsKeep DEF ThreadSound
<1>4. PostsSound'
  <2>1. \A m \in DOMAIN posts : /\ posts[m].thread \in 0 .. MaxThreads
                                /\ posts[m].key[1] \in 0 .. MaxThreads
    BY <1>1 DEF Post, Keys
  <2>2. \A u \in 0 .. MaxThreads : u # 0 => u \in Threads
    BY ThreadBoundsAssumption DEF Threads
  <2> QED
    BY <1>1, <2>1, <2>2 DEF ThreadSound, PostsSound
<1>5. NewThreads'
  BY DEF ThreadSound, NewThreads
<1>6. SentOnce'
  BY <1>1 DEF ThreadSound, SentOnce
<1> QED
  BY <1>3, <1>4, <1>5, <1>6 DEF ThreadSound

\* Of a list, one side's badge is written.
LEMMA BadgeWritten ==
  ASSUME NEW t \in Threads, NEW side \in Sides, NEW count \in Nat,
         threads \in [Threads -> Thread],
         threads' = [threads EXCEPT ![t].list.unread[side] = count]
  PROVE  /\ threads' \in [Threads -> Thread]
         /\ \A u \in Threads : /\ u # t => threads'[u] = threads[u]
                               /\ threads'[u].buyer = threads[u].buyer
         /\ threads'[t].list.last = threads[t].list.last
         /\ threads'[t].list.unread[side] = count
         /\ \A other \in Sides \ {side} :
              threads'[t].list.unread[other] = threads[t].list.unread[other]
<1>1. PICK list \in Summary : list = threads[t].list
  BY DEF Thread
<1>2. PICK unread \in [Sides -> Nat] : unread = list.unread
  BY DEF Summary
<1>3. PICK counts \in [Sides -> Nat] : counts = [unread EXCEPT ![side] = count]
  OBVIOUS
<1>4. PICK new \in Summary : new = [list EXCEPT !.unread = counts]
  BY DEF Summary
<1>8. new.unread = counts /\ new.last = list.last
  BY <1>1, <1>4 DEF Summary
<1>5. new = [list EXCEPT !.unread[side] = count]
  BY <1>2, <1>3, <1>4
<1>6. threads' = [threads EXCEPT ![t].list = new]
  BY <1>1, <1>5
<1>7. /\ threads' \in [Threads -> Thread] /\ threads'[t].list = new
      /\ \A u \in Threads : /\ u # t => threads'[u] = threads[u]
                            /\ threads'[u].buyer = threads[u].buyer
  BY <1>6, ListWritten
<1> QED
  BY <1>1, <1>2, <1>3, <1>7, <1>8

LEMMA BadgeSound ==
  ASSUME ThreadSound, NEW t \in Threads,
         \/ \E r \in Callers, side \in Sides : ResetBadge(r, t, side)
         \/ \E n \in 0 .. 1 : BulkBadge(t, n)
  PROVE  ThreadSound'
<1>1. PICK whose \in Sides, count \in Nat :
        threads' = [threads EXCEPT ![t].list.unread[whose] = count]
  BY DEF ResetBadge, BulkBadge, Sides
<1>2. /\ threads[t].buyer \in Buyers /\ UNCHANGED <<posts, lost>>
      /\ threads \in [Threads -> Thread] /\ disturbed' \subseteq Threads
  BY DEF ResetBadge, BulkBadge, Alive, threadHistory, ThreadSound, ThreadTypeOK
<1>3. /\ threads' \in [Threads -> Thread]
      /\ \A u \in Threads : /\ u # t => threads'[u] = threads[u]
                            /\ threads'[u].buyer = threads[u].buyer
      /\ threads'[t].list.last = threads[t].list.last
  BY <1>1, <1>2, BadgeWritten
<1>4. PICK work \in Errand :
        /\ \A s \in Callers : calls'[s] \in {calls[s], work}
        /\ calls' \in [Callers -> Errand]
        /\ CallSound(work)'
  <2>1. ASSUME NEW r \in Callers, NEW side \in Sides, ResetBadge(r, t, side)
        PROVE  \E work \in Errand :
                 /\ \A s \in Callers : calls'[s] \in {calls[s], work}
                 /\ calls' \in [Callers -> Errand]
                 /\ CallSound(work)'
    <3>1. PICK work : work = [NoCall EXCEPT !.op = "reading", !.on = t,
                                            !.side = side]
      OBVIOUS
    <3>2. calls' = [calls EXCEPT ![r] = work]
      BY <2>1, <3>1 DEF ResetBadge, Go
    <3>3. t \in 0 .. MaxThreads
      BY ThreadBoundsAssumption DEF Threads
    <3>4. work \in Errand /\ work.op = "reading" /\ work.on = t
      BY <3>1, <3>3, BlankTyped DEF Errand
    <3>5. CallSound(work)'
      BY <1>2, <1>3, <3>4 DEF CallSound, Buyers
    <3> QED
      BY <3>2, <3>4, <3>5 DEF ThreadSound, ThreadTypeOK
  <2>2. CASE \E n \in 0 .. 1 : BulkBadge(t, n)
    BY <2>2, BlankTyped, NoCallSound DEF BulkBadge, ThreadSound, ThreadTypeOK
  <2> QED
    BY <2>1, <2>2
<1>5. ThreadTypeOK'
  BY <1>2, <1>3, <1>4 DEF ThreadSound, ThreadTypeOK
<1>6. \A u \in Threads : /\ threads'[u].buyer = threads[u].buyer
                         /\ \/ threads'[u] = threads[u]
                            \/ /\ threads[u].buyer # "none"
                               /\ threads'[u].list.last <= Len(posts)
  BY <1>2, <1>3 DEF ThreadSound, NewThreads, Buyers
<1> QED
  BY <1>2, <1>4, <1>5, <1>6, SameRows

\* Messages are marked where they are.
LEMMA Marked ==
  ASSUME ThreadSound, NEW r \in Callers, MarkRows(r) \/ Withdraw(r)
  PROVE  /\ posts' \in Seq(Post) /\ Len(posts') = Len(posts)
         /\ \A n \in DOMAIN posts : /\ posts'[n].thread = posts[n].thread
                                    /\ posts'[n].from = posts[n].from
                                    /\ posts'[n].key = posts[n].key
<1>1. /\ posts \in Seq(Post)
      /\ \A n \in DOMAIN posts : posts[n] \in Post
  BY PostsAre DEF ThreadSound, ThreadTypeOK
<1>2. posts' = [n \in DOMAIN posts |-> posts'[n]]
  <2>1. posts = [n \in DOMAIN posts |-> posts[n]]
    BY <1>1, LenProperties
  <2> QED
    BY <2>1 DEF MarkRows, Withdraw
<1>3. \A n \in DOMAIN posts :
        posts'[n] \in {posts[n], [posts[n] EXCEPT !.isRead = TRUE],
                       [posts[n] EXCEPT !.deleted = TRUE]}
  <2>1. CASE MarkRows(r)
    BY <2>1 DEF MarkRows
  <2>2. CASE Withdraw(r)
    BY <2>2 DEF Withdraw
  <2> QED
    BY <2>1, <2>2
<1>4. ASSUME NEW n \in DOMAIN posts
      PROVE  /\ posts'[n] \in Post /\ posts'[n].thread = posts[n].thread
             /\ posts'[n].from = posts[n].from /\ posts'[n].key = posts[n].key
  <2>1. PICK post : post = posts[n] /\ post \in Post
    BY <1>1
  <2>2. posts'[n] \in {post, [post EXCEPT !.isRead = TRUE],
                       [post EXCEPT !.deleted = TRUE]}
    BY <1>3, <2>1
  <2> QED
    BY <2>1, <2>2 DEF Post
<1> QED
  BY <1>1, <1>2, <1>4, InPlace

LEMMA MarkedSound ==
  ASSUME ThreadSound, NEW r \in Callers, MarkRows(r) \/ Withdraw(r)
  PROVE  ThreadSound'
<1>1. PICK e \in Errand : e = calls[r] /\ CallSound(e)
  BY DEF ThreadSound, ThreadTypeOK, CallsSound
<1>2. /\ posts' \in Seq(Post) /\ Len(posts') = Len(posts)
      /\ \A n \in DOMAIN posts : /\ posts'[n].thread = posts[n].thread
                                 /\ posts'[n].from = posts[n].from
                                 /\ posts'[n].key = posts[n].key
  BY Marked
<1>3. UNCHANGED <<threads, lost>>
  BY DEF MarkRows, Withdraw
<1>4. disturbed' \subseteq Threads
  <2>1. CASE MarkRows(r)
    BY <1>1, <2>1 DEF MarkRows, CallSound, ThreadSound, ThreadTypeOK
  <2>2. CASE Withdraw(r)
    <3>1. e.post \in DOMAIN posts /\ posts[e.post].thread # 0
      BY <1>1, <2>2 DEF Withdraw, CallSound
    <3>2. posts[e.post].thread \in 0 .. MaxThreads
      BY <3>1, PostsAre DEF ThreadSound, Post
    <3>3. posts[e.post].thread \in Threads
      BY <3>1, <3>2, ThreadBoundsAssumption DEF Threads
    <3> QED
      BY <1>1, <2>2, <3>3 DEF Withdraw, ThreadSound, ThreadTypeOK
  <2> QED
    BY <2>1, <2>2
<1>5. PICK work \in Errand : /\ calls' = [calls EXCEPT ![r] = work]
                             /\ CallSound(work)'
  <2>1. CASE MarkRows(r)
    BY <2>1, BlankTyped, NoCallSound DEF MarkRows, Ends, Goes
  <2>2. CASE Withdraw(r)
    <3>1. PICK work : work = [e EXCEPT !.op = "withdrawn"]
      OBVIOUS
    <3>2. calls' = [calls EXCEPT ![r] = work]
      BY <1>1, <2>2, <3>1 DEF Withdraw, Goes
    <3>3. work \in Errand /\ work.op = "withdrawn" /\ work.on = e.on
      BY <1>1, <3>1 DEF Errand
    <3>4. e.op = "unsend"
      BY <1>1, <2>2 DEF Withdraw
    <3>5. CallSound(work)'
      BY <1>1, <1>3, <3>3, <3>4 DEF CallSound
    <3> QED
      BY <3>2, <3>3, <3>5
  <2> QED
    BY <2>1, <2>2
<1>6. ThreadTypeOK'
  BY <1>2, <1>3, <1>4, <1>5 DEF ThreadSound, ThreadTypeOK
<1>7. \A s \in Callers : calls'[s] \in {calls[s], work}
  BY <1>5 DEF ThreadSound, ThreadTypeOK
<1> QED
  BY <1>2, <1>3, <1>5, <1>6, <1>7, SameRows

LEMMA RefreshSound ==
  ASSUME ThreadSound, NEW r \in Callers, RefreshPreview(r)
  PROVE  ThreadSound'
<1>1. PICK e \in Errand : /\ e = calls[r] /\ CallSound(e)
                          /\ e.op = "counted"
  BY DEF ThreadSound, ThreadTypeOK, CallsSound, RefreshPreview
<1>2. PICK t \in Threads : t = e.on
  BY <1>1 DEF CallSound
<1>3. /\ threads[t].buyer \in Buyers /\ UNCHANGED <<posts, lost>>
      /\ threads \in [Threads -> Thread] /\ disturbed' \subseteq Threads
      /\ calls' = [calls EXCEPT ![r] = NoCall]
  BY <1>1, <1>2
  DEF RefreshPreview, Alive, Ends, Goes, ThreadSound, ThreadTypeOK
<1>4. PICK list \in Summary : list = threads[t].list
  BY <1>3 DEF Thread
<1>5. PICK was \in [Sides -> Nat] : was = list.unread
  BY DEF Summary
<1>6. PICK counts \in [Sides -> Nat] :
        counts = [was EXCEPT !["CUSTOMER"] = e.count]
  BY <1>1 DEF Errand
<1>7. PICK at \in 0 .. MaxPosts : at = IF e.post = 0 THEN list.at ELSE e.post
  BY <1>1 DEF Errand, Summary
<1>8. PICK new : new = [unread |-> counts, last |-> e.post, at |-> at]
  OBVIOUS
<1>9. new \in Summary /\ new.last = e.post
  BY <1>8, ListTyped DEF Errand
<1>10. threads' = [threads EXCEPT ![t].list = new]
  BY <1>1, <1>2, <1>4, <1>5, <1>6, <1>7, <1>8 DEF RefreshPreview
<1>11. /\ threads' \in [Threads -> Thread] /\ threads'[t].list = new
       /\ \A u \in Threads : /\ u # t => threads'[u] = threads[u]
                             /\ threads'[u].buyer = threads[u].buyer
  BY <1>3, <1>9, <1>10, ListWritten
<1>12. ThreadTypeOK' /\ \A s \in Callers : calls'[s] \in {calls[s], NoCall}
  BY <1>3, <1>11, BlankTyped DEF ThreadSound, ThreadTypeOK
<1>13. \A u \in Threads : /\ threads'[u].buyer = threads[u].buyer
                          /\ \/ threads'[u] = threads[u]
                             \/ /\ threads[u].buyer # "none"
                                /\ threads'[u].list.last <= Len(posts)
  BY <1>1, <1>3, <1>9, <1>11 DEF CallSound, Buyers
<1> QED
  BY <1>3, <1>12, <1>13, BlankTyped, NoCallSound, SameRows

-----------------------------------------------------------------------------
(* Whose a thread is                                                       *)

\* A thread is given a buyer: one is made, or the guest's is the account's.
LEMMA BuyerSound ==
  ASSUME ThreadSound, NEW t \in Threads, NEW buyer \in Buyers,
         \/ MakeThread(t, buyer)
         \/ \E r \in Callers : Relabel(r) /\ t = calls[r].on /\ buyer = "account"
  PROVE  ThreadSound'
<1>1. /\ threads \in [Threads -> Thread]
      /\ threads' = [threads EXCEPT ![t].buyer = buyer]
      /\ UNCHANGED <<posts, disturbed, lost>>
      /\ \/ threads[t].buyer = "none"
         \/ threads[t].buyer = "guest" /\ ~Has("account")
  BY DEF MakeThread, Relabel, threadHistory, ThreadSound, ThreadTypeOK
<1>2. /\ threads' \in [Threads -> Thread] /\ threads'[t].buyer = buyer
      /\ \A u \in Threads : /\ u # t => threads'[u] = threads[u]
                            /\ threads'[u].list = threads[u].list
  BY <1>1 DEF Thread
<1>3. /\ \A s \in Callers : calls'[s] \in {calls[s], NoCall}
      /\ calls' \in [Callers -> Errand]
  BY BlankTyped DEF MakeThread, Relabel, Ends, Goes, ThreadSound, ThreadTypeOK
<1>4. ThreadTypeOK'
  BY <1>1, <1>2, <1>3 DEF ThreadSound, ThreadTypeOK
<1>5. /\ Len(posts) \in Nat /\ DOMAIN posts = 1 .. Len(posts)
      /\ \A n \in DOMAIN posts : posts[n] \in Post
  BY PostsAre DEF ThreadSound
<1>6. Onwards
  BY <1>1, <1>2, <1>5 DEF Onwards, Thread, Buyers
<1>7. CallsSound'
  BY <1>3, <1>4, <1>6, BlankTyped, NoCallSound, CallsKeep DEF ThreadSound
<1>8. PostsSound'
  <2>1. \A m \in DOMAIN posts : /\ posts[m].thread \in 0 .. MaxThreads
                                /\ posts[m].key[1] \in 0 .. MaxThreads
    BY <1>5 DEF Post, Keys
  <2>2. \A u \in 0 .. MaxThreads : u # 0 => u \in Threads
    BY ThreadBoundsAssumption DEF Threads
  <2> QED
    BY <1>1, <1>2, <2>1, <2>2 DEF ThreadSound, PostsSound
<1>9. NewThreads' /\ SentOnce'
  BY <1>1, <1>2 DEF ThreadSound, NewThreads, SentOnce, Buyers
<1> QED
  BY <1>4, <1>7, <1>8, <1>9 DEF ThreadSound

-----------------------------------------------------------------------------
(* The guest's thread goes                                                 *)

\* What the commit of a fold leaves: the messages of the guest's thread are
\* in the account's, or in none.
Gone(e) ==
  /\ e \in Errand /\ e.op = "moved" /\ CallSound(e)
  /\ e.on \in Threads /\ threads[e.on].buyer = "guest"
  /\ e.into \in Threads /\ threads[e.into].buyer = "account"
  /\ e.moved \subseteq In(e.on)
  /\ threads' \in [Threads -> Thread]
  /\ \A u \in Threads \ {e.on, e.into} : threads'[u] = threads[u]
  /\ threads'[e.on] = [buyer |-> "gone", list |-> Blank]
  /\ threads'[e.into] = [buyer |-> "account",
                         list |-> Folded(e.seenInto, e.seen)]
  /\ posts' \in Seq(Post) /\ Len(posts') = Len(posts)
  /\ \A n \in DOMAIN posts :
       /\ posts'[n].from = posts[n].from /\ posts'[n].key = posts[n].key
       /\ posts'[n].isRead = posts[n].isRead
       /\ posts'[n].deleted = posts[n].deleted
       /\ posts[n].thread # e.on => posts'[n].thread = posts[n].thread
       /\ n \in e.moved => posts'[n].thread = e.into
       /\ posts[n].thread = e.on /\ n \notin e.moved => posts'[n].thread = 0

LEMMA FoldedTyped ==
  ASSUME NEW kept \in Summary, NEW folded \in Summary
  PROVE  /\ Folded(kept, folded) \in Summary
         /\ Folded(kept, folded).last \in {kept.last, folded.last}
         /\ \A side \in Sides : Folded(kept, folded).unread[side]
                                = kept.unread[side] + folded.unread[side]
<1>1. /\ kept.unread \in [Sides -> Nat] /\ folded.unread \in [Sides -> Nat]
      /\ kept.last \in 0 .. MaxPosts /\ folded.last \in 0 .. MaxPosts
      /\ kept.at \in 0 .. MaxPosts /\ folded.at \in 0 .. MaxPosts
  BY DEF Summary
<1>2. PICK newer \in {kept, folded} :
        newer = IF folded.at > kept.at THEN folded ELSE kept
  OBVIOUS
<1>3. PICK counts : counts = AddUp(kept, folded)
  OBVIOUS
<1>4. /\ counts \in [Sides -> Nat]
      /\ \A side \in Sides : counts[side]
                             = kept.unread[side] + folded.unread[side]
  BY <1>1, <1>3 DEF AddUp
<1>5. Folded(kept, folded)
        = [unread |-> counts, last |-> newer.last, at |-> newer.at]
  BY <1>2, <1>3 DEF Folded
<1>6. newer.last \in 0 .. MaxPosts /\ newer.at \in 0 .. MaxPosts
  BY <1>1, <1>2
<1> QED
  BY <1>2, <1>4, <1>5, <1>6, ListTyped

LEMMA FoldGoes ==
  ASSUME ThreadSound, NEW r \in Callers, FoldCommit(r)
  PROVE  Gone(calls[r])
<1>1. PICK e \in Errand : e = calls[r] /\ CallSound(e) /\ e.op = "moved"
  BY DEF ThreadSound, ThreadTypeOK, CallsSound, FoldCommit
<1>2. /\ e.on \in Threads /\ threads[e.on].buyer = "guest" /\ Alive(e.on)
      /\ e.into \in Threads /\ threads[e.into].buyer = "account"
      /\ e.moved \subseteq In(e.on)
  BY <1>1 DEF CallSound, FoldCommit, Alive, Buyers
<1>3. PICK list \in Summary : list = Folded(e.seenInto, e.seen)
  BY FoldedTyped DEF Errand
<1>4. threads' = [threads EXCEPT ![e.into].list = list,
                                 ![e.on] = [buyer |-> "gone", list |-> Blank]]
  BY <1>1, <1>3 DEF FoldCommit
<1>5. threads \in [Threads -> Thread]
  BY DEF ThreadSound, ThreadTypeOK
<1>6. [buyer |-> "gone", list |-> Blank] \in Thread
  BY BlankTyped DEF Thread
<1>7. /\ threads' \in [Threads -> Thread]
      /\ \A u \in Threads \ {e.on, e.into} : threads'[u] = threads[u]
      /\ threads'[e.on] = [buyer |-> "gone", list |-> Blank]
      /\ threads'[e.into] = [buyer |-> "account", list |-> list]
  <2>1. [threads[e.into] EXCEPT !.list = list]
          = [buyer |-> "account", list |-> list]
    BY <1>2, <1>5 DEF Thread
  <2>2. [buyer |-> "account", list |-> list] \in Thread
    BY DEF Thread, Buyers
  <2> QED
    BY <1>2, <1>4, <1>5, <1>6, <2>1, <2>2
<1>8. posts' = [n \in DOMAIN posts |->
                  CASE n \in e.moved -> [posts[n] EXCEPT !.thread = e.into]
                    [] n \in In(e.on) \ e.moved ->
                         [posts[n] EXCEPT !.thread = 0]
                    [] OTHER -> posts[n]]
  BY <1>1 DEF FoldCommit
<1>9. \A n \in DOMAIN posts : posts[n] \in Post
  BY PostsAre DEF ThreadSound
<1>10. ASSUME NEW n \in DOMAIN posts
       PROVE  /\ posts'[n] \in Post
              /\ posts'[n].from = posts[n].from /\ posts'[n].key = posts[n].key
              /\ posts'[n].isRead = posts[n].isRead
              /\ posts'[n].deleted = posts[n].deleted
              /\ posts[n].thread # e.on => posts'[n].thread = posts[n].thread
              /\ n \in e.moved => posts'[n].thread = e.into
              /\ posts[n].thread = e.on /\ n \notin e.moved =>
                   posts'[n].thread = 0
  <2>1. PICK post \in Post : post = posts[n]
    BY <1>9
  <2>2. e.into \in 0 .. MaxThreads /\ 0 \in 0 .. MaxThreads
    BY <1>1, ThreadBoundsAssumption DEF Errand
  <2>3. CASE n \in e.moved
    <3>1. posts'[n] = [post EXCEPT !.thread = e.into] /\ post.thread = e.on
      BY <1>2, <1>8, <2>1, <2>3 DEF In
    <3> QED
      BY <2>1, <2>2, <2>3, <3>1 DEF Post
  <2>4. CASE n \in In(e.on) \ e.moved
    <3>1. posts'[n] = [post EXCEPT !.thread = 0] /\ post.thread = e.on
      BY <1>8, <2>1, <2>4 DEF In
    <3> QED
      BY <2>1, <2>2, <2>4, <3>1 DEF Post
  <2>5. CASE n \notin e.moved /\ n \notin In(e.on)
    <3>1. posts'[n] = post /\ post.thread # e.on
      BY <1>8, <2>1, <2>5 DEF In
    <3> QED
      BY <2>1, <2>5, <3>1
  <2> QED
    BY <2>3, <2>4, <2>5
<1>11. posts' = [n \in DOMAIN posts |-> posts'[n]]
  BY <1>8
<1>12. posts' \in Seq(Post) /\ Len(posts') = Len(posts)
  BY <1>10, <1>11, InPlace DEF ThreadSound, ThreadTypeOK
<1> QED
  BY <1>1, <1>2, <1>3, <1>7, <1>10, <1>12 DEF Gone

LEMMA FoldSound ==
  ASSUME ThreadSound, NEW r \in Callers, FoldCommit(r)
  PROVE  ThreadSound'
<1>1. PICK e : e = calls[r] /\ Gone(e)
  BY FoldGoes
<1>2. /\ Len(posts) \in Nat /\ DOMAIN posts = 1 .. Len(posts)
      /\ \A n \in DOMAIN posts : posts[n] \in Post
      /\ threads \in [Threads -> Thread] /\ calls \in [Callers -> Errand]
  BY PostsAre DEF ThreadSound, ThreadTypeOK
<1>3. DOMAIN posts' = DOMAIN posts
  BY <1>1, <1>2, LenProperties DEF Gone
<1>4. /\ calls' = [calls EXCEPT ![r] = NoCall]
      /\ lost' = lost \cup (In(e.on) \ e.moved)
      /\ disturbed' \subseteq disturbed \cup {e.into}
  BY <1>1 DEF FoldCommit, Ends, Goes
<1>5. ThreadTypeOK'
  <2>1. In(e.on) \subseteq Posts
    BY PostsAre DEF In, ThreadSound
  <2> QED
    BY <1>1, <1>2, <1>4, <2>1, BlankTyped DEF ThreadSound, ThreadTypeOK, Gone
<1>6. Onwards
  <2>1. \A t \in Threads :
          /\ threads[t].buyer # "none" => threads'[t].buyer # "none"
          /\ threads[t].buyer = "gone" => threads'[t].buyer = "gone"
          /\ threads[t].buyer = "account" => threads'[t].buyer = "account"
          /\ threads[t].buyer = "guest" => threads'[t].buyer \in {"guest", "gone"}
    BY <1>1 DEF Gone
  <2>2. ASSUME NEW t \in Threads, threads[t].buyer = "guest",
               threads'[t].buyer = "guest", NEW n \in DOMAIN posts
        PROVE  posts'[n].thread = t <=> posts[n].thread = t
    <3>1. t # e.on /\ t # e.into /\ t # 0
      BY <1>1, <2>2, ThreadBoundsAssumption DEF Gone, Threads
    <3>2. posts'[n].thread \in {posts[n].thread, e.into, 0}
      BY <1>1 DEF Gone
    <3> QED
      BY <1>1, <3>1, <3>2 DEF Gone
  <2> QED
    BY <1>1, <1>2, <1>3, <2>1, <2>2 DEF Onwards, Gone
<1>7. CallsSound'
  <2>1. \A s \in Callers : calls'[s] \in {calls[s], NoCall}
    BY <1>2, <1>4
  <2> QED
    BY <1>5, <1>6, <2>1, BlankTyped, NoCallSound, CallsKeep DEF ThreadSound
<1>8. PostsSound'
  <2> SUFFICES ASSUME NEW n \in DOMAIN posts
               PROVE  /\ posts'[n].thread # 0 =>
                           threads'[posts'[n].thread].buyer \in Buyers
                      /\ posts'[n].key[1] # 0 =>
                           \/ posts'[n].thread = posts'[n].key[1]
                           \/ threads'[posts'[n].key[1]].buyer = "gone"
    BY <1>3 DEF PostsSound
  <2>1. /\ posts[n].thread \in 0 .. MaxThreads
        /\ posts[n].key[1] \in 0 .. MaxThreads
    BY <1>2 DEF Post, Keys
  <2>2. \A u \in 0 .. MaxThreads : u # 0 => u \in Threads
    BY ThreadBoundsAssumption DEF Threads
  <2>3. /\ posts[n].thread # 0 => threads[posts[n].thread].buyer \in Buyers
        /\ posts[n].key[1] # 0 =>
             \/ posts[n].thread = posts[n].key[1]
             \/ threads[posts[n].key[1]].buyer = "gone"
    BY DEF ThreadSound, PostsSound
  <2>4. \A u \in Threads : threads[u].buyer = "gone" => threads'[u].buyer = "gone"
    BY <1>6 DEF Onwards
  <2>5. threads'[e.into].buyer = "account" /\ threads'[e.on].buyer = "gone"
    BY <1>1 DEF Gone
  <2>6. CASE posts[n].thread # e.on
    <3>1. posts'[n].thread = posts[n].thread /\ posts'[n].key = posts[n].key
      BY <1>1, <2>6 DEF Gone
    <3>2. \A u \in Threads : u # e.on => threads'[u].buyer = threads[u].buyer
      BY <1>1 DEF Gone
    <3> QED
      BY <2>1, <2>2, <2>3, <2>4, <2>6, <3>1, <3>2
  <2>7. CASE posts[n].thread = e.on
    <3>1. posts'[n].thread \in {e.into, 0} /\ posts'[n].key = posts[n].key
      BY <1>1, <2>7 DEF Gone
    <3> QED
      BY <2>1, <2>2, <2>3, <2>4, <2>5, <2>7, <3>1 DEF Buyers
  <2> QED
    BY <2>6, <2>7
<1>9. NewThreads'
  <2> SUFFICES ASSUME NEW u \in Threads
               PROVE  /\ threads'[u].list.last <= Len(posts)
                      /\ threads'[u].buyer = "none" => threads'[u].list = Blank
    BY <1>1 DEF NewThreads, Gone
  <2>1. CASE u = e.on
    BY <1>1, <1>2, <2>1 DEF Gone, Blank
  <2>2. CASE u = e.into /\ u # e.on
    <3>1. /\ e.seen.last <= Len(posts) /\ e.seenInto.last <= Len(posts)
          /\ e.seen \in Summary /\ e.seenInto \in Summary
      BY <1>1 DEF Gone, CallSound, Errand
    <3> QED
      BY <1>1, <2>2, <3>1, FoldedTyped DEF Gone
  <2>3. CASE u \notin {e.on, e.into}
    BY <1>1, <2>3 DEF Gone, ThreadSound, NewThreads
  <2> QED
    BY <2>1, <2>2, <2>3
<1>10. SentOnce'
  BY <1>1, <1>3 DEF ThreadSound, SentOnce, Gone
<1> QED
  BY <1>5, <1>7, <1>8, <1>9, <1>10 DEF ThreadSound

LEMMA ThreadStepSound ==
  ASSUME ThreadSound, [ThreadNext]_threadVars
  PROVE  ThreadSound'
<1>1. CASE UNCHANGED threadVars
  BY <1>1
  DEF threadVars, ThreadSound, ThreadTypeOK, CallsSound, CallSound, Alive, In,
      PostsSound, NewThreads, SentOnce
<1>2. ASSUME NEW t \in Threads, PutFromPanel(t) PROVE ThreadSound'
  BY <1>2, PutUnkeyedSound DEF Sides
<1>3. ASSUME NEW t \in Threads, NEW buyer \in Buyers, MakeThread(t, buyer)
      PROVE  ThreadSound'
  BY <1>3, BuyerSound
<1>4. ASSUME NEW t \in Threads, NEW side \in Sides, PutUnkeyed(t, side)
      PROVE  ThreadSound'
  BY <1>4, PutUnkeyedSound
<1>5. ASSUME NEW t \in Threads, NEW n \in 0 .. 1, BulkBadge(t, n)
      PROVE  ThreadSound'
  BY <1>5, BadgeSound
<1>6. CASE CallStep
  BY <1>6, CallStepSound
<1>7. ASSUME NEW r \in Callers, WritePost(r) PROVE ThreadSound'
  BY <1>7, WritePostSound
<1>8. ASSUME NEW r \in Callers, MarkRows(r) \/ Withdraw(r) PROVE ThreadSound'
  BY <1>8, MarkedSound
<1>9. ASSUME NEW r \in Callers, RefreshPreview(r) PROVE ThreadSound'
  BY <1>9, RefreshSound
<1>10. ASSUME NEW r \in Callers, Relabel(r) PROVE ThreadSound'
  <2>1. PICK t : t = calls[r].on
    OBVIOUS
  <2>2. t \in Threads
    BY <1>10, <2>1 DEF Relabel, ThreadSound, CallsSound, CallSound
  <2> QED
    BY <1>10, <2>1, <2>2, BuyerSound DEF Buyers
<1>11. ASSUME NEW r \in Callers, FoldCommit(r) PROVE ThreadSound'
  BY <1>11, FoldSound
<1>12. ASSUME NEW r \in Callers, NEW t \in Threads, NEW side \in Sides,
              ResetBadge(r, t, side)
       PROVE  ThreadSound'
  BY <1>12, BadgeSound
<1> QED
  BY <1>1, <1>2, <1>3, <1>4, <1>5, <1>6, <1>7, <1>8, <1>9, <1>10, <1>11, <1>12
  DEF ThreadNext, CallStep

\* A composer that tries again with its key has its message in the thread once
\* (postMessage's look-up by clientKey, the unique index on thread and key, and
\* the fold, which moves messages with their keys), whatever calls overlap.
THEOREM OnceSent == ThreadSpec => []SentOnce
<1>1. ThreadSound => SentOnce
  BY DEF ThreadSound
<1> QED
  BY <1>1, ThreadInitSound, ThreadStepSound, PTL DEF ThreadSpec

-----------------------------------------------------------------------------
(* What the lists say                                                      *)

Reading(t, side) ==
  \E r \in Callers : /\ calls[r].op = "reading" /\ calls[r].on = t
                     /\ calls[r].side = side

Withdrawing(t) ==
  \E r \in Callers : /\ calls[r].op \in {"withdrawn", "latest", "counted"}
                     /\ calls[r].on = t

Shown(t) == {n \in In(t) : ~posts[n].deleted}

\* A badge is right unless its messages are still being marked, and the
\* preview unless a message has just been taken back.  In the guest's thread,
\* into which nothing is folded, the preview shows the newest message: so
\* what comes in after a fold has looked is newer than what it saw.
ListSound(t) ==
  LET list == threads[t].list IN
  /\ \A side \in Sides :
       \/ list.unread[side] = Cardinality(Unread(t, side))
       \/ Reading(t, side)
       \/ side = "CUSTOMER" /\ Withdrawing(t)
  /\ list.last # 0 => list.last \in Shown(t) \/ Withdrawing(t)
  /\ threads[t].buyer = "guest" =>
       \/ \A n \in Shown(t) : n <= list.last
       \/ Withdrawing(t)

ListsSound == \A t \in Threads \ disturbed : Alive(t) => ListSound(t)

\* Nothing of what is halfway in a thread is over.
Stays(t) == /\ \A side \in Sides : Reading(t, side) => Reading(t, side)'
            /\ Withdrawing(t) => Withdrawing(t)'

LEMMA WorkStays ==
  ASSUME calls \in [Callers -> Errand], NEW r \in Callers, NEW work,
         calls' = [calls EXCEPT ![r] = work], NEW t,
         \/ calls[r].on # t
         \/ calls[r].op \notin {"reading", "withdrawn", "latest", "counted"}
         \/ /\ work.on = t /\ calls[r].op # "reading"
            /\ work.op \in {"withdrawn", "latest", "counted"}
  PROVE  Stays(t)
<1>1. \A s \in Callers : s # r => calls'[s] = calls[s]
  OBVIOUS
<1>2. calls'[r] = work
  OBVIOUS
<1>3. ASSUME NEW side \in Sides, Reading(t, side)
      PROVE  Reading(t, side)'
  <2>1. PICK s \in Callers : /\ calls[s].op = "reading" /\ calls[s].on = t
                             /\ calls[s].side = side
    BY <1>3 DEF Reading
  <2>2. s # r
    BY <2>1
  <2> QED
    BY <1>1, <2>1, <2>2 DEF Reading
<1>4. ASSUME Withdrawing(t) PROVE Withdrawing(t)'
  <2>1. PICK s \in Callers :
          /\ calls[s].op \in {"withdrawn", "latest", "counted"}
          /\ calls[s].on = t
    BY <1>4 DEF Withdrawing
  <2>2. CASE s # r
    BY <1>1, <2>1, <2>2 DEF Withdrawing
  <2>3. CASE s = r
    BY <1>2, <2>1, <2>3 DEF Withdrawing
  <2> QED
    BY <2>2, <2>3
<1> QED
  BY <1>3, <1>4 DEF Stays

LEMMA CallsSame ==
  ASSUME calls' = calls, NEW t PROVE Stays(t)
  BY DEF Stays, Reading, Withdrawing

\* A thread to which nothing is done.
LEMMA ListStays ==
  ASSUME NEW t \in Threads, ListSound(t), Stays(t),
         threads'[t].list = threads[t].list,
         threads'[t].buyer = "guest" => threads[t].buyer = "guest",
         In(t)' = In(t),
         \A n \in In(t) : /\ posts'[n].from = posts[n].from
                          /\ posts'[n].isRead = posts[n].isRead
                          /\ posts'[n].deleted = posts[n].deleted
  PROVE  ListSound(t)'
<1>1. \A side \in Sides : Unread(t, side)' = Unread(t, side)
  BY DEF Unread
<1>2. Shown(t)' = Shown(t)
  BY DEF Shown
<1> QED
  BY <1>1, <1>2 DEF ListSound, Stays

LEMMA CallListsSound ==
  ASSUME ThreadSound, ListsSound, CallStep PROVE ListsSound'
<1> SUFFICES ASSUME NEW t \in Threads \ disturbed', Alive(t)'
             PROVE  ListSound(t)'
  BY DEF ListsSound
<1>1. PICK r \in Callers :
        \/ FindLatest(r) \/ CountUnread(r) \/ ReadForLink(r) \/ FoldRead(r)
        \/ FoldMove(r) \/ GiveUp(r)
        \/ \E u \in Threads, side \in Sides : Compose(r, u, side)
        \/ \E n \in DOMAIN posts : ReadForUnsend(r, n)
  BY DEF CallStep
<1>2. /\ UNCHANGED <<threads, posts>> /\ t \notin disturbed
      /\ calls \in [Callers -> Errand]
  BY <1>1
  DEF FindLatest, CountUnread, ReadForLink, FoldRead, FoldMove, GiveUp, Compose,
      ReadForUnsend, listings, threadHistory, ThreadSound, ThreadTypeOK
<1>3. ListSound(t)
  BY <1>2 DEF ListsSound, Alive
<1>4. Stays(t)
  <2>1. CASE FindLatest(r) \/ CountUnread(r)
    <3>1. PICK work : /\ calls' = [calls EXCEPT ![r] = work]
                      /\ work.on = calls[r].on
                      /\ work.op \in {"latest", "counted"}
      <4>1. PICK e \in Errand : e = calls[r]
        BY <1>2
      <4>2. CASE FindLatest(r)
        <5>1. PICK work : work = [e EXCEPT !.op = "latest",
                                           !.post = Latest(e.on)]
          OBVIOUS
        <5>2. work.on = e.on /\ work.op = "latest"
          BY <5>1 DEF Errand
        <5>3. calls' = [calls EXCEPT ![r] = work]
          BY <4>1, <4>2, <5>1 DEF FindLatest, Goes
        <5> QED
          BY <4>1, <5>2, <5>3
      <4>3. CASE CountUnread(r)
        <5>1. PICK work : work = [e EXCEPT !.op = "counted",
                                           !.count = Cardinality(ToRead(e.on))]
          OBVIOUS
        <5>2. work.on = e.on /\ work.op = "counted"
          BY <5>1 DEF Errand
        <5>3. calls' = [calls EXCEPT ![r] = work]
          BY <4>1, <4>3, <5>1 DEF CountUnread, Goes
        <5> QED
          BY <4>1, <5>2, <5>3
      <4> QED
        BY <2>1, <4>2, <4>3
    <3>2. calls[r].op # "reading"
      BY <2>1 DEF FindLatest, CountUnread
    <3> QED
      BY <1>2, <3>1, <3>2, WorkStays
  <2>2. CASE ~(FindLatest(r) \/ CountUnread(r))
    <3>1. \E work : calls' = [calls EXCEPT ![r] = work]
      BY <1>1, <2>2
      DEF ReadForLink, FoldRead, FoldMove, GiveUp, Compose, ReadForUnsend, Go,
          Goes, Ends
    <3>2. \/ calls[r].on # t
          \/ calls[r].op \notin {"reading", "withdrawn", "latest", "counted"}
      <4>1. CASE GiveUp(r)
        BY <4>1 DEF GiveUp
      <4>2. NoCall.op = "idle"
        BY DEF NoCall
      <4>3. CASE FoldRead(r) \/ FoldMove(r)
        BY <4>3 DEF FoldRead, FoldMove
      <4>4. CASE \/ ReadForLink(r)
                 \/ \E u \in Threads, side \in Sides : Compose(r, u, side)
                 \/ \E n \in DOMAIN posts : ReadForUnsend(r, n)
        <5>1. calls[r] = NoCall
          BY <4>4 DEF ReadForLink, Compose, ReadForUnsend, Go
        <5> QED
          BY <4>2, <5>1
      <4> QED
        BY <1>1, <2>2, <4>1, <4>3, <4>4
    <3> QED
      BY <1>2, <3>1, <3>2, WorkStays
  <2> QED
    BY <2>1, <2>2
<1>5. In(t)' = In(t)
  BY <1>2 DEF In
<1> QED
  BY <1>2, <1>3, <1>4, <1>5, ListStays

\* A message more is to be read, and is shown.
LEMMA WrittenLists ==
  ASSUME ThreadSound, ListsSound, NEW t \in Threads, NEW side \in Sides,
         NEW key \in Keys, NEW n, Written(t, side, key, n),
         \A u \in Threads : Stays(u), disturbed' = disturbed
  PROVE  ListsSound'
<1> SUFFICES ASSUME NEW u \in Threads \ disturbed, Alive(u)'
             PROVE  ListSound(u)'
  BY DEF ListsSound
<1>1. /\ Len(posts) \in Nat /\ DOMAIN posts = 1 .. Len(posts)
      /\ threads \in [Threads -> Thread] /\ ThreadTypeOK
  BY PostsAre DEF ThreadSound, ThreadTypeOK
<1>2. /\ DOMAIN posts' = DOMAIN posts \cup {n} /\ n \notin DOMAIN posts
      /\ \A m \in DOMAIN posts : posts'[m] = posts[m] /\ m <= n
      /\ posts'[n].thread = t /\ posts'[n].from = side
      /\ ~posts'[n].isRead /\ ~posts'[n].deleted
      /\ n \in Nat
  <2>1. DOMAIN posts' = 1 .. n /\ n = Len(posts) + 1
    BY LenProperties DEF Written
  <2> QED
    BY <1>1, <2>1 DEF Written
<1>3. ListSound(u)
  BY DEF Written, Alive, ListsSound
<1>4. CASE u # t
  <2>1. In(u)' = In(u)
    BY <1>2, <1>4 DEF In
  <2>2. threads'[u] = threads[u]
    BY <1>4 DEF Written
  <2>3. \A m \in In(u) : posts'[m] = posts[m]
    BY <1>2 DEF In
  <2> QED
    BY <1>3, <2>1, <2>2, <2>3, ListStays
<1>5. CASE u = t
  <2>1. In(t)' = In(t) \cup {n} /\ n \notin In(t)
    BY <1>2 DEF In
  <2>2. \A m \in In(t) : posts'[m] = posts[m] /\ m <= n
    BY <1>2 DEF In
  <2>3. Shown(t)' = Shown(t) \cup {n} /\ Shown(t) \subseteq In(t)
    BY <1>2, <2>1, <2>2 DEF Shown
  <2>4. threads'[t].list.last = n
    BY DEF Written
  <2>5. ASSUME NEW other \in Sides
        PROVE  \/ threads'[t].list.unread[other] = Cardinality(Unread(t, other)')
               \/ Reading(t, other)'
               \/ other = "CUSTOMER" /\ Withdrawing(t)'
    <3>1. CASE Reading(t, other) \/ (other = "CUSTOMER" /\ Withdrawing(t))
      BY <3>1 DEF Stays
    <3>2. CASE threads[t].list.unread[other] = Cardinality(Unread(t, other))
      <4>1. CASE other = side
        <5>1. Unread(t, other)' = Unread(t, other)
          BY <1>2, <2>1, <2>2, <4>1 DEF Unread
        <5> QED
          BY <3>2, <4>1, <5>1 DEF Written
      <4>2. CASE other # side
        <5>1. Unread(t, other)' = Unread(t, other) \cup {n}
          BY <1>2, <2>1, <2>2, <4>2 DEF Unread
        <5>2. n \notin Unread(t, other)
          BY <2>1 DEF Unread
        <5>3. IsFiniteSet(Unread(t, other))
          BY <1>1, UnreadCounts
        <5>4. Cardinality(Unread(t, other)') = Cardinality(Unread(t, other)) + 1
          BY <5>1, <5>2, <5>3, FS_AddElement
        <5>5. threads'[t].list.unread[other] = threads[t].list.unread[other] + 1
          BY <4>2 DEF Written
        <5> QED
          BY <3>2, <5>4, <5>5
      <4> QED
        BY <4>1, <4>2
    <3> QED
      BY <1>3, <1>5, <3>1, <3>2 DEF ListSound
  <2>6. \A m \in Shown(t)' : m <= n
    BY <1>2, <2>2, <2>3
  <2> QED
    BY <1>5, <2>3, <2>4, <2>5, <2>6 DEF ListSound
<1> QED
  BY <1>4, <1>5

LEMMA PutLists ==
  ASSUME ThreadSound, ListsSound, NEW t \in Threads,
         \/ \E side \in Sides : PutUnkeyed(t, side)
         \/ PutFromPanel(t)
         \/ \E r \in Callers : WritePost(r) /\ t = calls[r].on
  PROVE  ListsSound'
<1>1. PICK side \in Sides, key \in Keys : Put(t, side, key)
  <2>1. NoKey \in Keys /\ PanelKey \in Keys /\ "SHOP" \in Sides
    BY ThreadBoundsAssumption DEF NoKey, PanelKey, Keys, Sides
  <2>2. ASSUME NEW r \in Callers, WritePost(r), t = calls[r].on
        PROVE  \E side \in Sides, key \in Keys : Put(t, side, key)
    <3>1. PICK e \in Errand : e = calls[r]
      BY DEF ThreadSound, ThreadTypeOK
    <3>2. t \in 0 .. MaxThreads
      BY ThreadBoundsAssumption DEF Threads
    <3>3. e.side \in Sides /\ <<t, e.side>> \in Keys
      BY <3>2 DEF Errand, Keys
    <3>4. Put(t, e.side, <<t, e.side>>)
      BY <2>2, <3>1 DEF WritePost
    <3> QED
      BY <3>3, <3>4
  <2> QED
    BY <2>1, <2>2 DEF PutUnkeyed, PutFromPanel
<1>2. UNCHANGED <<disturbed, lost>>
  BY <1>1 DEF Put, threadHistory
<1>3. ASSUME NEW u \in Threads PROVE Stays(u)
  <2>1. CASE calls' = calls
    BY <2>1, CallsSame
  <2>2. ASSUME NEW r \in Callers, WritePost(r) PROVE Stays(u)
    <3>1. calls' = [calls EXCEPT ![r] = NoCall] /\ calls[r].op = "write"
      BY <2>2 DEF WritePost, Ends, Goes
    <3> QED
      BY <3>1, WorkStays DEF ThreadSound, ThreadTypeOK
  <2> QED
    BY <2>1, <2>2 DEF PutUnkeyed, PutFromPanel
<1>4. CASE UNCHANGED <<threads, posts>>
  <2> SUFFICES ASSUME NEW u \in Threads \ disturbed, Alive(u)
               PROVE  ListSound(u)'
    BY <1>2, <1>4 DEF ListsSound, Alive
  <2>1. ListSound(u) /\ Stays(u) /\ In(u)' = In(u)
    BY <1>3, <1>4 DEF ListsSound, In
  <2> QED
    BY <1>4, <2>1, ListStays
<1>5. CASE \E n : Written(t, side, key, n)
  BY <1>2, <1>3, <1>5, WrittenLists
<1> QED
  BY <1>1, <1>4, <1>5, PutWrites

\* A badge is set to 0 while its messages are marked, or by hand.
LEMMA BadgeLists ==
  ASSUME ThreadSound, ListsSound, NEW t \in Threads,
         \/ \E r \in Callers, side \in Sides : ResetBadge(r, t, side)
         \/ \E n \in 0 .. 1 : BulkBadge(t, n)
  PROVE  ListsSound'
<1> SUFFICES ASSUME NEW u \in Threads \ disturbed', Alive(u)'
             PROVE  ListSound(u)'
  BY DEF ListsSound
<1>1. PICK whose \in Sides, count \in Nat :
        /\ threads' = [threads EXCEPT ![t].list.unread[whose] = count]
        /\ \/ t \in disturbed'
           \/ \E r \in Callers : ResetBadge(r, t, whose)
  BY DEF ResetBadge, BulkBadge, Sides
<1>2. /\ UNCHANGED posts /\ threads \in [Threads -> Thread]
      /\ u \notin disturbed /\ calls \in [Callers -> Errand]
  BY DEF ResetBadge, BulkBadge, threadHistory, ThreadSound, ThreadTypeOK
<1>3. /\ \A v \in Threads : /\ v # t => threads'[v] = threads[v]
                            /\ threads'[v].buyer = threads[v].buyer
      /\ threads'[t].list.last = threads[t].list.last
      /\ \A other \in Sides \ {whose} :
           threads'[t].list.unread[other] = threads[t].list.unread[other]
  BY <1>1, <1>2, BadgeWritten
<1>4. ListSound(u)
  BY <1>2, <1>3 DEF ListsSound, Alive
<1>5. Stays(u)
  <2>1. CASE calls' = calls
    BY <2>1, CallsSame
  <2>2. ASSUME NEW r \in Callers, NEW side \in Sides, ResetBadge(r, t, side)
        PROVE  Stays(u)
    <3>1. /\ \E work : calls' = [calls EXCEPT ![r] = work]
          /\ calls[r] = NoCall /\ NoCall.op = "idle"
      <4>1. NoCall.op = "idle"
        BY DEF NoCall
      <4> QED
        BY <2>2, <4>1 DEF ResetBadge, Go
    <3> QED
      BY <1>2, <3>1, WorkStays
  <2> QED
    BY <2>1, <2>2 DEF BulkBadge
<1>6. In(u)' = In(u) /\ Shown(u)' = Shown(u)
      /\ \A side \in Sides : Unread(u, side)' = Unread(u, side)
  BY <1>2 DEF In, Shown, Unread
<1>7. CASE u # t
  BY <1>2, <1>3, <1>4, <1>5, <1>6, <1>7, ListStays
<1>8. CASE u = t
  <2>1. Reading(t, whose)'
    <3>1. PICK r \in Callers : ResetBadge(r, t, whose)
      BY <1>1, <1>8
    <3>2. PICK work : work = [NoCall EXCEPT !.op = "reading", !.on = t,
                                            !.side = whose]
      OBVIOUS
    <3>3. work.op = "reading" /\ work.on = t /\ work.side = whose
      BY <3>2 DEF NoCall
    <3>4. calls' = [calls EXCEPT ![r] = work]
      BY <3>1, <3>2 DEF ResetBadge, Go
    <3>5. calls'[r] = work
      BY <1>2, <3>4
    <3> QED
      BY <3>3, <3>5 DEF Reading
  <2> QED
    BY <1>3, <1>4, <1>5, <1>6, <1>8, <2>1 DEF ListSound, Stays
<1> QED
  BY <1>7, <1>8

\* A message is taken back in the thread whose preview is then refreshed, and
\* it was the shop's: its own badge does not count it.
LEMMA WithdrawLists ==
  ASSUME ThreadSound, ListsSound, NEW r \in Callers, Withdraw(r)
  PROVE  ListsSound'
<1> SUFFICES ASSUME NEW u \in Threads \ disturbed', Alive(u)'
             PROVE  ListSound(u)'
  BY DEF ListsSound
<1>1. PICK e \in Errand : e = calls[r] /\ CallSound(e) /\ e.op = "unsend"
  BY DEF ThreadSound, ThreadTypeOK, CallsSound, Withdraw
<1>2. PICK n : n = e.post /\ n \in DOMAIN posts /\ posts[n].from = "SHOP"
  BY <1>1 DEF CallSound
<1>3. PICK work : work = [e EXCEPT !.op = "withdrawn"]
  OBVIOUS
<1>4. /\ posts' = [posts EXCEPT ![n].deleted = TRUE]
      /\ disturbed' = disturbed \cup ({posts[n].thread} \ {e.on})
      /\ calls' = [calls EXCEPT ![r] = work]
      /\ UNCHANGED threads
  BY <1>1, <1>2, <1>3 DEF Withdraw, Goes
<1>5. calls \in [Callers -> Errand]
  BY DEF ThreadSound, ThreadTypeOK
<1>6. /\ DOMAIN posts' = DOMAIN posts
      /\ \A m \in DOMAIN posts : m # n => posts'[m] = posts[m]
  BY <1>4
<1>7. /\ posts'[n].thread = posts[n].thread /\ posts'[n].from = posts[n].from
      /\ \A m \in DOMAIN posts : posts'[m].thread = posts[m].thread
  BY <1>2, Marked
<1>8. In(u)' = In(u)
  BY <1>6, <1>7 DEF In
<1>9. ListSound(u)
  BY <1>4 DEF ListsSound, Alive
<1>10. Stays(u)
  BY <1>1, <1>4, <1>5, WorkStays
<1>11. CASE posts[n].thread # u
  <2>1. \A m \in In(u) : posts'[m] = posts[m]
    BY <1>6, <1>11 DEF In
  <2> QED
    BY <1>4, <1>8, <1>9, <1>10, <2>1, ListStays
<1>12. CASE posts[n].thread = u
  <2>1. u = e.on
    BY <1>4, <1>12
  <2>2. Withdrawing(u)'
    <3>1. calls'[r] = work
      BY <1>4, <1>5
    <3>2. work.on = u /\ work.op = "withdrawn"
      BY <1>3, <2>1 DEF Errand
    <3> QED
      BY <3>1, <3>2 DEF Withdrawing
  <2>3. Unread(u, "SHOP")' = Unread(u, "SHOP")
    BY <1>2, <1>6, <1>7, <1>8 DEF Unread, In
  <2>4. ASSUME NEW side \in Sides
        PROVE  \/ threads'[u].list.unread[side] = Cardinality(Unread(u, side)')
               \/ Reading(u, side)'
               \/ side = "CUSTOMER" /\ Withdrawing(u)'
    <3>1. CASE side = "CUSTOMER"
      BY <2>2, <3>1
    <3>2. CASE side = "SHOP"
      <4>1. threads[u].list.unread[side] = Cardinality(Unread(u, side))
              \/ Reading(u, side)
        BY <1>9, <3>2 DEF ListSound
      <4> QED
        BY <1>4, <1>10, <2>3, <3>2, <4>1 DEF Stays
    <3> QED
      BY <3>1, <3>2 DEF Sides
  <2> QED
    BY <2>2, <2>4 DEF ListSound
<1> QED
  BY <1>11, <1>12

\* Every message of the other side is marked; a badge that is still 0 is right.
LEMMA MarkLists ==
  ASSUME ThreadSound, ListsSound, NEW r \in Callers, MarkRows(r)
  PROVE  ListsSound'
<1> SUFFICES ASSUME NEW u \in Threads \ disturbed', Alive(u)'
             PROVE  ListSound(u)'
  BY DEF ListsSound
<1>1. PICK e \in Errand : e = calls[r] /\ e.op = "reading"
  BY DEF ThreadSound, ThreadTypeOK, MarkRows
<1>2. PICK marked :
        marked = {n \in In(e.on) : posts[n].from # e.side /\ ~posts[n].isRead}
  OBVIOUS
<1>3. /\ posts' = [n \in DOMAIN posts |->
                     IF n \in marked THEN [posts[n] EXCEPT !.isRead = TRUE]
                                     ELSE posts[n]]
      /\ disturbed' = IF threads[e.on].list.unread[e.side] # 0
                        THEN disturbed \cup {e.on} ELSE disturbed
      /\ calls' = [calls EXCEPT ![r] = NoCall]
      /\ UNCHANGED threads
  BY <1>1, <1>2 DEF MarkRows, Ends, Goes
<1>4. calls \in [Callers -> Errand]
  BY DEF ThreadSound, ThreadTypeOK
<1>5. DOMAIN posts' = DOMAIN posts /\ marked \subseteq DOMAIN posts
  BY <1>2, <1>3 DEF In
<1>6. \A n \in DOMAIN posts \ marked : posts'[n] = posts[n]
  BY <1>3
<1>7. ASSUME NEW n \in marked
      PROVE  /\ posts'[n].thread = posts[n].thread /\ posts'[n].isRead
             /\ posts'[n].from = posts[n].from
             /\ posts'[n].deleted = posts[n].deleted
  <2>1. PICK post \in Post : post = posts[n]
    BY <1>5, PostsAre DEF ThreadSound
  <2>2. posts'[n] = [post EXCEPT !.isRead = TRUE]
    BY <1>3, <1>5, <2>1
  <2> QED
    BY <2>1, <2>2 DEF Post
<1>8. In(u)' = In(u)
  BY <1>5, <1>6, <1>7 DEF In
<1>9. ListSound(u)
  BY <1>3 DEF ListsSound, Alive
<1>10. CASE e.on # u
  <2>1. \A m \in In(u) : posts'[m] = posts[m]
    BY <1>2, <1>6, <1>10 DEF In
  <2>2. Stays(u)
    BY <1>1, <1>3, <1>4, <1>10, WorkStays
  <2> QED
    BY <1>3, <1>8, <1>9, <2>1, <2>2, ListStays
<1>11. CASE e.on = u
  <2>1. threads[u].list.unread[e.side] = 0
    BY <1>3, <1>11
  <2>2. Shown(u)' = Shown(u)
    BY <1>6, <1>7, <1>8 DEF Shown, In
  <2>3. \A s \in Callers : s # r => calls'[s] = calls[s]
    BY <1>3
  <2>4. Withdrawing(u) => Withdrawing(u)'
    BY <1>1, <2>3 DEF Withdrawing
  <2>5. Unread(u, e.side)' = {}
    BY <1>2, <1>6, <1>7, <1>8, <1>11 DEF Unread, In
  <2>6. ASSUME NEW side \in Sides, side # e.side
        PROVE  /\ Unread(u, side)' = Unread(u, side)
               /\ Reading(u, side) => Reading(u, side)'
    <3>1. \A n \in marked : posts[n].from = side
      BY <1>1, <1>2, <1>5, <2>6, PostsAre DEF Post, Sides, ThreadSound, Errand
    <3>2. Unread(u, side)' = Unread(u, side)
      BY <1>6, <1>7, <1>8, <3>1 DEF Unread, In
    <3>3. ASSUME Reading(u, side) PROVE Reading(u, side)'
      <4>1. PICK s \in Callers : /\ calls[s].op = "reading" /\ calls[s].on = u
                                 /\ calls[s].side = side
        BY <3>3 DEF Reading
      <4>2. s # r
        BY <1>1, <2>6, <4>1
      <4> QED
        BY <2>3, <4>1, <4>2 DEF Reading
    <3> QED
      BY <3>2, <3>3
  <2>7. ASSUME NEW side \in Sides
        PROVE  \/ threads'[u].list.unread[side] = Cardinality(Unread(u, side)')
               \/ Reading(u, side)'
               \/ side = "CUSTOMER" /\ Withdrawing(u)'
    <3>1. CASE side = e.side
      BY <1>3, <2>1, <2>5, <3>1, FS_EmptySet
    <3>2. CASE side # e.side
      BY <1>3, <1>9, <2>4, <2>6, <3>2 DEF ListSound
    <3> QED
      BY <3>1, <3>2
  <2> QED
    BY <1>3, <1>9, <2>2, <2>4, <2>7 DEF ListSound
<1> QED
  BY <1>10, <1>11

\* What was found is still so, or the thread is left out.
LEMMA RefreshLists ==
  ASSUME ThreadSound, ListsSound, NEW r \in Callers, RefreshPreview(r)
  PROVE  ListsSound'
<1> SUFFICES ASSUME NEW u \in Threads \ disturbed', Alive(u)'
             PROVE  ListSound(u)'
  BY DEF ListsSound
<1>1. PICK e \in Errand : /\ e = calls[r] /\ CallSound(e)
                          /\ e.op = "counted"
  BY DEF ThreadSound, ThreadTypeOK, CallsSound, RefreshPreview
<1>2. PICK t \in Threads : t = e.on
  BY <1>1 DEF CallSound
<1>3. /\ UNCHANGED posts /\ threads \in [Threads -> Thread]
      /\ disturbed' = IF e.post # Latest(t) \/ e.count # Cardinality(ToRead(t))
                        THEN disturbed \cup {t} ELSE disturbed
      /\ calls' = [calls EXCEPT ![r] = NoCall]
      /\ calls \in [Callers -> Errand] /\ ThreadTypeOK
  BY <1>1, <1>2 DEF RefreshPreview, Ends, Goes, ThreadSound, ThreadTypeOK
<1>4. PICK list \in Summary : list = threads[t].list
  BY <1>3 DEF Thread
<1>5. PICK was \in [Sides -> Nat] : was = list.unread
  BY DEF Summary
<1>6. PICK counts \in [Sides -> Nat] :
        counts = [was EXCEPT !["CUSTOMER"] = e.count]
  BY <1>1 DEF Errand
<1>7. PICK at \in 0 .. MaxPosts : at = IF e.post = 0 THEN list.at ELSE e.post
  BY <1>1 DEF Errand, Summary
<1>8. PICK new : new = [unread |-> counts, last |-> e.post, at |-> at]
  OBVIOUS
<1>9. new \in Summary /\ new.last = e.post /\ new.unread = counts
  BY <1>8, ListTyped DEF Errand
<1>10. threads' = [threads EXCEPT ![t].list = new]
  BY <1>1, <1>2, <1>4, <1>5, <1>6, <1>7, <1>8 DEF RefreshPreview
<1>11. /\ threads'[t].list = new
       /\ \A v \in Threads : /\ v # t => threads'[v] = threads[v]
                             /\ threads'[v].buyer = threads[v].buyer
  BY <1>3, <1>9, <1>10, ListWritten
<1>12. In(u)' = In(u) /\ Shown(u)' = Shown(u)
       /\ \A side \in Sides : Unread(u, side)' = Unread(u, side)
  BY <1>3 DEF In, Shown, Unread
<1>13. ListSound(u)
  BY <1>3, <1>11 DEF ListsSound, Alive
<1>14. CASE u # t
  <2>1. Stays(u)
    BY <1>1, <1>2, <1>3, <1>14, WorkStays
  <2> QED
    BY <1>3, <1>11, <1>12, <1>13, <1>14, <2>1, ListStays
<1>15. CASE u = t
  <2>1. e.post = Latest(t) /\ e.count = Cardinality(Unread(t, "CUSTOMER"))
    BY <1>3, <1>15 DEF ToRead
  <2>2. Latest(t) # 0 => Latest(t) \in Shown(t)
    BY <1>3, LatestIs DEF Shown
  <2>3. \A n \in Shown(t) : n <= Latest(t)
    BY <1>3, LatestIs DEF Shown
  <2>4. counts["CUSTOMER"] = e.count /\ counts["SHOP"] = was["SHOP"]
    BY <1>6 DEF Sides
  <2>5. Reading(t, "SHOP") => Reading(t, "SHOP")'
    <3>1. \A s \in Callers : s # r => calls'[s] = calls[s]
      BY <1>3
    <3> QED
      BY <1>1, <3>1 DEF Reading
  <2>6. \/ was["SHOP"] = Cardinality(Unread(t, "SHOP"))
        \/ Reading(t, "SHOP")
    BY <1>4, <1>5, <1>13, <1>15 DEF ListSound, Sides
  <2> QED
    BY <1>9, <1>11, <1>12, <1>15, <2>1, <2>2, <2>3, <2>4, <2>5, <2>6
    DEF ListSound, Sides
<1> QED
  BY <1>14, <1>15

LEMMA BuyerLists ==
  ASSUME ThreadSound, ListsSound, NEW t \in Threads, NEW buyer \in Buyers,
         \/ MakeThread(t, buyer)
         \/ \E r \in Callers : Relabel(r) /\ t = calls[r].on /\ buyer = "account"
  PROVE  ListsSound'
<1> SUFFICES ASSUME NEW u \in Threads \ disturbed', Alive(u)'
             PROVE  ListSound(u)'
  BY DEF ListsSound
<1>1. /\ threads \in [Threads -> Thread]
      /\ threads' = [threads EXCEPT ![t].buyer = buyer]
      /\ UNCHANGED <<posts, disturbed>>
      /\ threads[t].buyer = "none" \/ buyer = "account"
  BY DEF MakeThread, Relabel, threadHistory, ThreadSound, ThreadTypeOK
<1>2. /\ threads'[t].buyer = buyer
      /\ \A v \in Threads : /\ v # t => threads'[v] = threads[v]
                            /\ threads'[v].list = threads[v].list
  BY <1>1 DEF Thread
<1>3. In(u)' = In(u) /\ Shown(u)' = Shown(u)
      /\ \A side \in Sides : Unread(u, side)' = Unread(u, side)
  BY <1>1 DEF In, Shown, Unread
<1>4. Stays(u)
  <2>1. CASE MakeThread(t, buyer)
    BY <2>1, CallsSame DEF MakeThread
  <2>2. ASSUME NEW r \in Callers, Relabel(r) PROVE Stays(u)
    <3>1. calls' = [calls EXCEPT ![r] = NoCall] /\ calls[r].op = "relabel"
      BY <2>2 DEF Relabel, Ends, Goes
    <3> QED
      BY <3>1, WorkStays DEF ThreadSound, ThreadTypeOK
  <2> QED
    BY <2>1, <2>2
<1>5. CASE u # t \/ threads[t].buyer # "none"
  <2>1. threads'[u].buyer = "guest" => threads[u].buyer = "guest"
    BY <1>1, <1>2, <1>5
  <2>2. Alive(u)
    BY <1>1, <1>2, <1>5
    DEF Alive, ThreadSound, MakeThread, Relabel, Buyers
  <2>3. ListSound(u)
    BY <1>1, <2>2 DEF ListsSound
  <2> QED
    BY <1>1, <1>2, <1>3, <1>4, <2>1, <2>3, ListStays
<1>6. CASE u = t /\ threads[t].buyer = "none"
  <2>1. threads[t].list = Blank /\ t # 0
    BY <1>6, ThreadBoundsAssumption DEF ThreadSound, NewThreads, Threads
  <2>2. In(t) = {}
    BY <1>6, <2>1 DEF ThreadSound, PostsSound, In, Buyers
  <2>3. Shown(t) = {} /\ \A side \in Sides : Unread(t, side) = {}
    BY <2>2 DEF Shown, Unread
  <2>4. threads'[t].list = Blank
    BY <1>2, <2>1
  <2>5. Cardinality({}) = 0
    BY FS_EmptySet
  <2> QED
    BY <1>3, <1>6, <2>3, <2>4, <2>5 DEF ListSound, Blank
<1> QED
  BY <1>5, <1>6

\* What the fold did not move came in after it looked, and where nothing has
\* changed since there is nothing newer than what it saw.
LEMMA AllShownMoved ==
  ASSUME ThreadSound, ListsSound, NEW e, Gone(e), e.on \notin disturbed,
         ~Midway(e.on), threads[e.on].list = e.seen
  PROVE  /\ Shown(e.on) \subseteq e.moved
         /\ \A side \in Sides :
              e.seen.unread[side] = Cardinality(Unread(e.on, side))
         /\ e.seen.last # 0 => e.seen.last \in Shown(e.on)
<1>1. ListSound(e.on) /\ Alive(e.on) /\ threads[e.on].buyer = "guest"
  BY ThreadBoundsAssumption
  DEF ListsSound, Gone, Alive, Buyers, Threads
<1>2. ~Withdrawing(e.on) /\ \A side \in Sides : ~Reading(e.on, side)
  BY DEF Midway, Withdrawing, Reading
<1>3. \A n \in Shown(e.on) : n <= e.seen.last
  BY <1>1, <1>2 DEF ListSound
<1>4. \A n \in In(e.on) \ e.moved : n > e.seen.last
  BY <1>1 DEF Gone, CallSound
<1>5. e.seen.last \in Int
  BY ThreadBoundsAssumption DEF Gone, Errand, Summary
<1>6. Shown(e.on) \subseteq In(e.on) /\ In(e.on) \subseteq Int
  BY PostsAre DEF Shown, In, ThreadSound
<1> QED
  BY <1>1, <1>2, <1>3, <1>4, <1>5, <1>6 DEF ListSound

LEMMA FoldLists ==
  ASSUME ThreadSound, ListsSound, NEW r \in Callers, FoldCommit(r)
  PROVE  ListsSound'
<1> SUFFICES ASSUME NEW u \in Threads \ disturbed', Alive(u)'
             PROVE  ListSound(u)'
  BY DEF ListsSound
<1>1. PICK e : e = calls[r] /\ Gone(e)
  BY FoldGoes
<1>2. PICK into \in Threads : into = e.into /\ threads[into].buyer = "account"
  BY <1>1 DEF Gone
<1>3. PICK on \in Threads : on = e.on /\ threads[on].buyer = "guest"
  BY <1>1 DEF Gone
<1>4. /\ calls' = [calls EXCEPT ![r] = NoCall]
      /\ calls \in [Callers -> Errand] /\ e.op = "moved" /\ ThreadTypeOK
  BY <1>1 DEF FoldCommit, Ends, Goes, ThreadSound, ThreadTypeOK
<1>5. /\ disturbed \subseteq disturbed'
      /\ into \notin disturbed' =>
           /\ threads[on].list = e.seen /\ threads[into].list = e.seenInto
           /\ ~Midway(on) /\ on \notin disturbed
  BY <1>1, <1>2, <1>3 DEF FoldCommit
<1>6. /\ Len(posts) \in Nat /\ DOMAIN posts = 1 .. Len(posts)
      /\ DOMAIN posts' = DOMAIN posts
  BY <1>1, PostsAre, LenProperties DEF Gone, ThreadSound
<1>7. Stays(u)
  BY <1>1, <1>4, WorkStays
<1>8. u # on
  BY <1>1, <1>3 DEF Gone, Alive, Buyers
<1>9. Alive(u) /\ ListSound(u)
  <2>1. Alive(u)
    BY <1>1, <1>2, <1>8, <1>3 DEF Gone, Alive, Buyers
  <2> QED
    BY <1>5, <2>1 DEF ListsSound
<1>10. \A n \in DOMAIN posts :
         /\ posts'[n].from = posts[n].from
         /\ posts'[n].isRead = posts[n].isRead
         /\ posts'[n].deleted = posts[n].deleted
         /\ posts[n].thread # on => posts'[n].thread = posts[n].thread
         /\ n \in e.moved => posts'[n].thread = into
         /\ posts[n].thread = on /\ n \notin e.moved => posts'[n].thread = 0
  BY <1>1, <1>2, <1>3 DEF Gone
<1>11. e.moved \subseteq In(on) /\ 0 \notin Threads
  BY <1>1, <1>3, ThreadBoundsAssumption DEF Gone, Threads
<1>12. CASE u # into
  <2>1. In(u)' = In(u)
    BY <1>6, <1>8, <1>10, <1>11, <1>12 DEF In
  <2>2. threads'[u] = threads[u]
    BY <1>1, <1>2, <1>3, <1>8, <1>12 DEF Gone
  <2>3. \A n \in In(u) : n \in DOMAIN posts
    BY DEF In
  <2> QED
    BY <1>7, <1>9, <1>10, <2>1, <2>2, <2>3, ListStays
<1>13. CASE u = into
  <2>1. /\ threads[on].list = e.seen /\ threads[into].list = e.seenInto
        /\ ~Midway(on) /\ on \notin disturbed
    BY <1>5, <1>13
  <2>2. /\ Shown(on) \subseteq e.moved
        /\ \A side \in Sides : e.seen.unread[side] = Cardinality(Unread(on, side))
        /\ e.seen.last # 0 => e.seen.last \in Shown(on)
    BY <1>1, <1>3, <2>1, AllShownMoved
  <2>3. In(into)' = In(into) \cup e.moved
    BY <1>6, <1>8, <1>10, <1>11, <1>13 DEF In
  <2>4. \A n \in In(into) \cup e.moved : n \in DOMAIN posts
    BY <1>11 DEF In
  <2>5. Shown(into)' = Shown(into) \cup Shown(on)
    <3>1. Shown(into)' = {n \in In(into) \cup e.moved : ~posts[n].deleted}
      BY <1>10, <2>3, <2>4 DEF Shown
    <3> QED
      BY <1>11, <2>2, <3>1 DEF Shown
  <2>6. threads'[into].list = Folded(e.seenInto, e.seen)
    BY <1>1, <1>2 DEF Gone
  <2>7. e.seen \in Summary /\ e.seenInto \in Summary
    BY <1>1 DEF Gone, Errand
  <2>8. /\ threads'[into].list.last \in {e.seenInto.last, e.seen.last}
        /\ \A side \in Sides : threads'[into].list.unread[side]
                               = e.seenInto.unread[side] + e.seen.unread[side]
    BY <2>6, <2>7, FoldedTyped
  <2>9. ASSUME NEW side \in Sides
        PROVE  \/ threads'[into].list.unread[side]
                    = Cardinality(Unread(into, side)')
               \/ Reading(into, side)'
               \/ side = "CUSTOMER" /\ Withdrawing(into)'
    <3>1. Unread(into, side)' = Unread(into, side) \cup Unread(on, side)
      <4>1. Unread(into, side)'
              = {n \in In(into) \cup e.moved :
                   posts[n].from # side /\ ~posts[n].isRead /\ ~posts[n].deleted}
        BY <1>10, <2>3, <2>4 DEF Unread
      <4>2. Unread(on, side) \subseteq Shown(on)
        BY DEF Unread, Shown
      <4> QED
        BY <1>11, <2>2, <4>1, <4>2 DEF Unread
    <3>2. /\ IsFiniteSet(Unread(into, side)) /\ IsFiniteSet(Unread(on, side))
          /\ Cardinality(Unread(into, side)) \in Nat
          /\ Cardinality(Unread(on, side)) \in Nat
      BY <1>4, UnreadCounts
    <3>3. Unread(into, side) \cap Unread(on, side) = {}
      BY <1>8, <1>13 DEF Unread, In
    <3>4. Cardinality(Unread(into, side)')
            = Cardinality(Unread(into, side)) + Cardinality(Unread(on, side))
      BY <3>1, <3>2, <3>3, FS_Union, FS_EmptySet
    <3>5. \/ e.seenInto.unread[side] = Cardinality(Unread(into, side))
          \/ Reading(into, side)
          \/ side = "CUSTOMER" /\ Withdrawing(into)
      BY <1>9, <1>13, <2>1 DEF ListSound
    <3> QED
      BY <1>7, <1>13, <2>2, <2>8, <3>4, <3>5 DEF Stays
  <2>10. threads'[into].list.last # 0 =>
           threads'[into].list.last \in Shown(into)' \/ Withdrawing(into)'
    BY <1>7, <1>9, <1>13, <2>1, <2>2, <2>5, <2>8 DEF ListSound, Stays
  <2>11. threads'[into].buyer = "account"
    BY <1>1, <1>2 DEF Gone
  <2> QED
    BY <1>13, <2>9, <2>10, <2>11 DEF ListSound
<1> QED
  BY <1>12, <1>13

LEMMA ListsStepSound ==
  ASSUME ThreadSound, ListsSound, [ThreadNext]_threadVars
  PROVE  ListsSound'
<1>1. CASE UNCHANGED threadVars
  BY <1>1
  DEF threadVars, ListsSound, ListSound, Alive, Unread, Shown, In, Reading,
      Withdrawing
<1>2. ASSUME NEW t \in Threads,
             PutFromPanel(t) \/ \E side \in Sides : PutUnkeyed(t, side)
      PROVE  ListsSound'
  BY <1>2, PutLists
<1>3. ASSUME NEW t \in Threads, NEW buyer \in Buyers, MakeThread(t, buyer)
      PROVE  ListsSound'
  BY <1>3, BuyerLists
<1>4. ASSUME NEW t \in Threads,
             \/ \E n \in 0 .. 1 : BulkBadge(t, n)
             \/ \E r \in Callers, side \in Sides : ResetBadge(r, t, side)
      PROVE  ListsSound'
  BY <1>4, BadgeLists
<1>5. CASE CallStep
  BY <1>5, CallListsSound
<1>6. ASSUME NEW r \in Callers, WritePost(r) \/ Relabel(r) PROVE ListsSound'
  <2>1. PICK t : t = calls[r].on
    OBVIOUS
  <2>2. t \in Threads
    BY <1>6, <2>1 DEF WritePost, Relabel, ThreadSound, CallsSound, CallSound
  <2> QED
    BY <1>6, <2>1, <2>2, PutLists, BuyerLists DEF Buyers
<1>7. ASSUME NEW r \in Callers, MarkRows(r) PROVE ListsSound'
  BY <1>7, MarkLists
<1>8. ASSUME NEW r \in Callers, Withdraw(r) PROVE ListsSound'
  BY <1>8, WithdrawLists
<1>9. ASSUME NEW r \in Callers, RefreshPreview(r) PROVE ListsSound'
  BY <1>9, RefreshLists
<1>10. ASSUME NEW r \in Callers, FoldCommit(r) PROVE ListsSound'
  BY <1>10, FoldLists
<1> QED
  BY <1>1, <1>2, <1>3, <1>4, <1>5, <1>6, <1>7, <1>8, <1>9, <1>10
  DEF ThreadNext, CallStep

LEMMA ListsAreTrue ==
  ASSUME ThreadSound, ListsSound PROVE ListIsTrue
<1> SUFFICES ASSUME NEW t \in Threads \ disturbed, Alive(t), ~Midway(t)
             PROVE  LET list == threads[t].list IN
                    /\ \A side \in Sides :
                         list.unread[side] = Cardinality(Unread(t, side))
                    /\ list.last # 0 => /\ posts[list.last].thread = t
                                        /\ ~posts[list.last].deleted
  BY DEF ListIsTrue
<1>1. ~Withdrawing(t) /\ \A side \in Sides : ~Reading(t, side)
  BY DEF Midway, Withdrawing, Reading
<1> QED
  BY <1>1 DEF ListsSound, ListSound, Shown, In

\* The two badges of a thread count the messages there is to read, and the
\* preview is of a message of the thread that was not unsent, as long as no
\* call wrote by a count or a preview that had changed since it was read
\* (postMessage, markCustomerRead, unsendMessage, foldConversation).
THEOREM ListsAlwaysTrue == ThreadSpec => []ListIsTrue
<1>1. ThreadInit => ListsSound
  BY ThreadBoundsAssumption DEF ThreadInit, ListsSound, Alive, Buyers
<1> QED
  BY <1>1, ThreadInitSound, ThreadStepSound, ListsStepSound, ListsAreTrue, PTL
  DEF ThreadSpec

-----------------------------------------------------------------------------
(* The desk                                                                *)

deskVars == <<desk, vars, threadVars, stockVars>>

\* A step at the desk is a step of the part the behaviour stays with, and one
\* that the others do not notice.
LEMMA OnePartSteps ==
  ASSUME [DeskNext]_deskVars
  PROVE  /\ UNCHANGED desk
         /\ [Next]_vars /\ [ThreadNext]_threadVars /\ [StockNext]_stockVars
<1>1. CASE UNCHANGED deskVars
  BY <1>1 DEF deskVars
<1>2. ASSUME \/ \E t \in Threads, buyer \in Buyers :
                  Writing /\ MakeThread(t, buyer)
             \/ \E t \in Threads, side \in Sides : Writing /\ PutUnkeyed(t, side)
             \/ \E t \in Threads : Writing /\ PutFromPanel(t)
             \/ \E t \in Threads, n \in 0 .. 1 : Writing /\ BulkBadge(t, n)
      PROVE  Writing /\ ThreadNext
  BY <1>2 DEF ThreadNext
<1>3. ASSUME NEW r \in Callers,
             \/ \E t \in Threads, side \in Sides : Writing /\ Compose(r, t, side)
             \/ \E t \in Threads, side \in Sides :
                  Writing /\ ResetBadge(r, t, side)
             \/ \E n \in DOMAIN posts : Writing /\ ReadForUnsend(r, n)
             \/ Writing /\ WritePost(r)
             \/ Writing /\ MarkRows(r)
             \/ Writing /\ Withdraw(r)
             \/ Writing /\ FindLatest(r)
             \/ Writing /\ CountUnread(r)
             \/ Writing /\ RefreshPreview(r)
             \/ Writing /\ ReadForLink(r)
             \/ Writing /\ Relabel(r)
             \/ Writing /\ FoldRead(r)
             \/ Writing /\ FoldMove(r)
             \/ Writing /\ FoldCommit(r)
             \/ Writing /\ GiveUp(r)
      PROVE  Writing /\ ThreadNext
  BY <1>3 DEF ThreadNext
<1>4. ASSUME NEW w \in Pickers,
             \/ \E o \in Baskets : Counting /\ TakeCheck(w, o)
             \/ \E o \in pickers[w].order : \E i \in DOMAIN Lines[o] :
                  Counting /\ DecrementStock(w, i)
             \/ \E onSale \in SUBSET Tracked : Counting /\ ReadForScan(w, onSale)
             \/ \E p \in Tracked : Counting /\ ScanNext(w, p)
             \/ Counting /\ FinishPicking(w)
             \/ Counting /\ AskKey(w)
             \/ Counting /\ SetKey(w)
             \/ Counting /\ RedisFails(w)
             \/ Counting /\ QueueAlert(w)
             \/ Counting /\ PickerThrows(w)
             \/ Counting /\ PickerStalls(w)
      PROVE  Counting /\ StockNext
  BY <1>4 DEF StockNext
<1>5. ASSUME \/ \E o \in Baskets : Counting /\ AddCheck(o)
             \/ \E p \in Tracked : Counting /\ AlertKeyExpires(p)
             \/ \E p \in Tracked, q \in Quantities :
                  Counting /\ EnterQuantity(p, q)
      PROVE  Counting /\ StockNext
  BY <1>5 DEF StockNext
<1>6. DeskNext => \/ Selling /\ Next
                  \/ Writing /\ ThreadNext
                  \/ Counting /\ StockNext
  BY <1>2, <1>3, <1>4, <1>5 DEF DeskNext
<1>7. CASE DeskNext
  BY <1>6, <1>7 DEF Selling, Writing, Counting
<1> QED
  BY <1>1, <1>7

OnTheDesk == desk \in {"orders", "threads", "stock"}

\* Side by side, the parts behave as each does alone; so what is proved of it
\* alone is true of it here.
THEOREM EachPartAlone == DeskSpec => Spec /\ ThreadSpec /\ StockSpec
<1>1. DeskInit => Init /\ ThreadInit /\ StockInit
  BY DEF DeskInit
<1>2. [DeskNext]_deskVars => /\ [Next]_vars /\ [ThreadNext]_threadVars
                             /\ [StockNext]_stockVars
  BY OnePartSteps
<1> QED
  BY <1>1, <1>2, PTL DEF DeskSpec, deskVars, Spec, ThreadSpec, StockSpec

\* The order and its shops' rows, the threads and the stock each keep their
\* types, whatever the requests, calls and jobs of each are in the middle of.
THEOREM DeskTypeCorrect == DeskSpec => []DeskTypeOK
<1>1. DeskSpec => []OnTheDesk
  <2>1. DeskInit => OnTheDesk
    BY DEF DeskInit, OnTheDesk
  <2>2. OnTheDesk /\ [DeskNext]_deskVars => OnTheDesk'
    BY OnePartSteps DEF OnTheDesk
  <2> QED
    BY <2>1, <2>2, PTL DEF DeskSpec, deskVars
<1>2. ThreadSpec => []ThreadTypeOK
  <2>1. ThreadSound => ThreadTypeOK
    BY DEF ThreadSound
  <2> QED
    BY <2>1, ThreadInitSound, ThreadStepSound, PTL DEF ThreadSpec
<1>3. StockSpec => []StockTypeOK
  <2>1. StockInv => StockTypeOK
    BY DEF StockInv, StockSound
  <2> QED
    BY <2>1, StockInitInv, StockStepInv, PTL DEF StockSpec
<1>4. OnTheDesk /\ TypeOK /\ ThreadTypeOK /\ StockTypeOK => DeskTypeOK
  BY DEF OnTheDesk, DeskTypeOK
<1> QED
  BY <1>1, <1>2, <1>3, <1>4, EachPartAlone, TypeCorrect, PTL
=============================================================================
