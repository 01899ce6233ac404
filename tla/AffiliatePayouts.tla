-------------------------- MODULE AffiliatePayouts --------------------------
(***************************************************************************)
(* What an affiliate earns and is paid: a commission per referred order,   *)
(* the balance it is credited to, and the withdrawals taken from it.       *)
(*                                                                         *)
(*   commission.service.ts        createForOrder, scheduleAutoConfirm,     *)
(*                                confirmCommission, cancelCommission      *)
(*   commission.processor.ts      the jobs that call them                  *)
(*   portal.service.ts            requestPayout                            *)
(*   admin-affiliates.service.ts  markPayoutPaid, rejectPayout,            *)
(*                                approveAffiliate, rejectAffiliate,       *)
(*                                updateAffiliate                          *)
(*                                                                         *)
(* Every operation reads a row, checks it, and later writes: nothing locks *)
(* the row in between, and the UPDATE names the row by id alone.  A        *)
(* handler is what has read and not yet written; several may be under way, *)
(* two of one job too when the first lost the job's lock and goes on.      *)
(* outdated becomes TRUE when one writes although what it had checked no   *)
(* longer holds.                                                           *)
(*                                                                         *)
(* One affiliate: no operation touches two.  Amounts are in cents.  Left   *)
(* out: mails, notes, the settings page (MinPayout does not change).       *)
(***************************************************************************)
EXTENDS Integers, FiniteSets, Functions

CONSTANTS
  Purchases,    \* orders the affiliate referred
  Withdrawals,  \* AffiliatePayout rows that can be asked for
  Handlers,     \* requests and jobs under way at one time
  Commissions,  \* what a commission may come to, in cents
  Asks,         \* what the affiliate may ask for, in cents
  MinPayout,    \* AffiliateSettings.minPayoutAmount
  MaxTrouble,   \* bound: handlers that die, fail or lose their job
  None          \* no key

VARIABLES
  purchase,     \* Order.status, as far as the commission goes
  commission,   \* the AffiliateCommission row of an order
  account,      \* the AffiliateAccount row
  withdrawal,   \* the AffiliatePayout rows
  createJobs,   \* create-order-commission jobs waiting
  lockJobs,     \* the job confirm-<orderId> of an order
  handlers,     \* what each handler is doing
  outdated,     \* history: a write went by a check that no longer held
  credits,      \* history: times an order's commission was credited
  strays,       \* history: ... of these, by workers that had lost the job
  reversed,     \* history: what was taken back from the balance
  returned,     \* history: withdrawals whose money went back
  trouble       \* handlers that died, failed or lost their job so far

affHistory == <<outdated, credits, strays, reversed, returned>>
affRows == <<commission, account, withdrawal>>
affVars == <<purchase, affRows, createJobs, lockJobs, handlers, affHistory,
             trouble>>

ASSUME AffKeysAssumption == /\ IsFiniteSet(Purchases)
                            /\ IsFiniteSet(Withdrawals)
                            /\ None \notin Purchases \cup Withdrawals
ASSUME AffAmountsAssumption == /\ Commissions \subseteq Nat
                               /\ Asks \subseteq Nat \ {0}
                               /\ MinPayout \in Nat
ASSUME AffBoundsAssumption == MaxTrouble \in Nat

-----------------------------------------------------------------------------
CommissionRow == [status : {"none", "PENDING", "CONFIRMED", "PAID",
                            "CANCELLED"}, amount : Nat]
Account == [active : BOOLEAN, balance : Int, totalEarned : Int]
WithdrawalRow == [status : {"none", "REQUESTED", "PAID", "REJECTED"},
                  amount : Nat]

\* seen: the status the handler read.  asked: the amount asked for.  stray: a
\* confirm whose worker no longer has the job.
Handler == [op : {"idle", "create", "confirm", "stray", "refund", "cancel",
                  "unschedule", "request", "pay", "reject"},
            key : Purchases \cup Withdrawals \cup {None},
            seen : {"none", "PENDING", "CONFIRMED", "PAID", "CANCELLED",
                    "REQUESTED", "REJECTED"},
            asked : Nat]

Resting == [op |-> "idle", key |-> None, seen |-> "none", asked |-> 0]

AffTypeOK ==
  /\ purchase \in [Purchases -> {"unpaid", "paid", "delivered", "refunded"}]
  /\ commission \in [Purchases -> CommissionRow]
  /\ account \in Account
  /\ withdrawal \in [Withdrawals -> WithdrawalRow]
  /\ createJobs \subseteq Purchases
  /\ lockJobs \in [Purchases -> {"none", "delayed", "active", "failed"}]
  /\ handlers \in [Handlers -> Handler]
  /\ \A h \in Handlers :
       /\ handlers[h].op \in {"create", "confirm", "stray", "refund",
                              "cancel", "unschedule"}
            => handlers[h].key \in Purchases
       /\ handlers[h].op \in {"request", "pay", "reject"}
            => handlers[h].key \in Withdrawals
       /\ handlers[h].op = "request" => handlers[h].asked \in Asks
       /\ handlers[h].op = "confirm" => lockJobs[handlers[h].key] = "active"
  /\ outdated \in BOOLEAN
  /\ credits \in [Purchases -> Int]
  /\ strays \in [Purchases -> Nat]
  /\ reversed \in Nat
  /\ returned \subseteq Withdrawals
  /\ trouble \in 0 .. MaxTrouble

AffInit ==
  /\ purchase = [o \in Purchases |-> "unpaid"]
  /\ commission = [o \in Purchases |-> [status |-> "none", amount |-> 0]]
  /\ account = [active |-> TRUE, balance |-> 0, totalEarned |-> 0]
  /\ withdrawal = [p \in Withdrawals |-> [status |-> "none", amount |-> 0]]
  /\ createJobs = {}
  /\ lockJobs = [o \in Purchases |-> "none"]
  /\ handlers = [h \in Handlers |-> Resting]
  /\ outdated = FALSE
  /\ credits = [o \in Purchases |-> 0]
  /\ strays = [o \in Purchases |-> 0]
  /\ reversed = 0
  /\ returned = {}
  /\ trouble = 0

-----------------------------------------------------------------------------
(* Handlers                                                                *)

Starts(h, op, key, seen, asked) ==
  /\ handlers[h].op = "idle"
  /\ handlers' = [handlers EXCEPT ![h] = [op |-> op, key |-> key,
                                          seen |-> seen, asked |-> asked]]

Ends(h) == handlers' = [handlers EXCEPT ![h] = Resting]

\* The write of a handler whose check did, or did not, still hold.
WritesAfter(check) == outdated' = (outdated \/ ~check)

Credit(amount) ==
  account' = [account EXCEPT !.balance = @ + amount,
                             !.totalEarned = @ + amount]

-----------------------------------------------------------------------------
(* The order, which the bus and the order service report on                *)

\* order.paid: the bus queues create-order-commission.
PurchasePaid(o) ==
  /\ purchase[o] = "unpaid"
  /\ purchase' = [purchase EXCEPT ![o] = "paid"]
  /\ createJobs' = createJobs \cup {o}
  /\ UNCHANGED <<affRows, lockJobs, handlers, affHistory, trouble>>

\* MUTANT of AddLockJob: the job has no id of its own.
AddLockJobAgain(o) == lockJobs' = [lockJobs EXCEPT ![o] = "delayed"]

\* queue.add with jobId confirm-<orderId>: a job of that id keeps its place.
AddLockJob(o) ==
  lockJobs' = [lockJobs EXCEPT ![o] = IF @ = "none" THEN "delayed" ELSE @]

\* updateStatus DELIVERED, which asks for no earlier status; adding the job
\* is fire-and-forget.
PurchaseDelivered(o) ==
  /\ purchase[o] # "unpaid"
  /\ purchase' = [purchase EXCEPT ![o] = "delivered"]
  /\ \/ AddLockJob(o) /\ UNCHANGED trouble
     \/ trouble < MaxTrouble /\ trouble' = trouble + 1 /\ UNCHANGED lockJobs
  /\ UNCHANGED <<affRows, createJobs, handlers, affHistory>>

-----------------------------------------------------------------------------
(* createForOrder: one commission per order                                *)

\* One job at a time: two would meet the row's unique orderId.
ReadForCreate(h, o) ==
  /\ o \in createJobs
  /\ \A g \in Handlers : handlers[g].op = "create" => handlers[g].key # o
  /\ Starts(h, "create", o, commission[o].status, 0)
  /\ UNCHANGED <<purchase, affRows, createJobs, lockJobs, affHistory, trouble>>

\* The job ends, or its worker dies after the write and BullMQ runs it again.
CreateForOrder(h) ==
  LET o == handlers[h].key IN
  /\ handlers[h].op = "create"
  /\ IF handlers[h].seen = "none"
       THEN \E amount \in Commissions :
              commission' = [commission EXCEPT
                 ![o] = [status |-> "PENDING", amount |-> amount]]
       ELSE UNCHANGED commission
  /\ \/ createJobs' = createJobs \ {o} /\ UNCHANGED trouble
     \/ trouble < MaxTrouble /\ trouble' = trouble + 1 /\ UNCHANGED createJobs
  /\ Ends(h)
  /\ UNCHANGED <<purchase, account, withdrawal, lockJobs, affHistory>>

-----------------------------------------------------------------------------
(* confirmCommission: the lock period is over                              *)

ReadForConfirm(h, o) ==
  /\ lockJobs[o] = "delayed"
  /\ lockJobs' = [lockJobs EXCEPT ![o] = "active"]
  /\ Starts(h, "confirm", o, commission[o].status, 0)
  /\ UNCHANGED <<purchase, affRows, createJobs, affHistory, trouble>>

\* MUTANT of NothingToConfirm: a confirmed commission is confirmed again.
OnlyIfNone(seen) == seen = "none"

NothingToConfirm(seen) == seen # "PENDING"

\* The transaction: the commission is CONFIRMED by its id alone.
Confirms(o) ==
  /\ commission' = [commission EXCEPT ![o].status = "CONFIRMED"]
  /\ Credit(commission[o].amount)
  /\ credits' = [credits EXCEPT ![o] = @ + 1]
  /\ WritesAfter(commission[o].status = "PENDING")

\* The job is done, if it is still the worker's.
ConfirmCommission(h) ==
  LET o == handlers[h].key
      lost == IF handlers[h].op = "stray" THEN 1 ELSE 0 IN
  /\ handlers[h].op \in {"confirm", "stray"}
  /\ IF NothingToConfirm(handlers[h].seen)
       THEN UNCHANGED <<commission, account, credits, strays, outdated>>
       ELSE Confirms(o) /\ strays' = [strays EXCEPT ![o] = @ + lost]
  /\ lockJobs' = [lockJobs EXCEPT ![o] = IF lost = 1 THEN @ ELSE "none"]
  /\ Ends(h)
  /\ UNCHANGED <<purchase, withdrawal, createJobs, reversed, returned,
                 trouble>>

-----------------------------------------------------------------------------
(* cancelCommission: the order was refunded                                *)

\* The refund itself, then the call nobody awaits.
PurchaseRefunded(h, o) ==
  /\ purchase[o] \in {"paid", "delivered"}
  /\ purchase' = [purchase EXCEPT ![o] = "refunded"]
  /\ Starts(h, "refund", o, "none", 0)
  /\ UNCHANGED <<affRows, createJobs, lockJobs, affHistory, trouble>>

\* MUTANT of MayCancelCommission: what was paid out is voided as well.
MayCancelAny(status) == status # "none"

MayCancelCommission(status) == status \notin {"none", "PAID"}

ReadForCancel(h) ==
  LET o == handlers[h].key IN
  /\ handlers[h].op = "refund"
  /\ handlers' = [handlers EXCEPT
                    ![h] = IF MayCancelCommission(commission[o].status)
                             THEN [@ EXCEPT !.op = "cancel",
                                            !.seen = commission[o].status]
                             ELSE Resting]
  /\ UNCHANGED <<purchase, affRows, createJobs, lockJobs, affHistory, trouble>>

\* MUTANT of TakesBack: the balance is left alone.
TakesNothingBack(seen) == FALSE

TakesBack(seen) == seen = "CONFIRMED"

CancelCommission(h) ==
  LET o == handlers[h].key IN
  /\ handlers[h].op = "cancel"
  /\ commission' = [commission EXCEPT ![o].status = "CANCELLED"]
  /\ IF TakesBack(handlers[h].seen)
       THEN /\ Credit(-commission[o].amount)
            /\ credits' = [credits EXCEPT ![o] = @ - 1]
            /\ reversed' = reversed + commission[o].amount
       ELSE UNCHANGED <<account, credits, reversed>>
  /\ WritesAfter(commission[o].status = handlers[h].seen)
  /\ handlers' = [handlers EXCEPT ![h].op = "unschedule"]
  /\ UNCHANGED <<purchase, withdrawal, createJobs, lockJobs, strays, returned,
                 trouble>>

\* job.remove: refused while a worker holds the job.
RemoveLockJob(h) ==
  LET o == handlers[h].key IN
  /\ handlers[h].op = "unschedule"
  /\ lockJobs' = [lockJobs EXCEPT ![o] = IF @ = "active" THEN @ ELSE "none"]
  /\ Ends(h)
  /\ UNCHANGED <<purchase, affRows, createJobs, affHistory, trouble>>

-----------------------------------------------------------------------------
(* requestPayout, markPayoutPaid, rejectPayout                             *)

\* MUTANT of MayWithdraw: only the minimum is checked.
MayWithdrawAnything(amount) == account.active /\ account.balance >= MinPayout

MayWithdraw(amount) == /\ account.active
                       /\ account.balance >= MinPayout
                       /\ amount <= account.balance

ReadForPayout(h, p, amount) ==
  /\ withdrawal[p].status = "none"
  /\ \A g \in Handlers : handlers[g].key # p
  /\ MayWithdraw(amount)
  /\ Starts(h, "request", p, "none", amount)
  /\ UNCHANGED <<purchase, affRows, createJobs, lockJobs, affHistory, trouble>>

RequestAffiliatePayout(h) ==
  LET p == handlers[h].key
      amount == handlers[h].asked IN
  /\ handlers[h].op = "request"
  /\ withdrawal' = [withdrawal EXCEPT
                      ![p] = [status |-> "REQUESTED", amount |-> amount]]
  /\ account' = [account EXCEPT !.balance = @ - amount]
  /\ WritesAfter(MayWithdraw(amount))
  /\ Ends(h)
  /\ UNCHANGED <<purchase, commission, createJobs, lockJobs, credits, strays,
                 reversed, returned, trouble>>

ReadForPaid(h, p) ==
  /\ withdrawal[p].status \in {"REQUESTED", "REJECTED"}
  /\ Starts(h, "pay", p, withdrawal[p].status, 0)
  /\ UNCHANGED <<purchase, affRows, createJobs, lockJobs, affHistory, trouble>>

\* Every confirmed commission of the affiliate is marked paid with it.
MarkAffiliatePayoutPaid(h) ==
  LET p == handlers[h].key IN
  /\ handlers[h].op = "pay"
  /\ withdrawal' = [withdrawal EXCEPT ![p].status = "PAID"]
  /\ commission' = [o \in Purchases |->
                      IF commission[o].status = "CONFIRMED"
                        THEN [commission[o] EXCEPT !.status = "PAID"]
                        ELSE commission[o]]
  /\ WritesAfter(withdrawal[p].status = handlers[h].seen)
  /\ Ends(h)
  /\ UNCHANGED <<purchase, account, createJobs, lockJobs, credits, strays,
                 reversed, returned, trouble>>

MayReject(status) == status = "REQUESTED"

ReadForReject(h, p) ==
  /\ MayReject(withdrawal[p].status)
  /\ Starts(h, "reject", p, withdrawal[p].status, 0)
  /\ UNCHANGED <<purchase, affRows, createJobs, lockJobs, affHistory, trouble>>

RejectPayout(h) ==
  LET p == handlers[h].key IN
  /\ handlers[h].op = "reject"
  /\ withdrawal' = [withdrawal EXCEPT ![p].status = "REJECTED"]
  /\ account' = [account EXCEPT !.balance = @ + withdrawal[p].amount]
  /\ returned' = returned \cup {p}
  /\ WritesAfter(withdrawal[p].status = handlers[h].seen)
  /\ Ends(h)
  /\ UNCHANGED <<purchase, commission, createJobs, lockJobs, credits, strays,
                 reversed, trouble>>

\* approveAffiliate, and rejectAffiliate or updateAffiliate to SUSPENDED.
SetAffiliateStatus(active) ==
  /\ account.active # active
  /\ account' = [account EXCEPT !.active = active]
  /\ UNCHANGED <<purchase, commission, withdrawal, createJobs, lockJobs,
                 handlers, affHistory, trouble>>

-----------------------------------------------------------------------------
(* A handler dies with its process, or its transaction fails.  A job of    *)
(* the bus is tried again; auto-confirm has one attempt, but a job whose   *)
(* worker lost it is taken up again, and failed the next time: stalls are  *)
(* not counted here, either may happen at any.                             *)
TakenFrom(o) == \E phase \in {"delayed", "failed"} :
                  lockJobs' = [lockJobs EXCEPT ![o] = phase]

AffiliateTrouble(h) ==
  /\ handlers[h].op # "idle"
  /\ trouble < MaxTrouble
  /\ trouble' = trouble + 1
  /\ IF handlers[h].op = "confirm" THEN TakenFrom(handlers[h].key)
                                   ELSE UNCHANGED lockJobs
  /\ Ends(h)
  /\ UNCHANGED <<purchase, affRows, createJobs, affHistory>>

\* The lock of the job runs out under a worker that goes on.
ConfirmStalls(h) ==
  /\ handlers[h].op = "confirm"
  /\ trouble < MaxTrouble
  /\ trouble' = trouble + 1
  /\ TakenFrom(handlers[h].key)
  /\ handlers' = [handlers EXCEPT ![h].op = "stray"]
  /\ UNCHANGED <<purchase, affRows, createJobs, affHistory>>

\* The worker dies after confirmCommission committed: the job runs again.
ConfirmThenDie(h) ==
  LET o == handlers[h].key IN
  /\ handlers[h].op = "confirm"
  /\ handlers[h].seen = "PENDING"
  /\ trouble < MaxTrouble
  /\ trouble' = trouble + 1
  /\ Confirms(o)
  /\ TakenFrom(o)
  /\ Ends(h)
  /\ UNCHANGED <<purchase, withdrawal, createJobs, strays, reversed, returned>>

AffNext ==
  \/ \E o \in Purchases : PurchasePaid(o) \/ PurchaseDelivered(o)
  \/ \E h \in Handlers, o \in Purchases :
       \/ ReadForCreate(h, o)
       \/ ReadForConfirm(h, o)
       \/ PurchaseRefunded(h, o)
  \/ \E h \in Handlers, p \in Withdrawals :
       \/ \E amount \in Asks : ReadForPayout(h, p, amount)
       \/ ReadForPaid(h, p)
       \/ ReadForReject(h, p)
  \/ \E h \in Handlers :
       \/ CreateForOrder(h)
       \/ ConfirmCommission(h)
       \/ ReadForCancel(h)
       \/ CancelCommission(h)
       \/ RemoveLockJob(h)
       \/ RequestAffiliatePayout(h)
       \/ MarkAffiliatePayoutPaid(h)
       \/ RejectPayout(h)
       \/ AffiliateTrouble(h)
       \/ ConfirmStalls(h)
       \/ ConfirmThenDie(h)
  \/ \E active \in BOOLEAN : SetAffiliateStatus(active)

AffSpec == AffInit /\ [][AffNext]_affVars

-----------------------------------------------------------------------------
Earned(o) == IF commission[o].status \in {"CONFIRMED", "PAID"}
               THEN commission[o].amount ELSE 0
Taken(p) == IF p \in returned THEN 0 ELSE withdrawal[p].amount

\* As long as no write went by an outdated check, the account's two totals
\* are what its rows add up to: totalEarned the commissions confirmed or
\* paid, the balance the same less the withdrawals not given back.  The
\* schema calls them "confirmed, unpaid" and "all-time paid+confirmed".
AccountAddsUp ==
  ~outdated =>
    LET earned == SumFunction([o \in Purchases |-> Earned(o)])
        taken == SumFunction([p \in Withdrawals |-> Taken(p)]) IN
    account.totalEarned = earned /\ account.balance = earned - taken

\* As long as no write went by an outdated check, the affiliate owes at most
\* what refunds took back: a withdrawal alone never overdraws the balance.
OverdrawnOnlyByRefunds == ~outdated => account.balance + reversed >= 0

\* However often an order is delivered and its confirmation retried, every
\* credit of its commission but one is by a worker that had lost the job
\* confirm-<orderId>: confirmCommission locks nothing of what it read, so
\* this job is all that keeps two of them apart, and only while it is held.
NeverCreditedTwice == \A o \in Purchases : credits[o] <= 1 + strays[o]

\* A commission is final once paid or cancelled, unless its handler went by
\* an outdated check.
SettledForGood ==
  [][ ~outdated' => \A o \in Purchases :
        commission[o].status \in {"PAID", "CANCELLED"}
          => commission'[o] = commission[o] ]_affVars
=============================================================================
