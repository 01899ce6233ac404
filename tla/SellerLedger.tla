---------------------------- MODULE SellerLedger ----------------------------
(***************************************************************************)
(* One shop's listings and its payment account: what turns a listing live  *)
(* and bills it, what a sale enters in the ledger, and the payouts that    *)
(* empty it.                                                               *)
(*                                                                         *)
(*   products.service.ts          create, createDraftForStore, duplicate,  *)
(*                                update, updateForStore, publishProducts, *)
(*                                deleteForStore, delete                   *)
(*   admin-products.controller.ts bulkUpdate: publish, unpublish, archive  *)
(*   csv-import.service.ts        upsertRow of a listing that exists       *)
(*   stores.service.ts            adminSuspendStore, adminMarkPayoutPaid   *)
(*   moderation.service.ts        handleStrikes, when it suspends          *)
(*   orders.service.ts            checkout's ledger entries                *)
(*   store-orders.service.ts      requestPayout                            *)
(*   finances.service.ts          getOverview, getActivities               *)
(*                                                                         *)
(* publishProducts and requestPayout read the ledger, and write by what    *)
(* they read; READ COMMITTED lets another commit in between.  stale        *)
(* becomes TRUE when one writes and would by then read something else.     *)
(*                                                                         *)
(* The net amount of a store order stands for its sale and fee entries,    *)
(* the listing fee for itself and its VAT: they are written together.      *)
(* Amounts are in cents.  Left out: everything of a listing that does not  *)
(* decide whether it is live, the shop's other pages.                      *)
(***************************************************************************)
EXTENDS Integers, FiniteSets, Functions

CONSTANTS
  Listings,     \* products of the shop
  Sales,        \* store orders of the shop
  Payouts,      \* SellerPayout rows that can be asked for
  Clerks,       \* requests under way at one time
  SaleNets,     \* what a store order may leave the seller, in cents
  ListingFee,   \* platformSettings.listingFee with its VAT, in cents
  MaxBills,     \* bound: fees of one listing
  Unpaid        \* payoutId: null

VARIABLES
  shop,         \* Store.status
  listing,      \* the Product rows
  ledger,       \* the SellerLedgerEntry rows
  sale,         \* the payment of each order
  sellerPayout, \* the SellerPayout rows
  clerks,       \* what each request is doing
  stale,        \* history: a write went by a ledger that had changed
  unbilled      \* history: turned live by an import, or by create alone

sellerVars == <<shop, listing, ledger, sale, sellerPayout, clerks, stale,
                unbilled>>

ASSUME SellerKeysAssumption ==
  /\ IsFiniteSet(Listings) /\ IsFiniteSet(Sales) /\ IsFiniteSet(Payouts)
  /\ Unpaid \notin Payouts
  /\ Listings \cap Sales = {}
ASSUME SellerAmountsAssumption ==
  SaleNets \subseteq Nat /\ ListingFee \in Nat \ {0} /\ MaxBills \in Nat \ {0}

-----------------------------------------------------------------------------
ProductStatus == {"none", "DRAFT", "ACTIVE", "INACTIVE", "ARCHIVED"}
ListingRow == [status : ProductStatus, isActive : BOOLEAN, deleted : BOOLEAN]

Entry == [about : Listings \cup Sales, nth : Nat, amount : Int,
          payout : Payouts \cup {Unpaid}]

\* batch: the listings to publish.  charge: those without a fee as read.
\* entries: the unpaid entries as read.
Clerk == [op : {"idle", "created", "publish", "unpublish", "payout", "paid"},
          batch : SUBSET Listings, charge : SUBSET Listings,
          seen : ProductStatus, entries : SUBSET Entry,
          payout : Payouts \cup {Unpaid}]

Free == [op |-> "idle", batch |-> {}, charge |-> {}, seen |-> "none",
         entries |-> {}, payout |-> Unpaid]

\* An entry is told from another by what it is about and its number.
EntriesDiffer ==
  \A e, f \in ledger : e.about = f.about /\ e.nth = f.nth => e = f

SellerTypeOK ==
  /\ shop \in {"ACTIVE", "SUSPENDED"}
  /\ listing \in [Listings -> ListingRow]
  /\ ledger \subseteq Entry
  /\ EntriesDiffer
  /\ sale \in [Sales -> {"none", "pending", "paid", "cancelled"}]
  /\ sellerPayout \in [Payouts -> [status : {"none", "PENDING", "PAID"},
                                   amount : Int]]
  /\ clerks \in [Clerks -> Clerk]
  /\ stale \in BOOLEAN
  /\ unbilled \subseteq Listings

SellerInit ==
  /\ shop = "ACTIVE"
  /\ listing = [l \in Listings |-> [status |-> "none", isActive |-> FALSE,
                                    deleted |-> FALSE]]
  /\ ledger = {}
  /\ sale = [s \in Sales |-> "none"]
  /\ sellerPayout = [p \in Payouts |-> [status |-> "none", amount |-> 0]]
  /\ clerks = [c \in Clerks |-> Free]
  /\ stale = FALSE
  /\ unbilled = {}

-----------------------------------------------------------------------------
Exists(l) == listing[l].status # "none"
Total(entries) == SumFunction([e \in entries |-> e.amount])
UnpaidEntries == {e \in ledger : e.payout = Unpaid}
FeesOf(l) == {e \in ledger : e.about = l}

ClerkStarts(c, work) ==
  /\ clerks[c].op = "idle"
  /\ clerks' = [clerks EXCEPT ![c] = work]
ClerkEnds(c) == clerks' = [clerks EXCEPT ![c] = Free]

\* What every write that hides a listing sets, or should.
Hidden(status) == [status |-> status, isActive |-> FALSE, deleted |-> FALSE]

-----------------------------------------------------------------------------
(* Listings that are not for sale                                          *)

\* createDraftForStore, duplicate: DRAFT; create with isActive false: INACTIVE.
CreateHidden(l) ==
  /\ ~Exists(l)
  /\ \E status \in {"DRAFT", "INACTIVE"} :
       listing' = [listing EXCEPT ![l] = Hidden(status)]
  /\ UNCHANGED <<shop, ledger, sale, sellerPayout, clerks, stale, unbilled>>

\* bulkUpdate unpublish and archive.
BulkHide(l, status) ==
  /\ Exists(l)
  /\ status \in {"INACTIVE", "ARCHIVED"}
  /\ listing' = [listing EXCEPT ![l] = [@ EXCEPT !.status = status,
                                                 !.isActive = FALSE]]
  /\ UNCHANGED <<shop, ledger, sale, sellerPayout, clerks, stale, unbilled>>

\* deleteForStore: the row stays.
DeleteForStore(l) ==
  /\ Exists(l)
  /\ listing' = [listing EXCEPT ![l] = [status |-> "ARCHIVED",
                                        isActive |-> FALSE, deleted |-> TRUE]]
  /\ UNCHANGED <<shop, ledger, sale, sellerPayout, clerks, stale, unbilled>>

\* update with isActive false reads the status; updateForStore does not.
ReadForUnpublish(c, l) ==
  /\ Exists(l)
  /\ ClerkStarts(c, [Free EXCEPT !.op = "unpublish", !.batch = {l},
                                 !.seen = listing[l].status])
  /\ UNCHANGED <<shop, listing, ledger, sale, sellerPayout, stale, unbilled>>

Unpublish(c) ==
  /\ clerks[c].op = "unpublish"
  /\ \E status \in {"INACTIVE"} \cup ({"DRAFT"} \cap {clerks[c].seen}) :
       listing' = [l \in Listings |->
                     IF l \in clerks[c].batch
                       THEN [listing[l] EXCEPT !.status = status,
                                               !.isActive = FALSE]
                       ELSE listing[l]]
  /\ ClerkEnds(c)
  /\ UNCHANGED <<shop, ledger, sale, sellerPayout, stale, unbilled>>

\* adminSuspendStore; handleStrikes at the limit of critical strikes.
SuspendStore ==
  /\ shop' = "SUSPENDED"
  /\ listing' = [l \in Listings |->
                   IF Exists(l) THEN [listing[l] EXCEPT !.status = "INACTIVE"]
                                ELSE listing[l]]
  /\ UNCHANGED <<ledger, sale, sellerPayout, clerks, stale, unbilled>>

-----------------------------------------------------------------------------
(* Listings going live                                                     *)

\* create with isActive: the row is live, publishProducts is called next.
CreateLive(c, l) ==
  /\ ~Exists(l)
  /\ ClerkStarts(c, [Free EXCEPT !.op = "created", !.batch = {l}])
  /\ listing' = [listing EXCEPT ![l] = [status |-> "ACTIVE", isActive |-> TRUE,
                                        deleted |-> FALSE]]
  /\ unbilled' = unbilled \cup {l}
  /\ UNCHANGED <<shop, ledger, sale, sellerPayout, stale>>

\* upsertRow of a row whose slug a listing has: no fee, whoever owns it.
ImportRow(l, status) ==
  /\ Exists(l)
  /\ listing' = [listing EXCEPT
                    ![l] = [@ EXCEPT !.status = status,
                                     !.isActive = (status = "ACTIVE")]]
  /\ unbilled' = IF status = "ACTIVE" THEN unbilled \cup {l} ELSE unbilled
  /\ UNCHANGED <<shop, ledger, sale, sellerPayout, clerks, stale>>

\* MUTANT of ToCharge: publishing bills whether or not the fee was paid.
ToChargeAlways(batch) == batch

\* publishProducts' guard: a listing is billed once, however often published.
ToCharge(batch) == {l \in batch : FeesOf(l) = {}}

\* publishProducts reads the batch and the fees billed so far.
BeginPublish(c) ==
  /\ \/ /\ clerks[c].op = "idle"
        /\ \E batch \in SUBSET {l \in Listings : Exists(l)} \ {{}} :
             clerks' = [clerks EXCEPT
                          ![c] = [Free EXCEPT !.op = "publish",
                                              !.batch = batch,
                                              !.charge = ToCharge(batch)]]
     \/ /\ clerks[c].op = "created"
        /\ clerks' = [clerks EXCEPT
                        ![c] = [@ EXCEPT !.op = "publish",
                                         !.charge = ToCharge(clerks[c].batch)]]
  /\ UNCHANGED <<shop, listing, ledger, sale, sellerPayout, stale, unbilled>>

NewFees(charge) == {[about |-> l, nth |-> Cardinality(FeesOf(l)) + 1,
                     amount |-> -ListingFee, payout |-> Unpaid] : l \in charge}

\* MUTANT of Published: the flag is set, the status is not.
PublishedFlagOnly(row) == [row EXCEPT !.isActive = TRUE]

Published(row) == [row EXCEPT !.status = "ACTIVE", !.isActive = TRUE]

\* ... then bills and publishes, all or nothing.
PublishProducts(c) ==
  LET batch == clerks[c].batch
      charge == clerks[c].charge IN
  /\ clerks[c].op = "publish"
  /\ \A l \in charge : Cardinality(FeesOf(l)) < MaxBills
  /\ ledger' = ledger \cup NewFees(charge)
  /\ listing' = [l \in Listings |-> IF l \in batch THEN Published(listing[l])
                                                   ELSE listing[l]]
  /\ stale' = (stale \/ charge # ToCharge(batch))
  /\ unbilled' = unbilled \ batch
  /\ ClerkEnds(c)
  /\ UNCHANGED <<shop, sale, sellerPayout>>

-----------------------------------------------------------------------------
(* Sales and payouts                                                       *)

\* With online payments on, checkout enters the sale before it is paid.
CheckoutSale(s) ==
  /\ sale[s] = "none"
  /\ sale' = [sale EXCEPT ![s] = "pending"]
  /\ \E net \in SaleNets :
       ledger' = ledger \cup {[about |-> s, nth |-> 1, amount |-> net,
                               payout |-> Unpaid]}
  /\ UNCHANGED <<shop, listing, sellerPayout, clerks, stale, unbilled>>

\* A payment or a cancellation leaves the ledger alone.
SettleSale(s, outcome) ==
  /\ sale[s] = "pending"
  /\ outcome \in {"paid", "cancelled"}
  /\ sale' = [sale EXCEPT ![s] = outcome]
  /\ UNCHANGED <<shop, listing, ledger, sellerPayout, clerks, stale, unbilled>>

Payable(entries) == entries # {} /\ Total(entries) > 0

\* requestPayout reads the unpaid entries ...
ReadForSellerPayout(c, p) ==
  /\ sellerPayout[p].status = "none"
  /\ \A d \in Clerks : clerks[d].payout # p
  /\ Payable(UnpaidEntries)
  /\ ClerkStarts(c, [Free EXCEPT !.op = "payout", !.payout = p,
                                 !.entries = UnpaidEntries])
  /\ UNCHANGED <<shop, listing, ledger, sale, sellerPayout, stale, unbilled>>

\* MUTANT of TaggedEntries: everything unpaid is tagged, new entries too.
TaggedUnpaid(entries) == UnpaidEntries

\* updateMany names the entries that were read, by id.
TaggedEntries(entries) ==
  {e \in ledger : \E f \in entries : e.about = f.about /\ e.nth = f.nth}

\* ... and pays out what they came to.
RequestSellerPayout(c) ==
  LET p == clerks[c].payout
      tagged == TaggedEntries(clerks[c].entries) IN
  /\ clerks[c].op = "payout"
  /\ sellerPayout' = [sellerPayout EXCEPT
                        ![p] = [status |-> "PENDING",
                                amount |-> Total(clerks[c].entries)]]
  /\ ledger' = (ledger \ tagged)
                 \cup {[e EXCEPT !.payout = p] : e \in tagged}
  /\ stale' = (stale \/ ~(clerks[c].entries \subseteq UnpaidEntries))
  /\ ClerkEnds(c)
  /\ UNCHANGED <<shop, listing, sale, unbilled>>

\* adminMarkPayoutPaid: the status is checked and set, nothing else moves.
MarkSellerPayoutPaid(p) ==
  /\ sellerPayout[p].status = "PENDING"
  /\ sellerPayout' = [sellerPayout EXCEPT ![p].status = "PAID"]
  /\ UNCHANGED <<shop, listing, ledger, sale, clerks, stale, unbilled>>

\* A request dies, or its transaction is rolled back.
ClerkDies(c) ==
  /\ clerks[c].op # "idle"
  /\ ClerkEnds(c)
  /\ UNCHANGED <<shop, listing, ledger, sale, sellerPayout, stale, unbilled>>

SellerNext ==
  \/ \E l \in Listings :
       \/ CreateHidden(l)
       \/ DeleteForStore(l)
       \/ \E status \in {"INACTIVE", "ARCHIVED"} : BulkHide(l, status)
       \/ \E status \in ProductStatus \ {"none"} : ImportRow(l, status)
  \/ SuspendStore
  \/ \E c \in Clerks :
       \/ \E l \in Listings : ReadForUnpublish(c, l) \/ CreateLive(c, l)
       \/ \E p \in Payouts : ReadForSellerPayout(c, p)
       \/ Unpublish(c)
       \/ BeginPublish(c)
       \/ PublishProducts(c)
       \/ RequestSellerPayout(c)
       \/ ClerkDies(c)
  \/ \E s \in Sales :
       \/ CheckoutSale(s)
       \/ \E outcome \in {"paid", "cancelled"} : SettleSale(s, outcome)
  \/ \E p \in Payouts : MarkSellerPayoutPaid(p)

SellerSpec == SellerInit /\ [][SellerNext]_sellerVars

-----------------------------------------------------------------------------
\* status and isActive say the same of every listing, as the comments of
\* updateForStore ask: four paths once set one and not the other.  Suspending
\* the shop is the exception.
LiveFlagsTogether ==
  shop = "ACTIVE" =>
    \A l \in Listings : listing[l].isActive <=> listing[l].status = "ACTIVE"

\* What publishProducts turned live has been billed, through any number of
\* unpublishings, deletions and crashes.
PublishedIsBilled ==
  \A l \in Listings :
    listing[l].status = "ACTIVE" /\ l \notin unbilled => FeesOf(l) # {}

\* "A listing fee is charged when a listing is published, once per product",
\* unless two publishings of it overlapped.
BilledOnce == ~stale => \A l \in Listings : Cardinality(FeesOf(l)) <= 1

\* The running balance of getActivities, where a payout is a withdrawal,
\* ends at the current balance of getOverview, where it is a tag; and what a
\* payout pays is what the entries tagged with it come to.  Unless two
\* payouts of the same entries overlapped.
BalancesAgree ==
  ~stale =>
    /\ Total(ledger) - SumFunction([p \in Payouts |-> sellerPayout[p].amount])
         = Total(UnpaidEntries)
    /\ \A p \in Payouts :
         sellerPayout[p].amount = Total({e \in ledger : e.payout = p})
=============================================================================
