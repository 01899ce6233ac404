---------------------------- MODULE FinanceProofs ----------------------------
(***************************************************************************)
(* What TLAPS proves of a shop's finances.                                 *)
(*                                                                         *)
(* SellerLedger, for any listings, sales, payouts, requests and amounts:   *)
(* the two flags of a listing agree, what publishProducts turned live has  *)
(* been billed, and is billed once unless two publishings overlapped; and  *)
(* the balance of the ledger page is that of the overview.  The argument:  *)
(* a request to publish knows, from when it read the ledger, which of its  *)
(* listings had a fee (Reads); entries are tagged but never removed, so    *)
(* that stays true until it writes; and a payout's amount is the sum of    *)
(* the entries tagged with it (PayInv).                                    *)
(*                                                                         *)
(* BillingCards, for any payment methods, prints on them and requests      *)
(* under way: types, that no card is on record twice, and that one card    *)
(* is the default.  The argument: who inserts holds the lock of the Store  *)
(* row since it found no row with the fingerprint (Inserting); nobody      *)
(* else can insert while it does, and the requests that take no lock only  *)
(* remove rows.  As long as no request misread the default, a shop with    *)
(* cards and no default has a deletion under way that will name one        *)
(* (OneOrRepaired).                                                        *)
(*                                                                         *)
(* AffiliatePayouts, for any orders, withdrawals, handlers and amounts:    *)
(* types, that of the credits of a commission all but one are by workers   *)
(* that had lost the job, that a commission paid or cancelled is final,    *)
(* that only a refund can overdraw an account, and that the account's      *)
(* totals are the sums of its commissions and withdrawals. A step moves    *)
(* one handler on (Turns). What the handlers carry stays true because an   *)
(* order has one create job and one confirm job, and each has one handler  *)
(* that holds it: OneJobEach, the heart of the inductive invariant. A      *)
(* worker that lost its job may credit beside the holder; strays counts    *)
(* those, and what the holder carries compares the two (Carries). Whatever *)
(* moves the account moves, in the same transaction, one commission or one *)
(* withdrawal by the same amount, that is one term of one sum (EarnedSum,  *)
(* TakenSum), unless it went by an outdated check. SumsInv adds what the   *)
(* handler of a withdrawal knows of its row.                               *)
(***************************************************************************)
EXTENDS SellerLedger, BillingCards, AffiliatePayouts, SumTheorems,
        SequenceTheorems, TLAPS

-----------------------------------------------------------------------------
(* SellerLedger                                                            *)

-----------------------------------------------------------------------------
(* The inductive invariant                                                 *)

\* Something is entered about l.
Has(all, l) == \E e \in all : e.about = l

\* At most one thing is entered about l.
AtMostOne(all, l) == \A e, f \in all : e.about = l /\ f.about = l => e = f

RowsType ==
  /\ listing \in [Listings -> ListingRow]
  /\ ledger \subseteq Entry /\ IsFiniteSet(ledger)
  /\ stale \in BOOLEAN
  /\ unbilled \subseteq Listings

\* What a request to publish read of the ledger is still so.
Reads(all, r) ==
  r.op = "publish" =>
    /\ r.charge \subseteq r.batch
    /\ \A l \in r.batch \ r.charge : Has(all, l)

ClerksSound ==
  /\ clerks \in [Clerks -> Clerk]
  /\ \A c \in Clerks : Reads(ledger, clerks[c])

OneFeeEach == ~stale => \A l \in Listings : AtMostOne(ledger, l)

Billed ==
  \A l \in Listings :
    listing[l].status = "ACTIVE" /\ l \notin unbilled => Has(ledger, l)

SellerInv ==
  /\ RowsType /\ ClerksSound /\ OneFeeEach /\ Billed
  /\ LiveFlagsTogether

-----------------------------------------------------------------------------
LEMMA FeesAreThere ==
  ASSUME NEW l PROVE FeesOf(l) = {} <=> ~Has(ledger, l)
BY DEF FeesOf, Has

\* Entries stay: what was entered about a listing still is.
Kept == \A l \in Listings : Has(ledger, l) => Has(ledger', l)

LEMMA ReadsOn ==
  ASSUME Kept, NEW r \in Clerk, Reads(ledger, r) PROVE Reads(ledger', r)
BY DEF Kept, Reads, Clerk

\* Request c goes on to r, of which what it read is so.
LEMMA ClerkTurns ==
  ASSUME ClerksSound, Kept, NEW c \in Clerks, NEW r \in Clerk,
         Reads(ledger', r), clerks' = [clerks EXCEPT ![c] = r]
  PROVE  ClerksSound'
<1>1. clerks' \in [Clerks -> Clerk]
  BY DEF ClerksSound
<1>2. ASSUME NEW d \in Clerks PROVE Reads(ledger', clerks'[d])
  <2>1. clerks[d] \in Clerk /\ Reads(ledger, clerks[d])
    BY DEF ClerksSound
  <2>2. CASE d = c
    BY <2>2 DEF ClerksSound
  <2>3. CASE d # c
    BY <2>1, <2>3, ReadsOn DEF ClerksSound
  <2> QED
    BY <2>2, <2>3
<1> QED
  BY <1>1, <1>2 DEF ClerksSound

LEMMA FreeClerk ==
  ASSUME NEW all PROVE Free \in Clerk /\ Reads(all, Free)
BY DEF Free, Clerk, ProductStatus, Reads

LEMMA ClerkFree ==
  ASSUME ClerksSound, Kept, NEW c \in Clerks, ClerkEnds(c) PROVE ClerksSound'
BY FreeClerk, ClerkTurns DEF ClerkEnds

LEMMA ClerksStay ==
  ASSUME ClerksSound, Kept, UNCHANGED clerks PROVE ClerksSound'
BY ReadsOn DEF ClerksSound

LEMMA LedgerStays ==
  ASSUME SellerInv, UNCHANGED <<ledger, stale>>
  PROVE  Kept /\ OneFeeEach'
BY DEF Kept, OneFeeEach, SellerInv

-----------------------------------------------------------------------------
(* Listings                                                                *)

\* A listing after a write: its flags agree, or it is hidden by a suspension.
LEMMA ListingWrite ==
  ASSUME SellerInv, UNCHANGED <<ledger, stale, shop>>, unbilled' \subseteq Listings,
         unbilled \subseteq unbilled',
         listing' \in [Listings -> ListingRow],
         \A l \in Listings :
           \/ listing'[l] = listing[l]
           \/ /\ listing'[l].isActive <=> listing'[l].status = "ACTIVE"
              /\ listing'[l].status = "ACTIVE" => l \in unbilled',
         ClerksSound'
  PROVE  SellerInv'
<1>1. RowsType'
  BY DEF SellerInv, RowsType
<1>2. OneFeeEach'
  BY LedgerStays
<1>3. Billed'
  BY DEF SellerInv, Billed
<1>4. LiveFlagsTogether'
  BY DEF SellerInv, LiveFlagsTogether
<1> QED
  BY <1>1, <1>2, <1>3, <1>4 DEF SellerInv

LEMMA HidesInv ==
  ASSUME SellerInv, NEW l \in Listings,
         \/ CreateHidden(l) \/ DeleteForStore(l)
         \/ \E status \in {"INACTIVE", "ARCHIVED"} : BulkHide(l, status)
         \/ \E status \in ProductStatus \ {"none"} : ImportRow(l, status)
  PROVE  SellerInv'
<1>1. listing \in [Listings -> ListingRow] /\ listing[l] \in ListingRow
  BY DEF SellerInv, RowsType
<1>2. UNCHANGED <<ledger, stale, shop, clerks>>
  BY DEF CreateHidden, DeleteForStore, BulkHide, ImportRow
<1>3. ClerksSound'
  BY <1>2, LedgerStays, ClerksStay DEF SellerInv
<1>4. ASSUME NEW row \in ListingRow, listing' = [listing EXCEPT ![l] = row],
             row.isActive <=> row.status = "ACTIVE",
             row.status = "ACTIVE" => l \in unbilled',
             unbilled \subseteq unbilled', unbilled' \subseteq Listings
      PROVE  SellerInv'
  BY <1>1, <1>2, <1>3, <1>4, ListingWrite
<1>5. unbilled \subseteq Listings
  BY DEF SellerInv, RowsType
<1>6. CASE CreateHidden(l)
  <2>1. ASSUME NEW status \in {"DRAFT", "INACTIVE"}
        PROVE  /\ Hidden(status) \in ListingRow
               /\ Hidden(status).status = status
               /\ Hidden(status).isActive = FALSE
    BY DEF Hidden, ListingRow, ProductStatus
  <2> QED
    BY <1>4, <1>5, <1>6, <2>1 DEF CreateHidden
<1>7. CASE DeleteForStore(l)
  <2>1. [status |-> "ARCHIVED", isActive |-> FALSE, deleted |-> TRUE]
          \in ListingRow
    BY DEF ListingRow, ProductStatus
  <2> QED
    BY <1>4, <1>5, <1>7, <2>1 DEF DeleteForStore
<1>8. ASSUME NEW status \in ProductStatus, NEW live \in BOOLEAN
      PROVE  LET row == [listing[l] EXCEPT !.status = status, !.isActive = live]
             IN  /\ row \in ListingRow
                 /\ row.status = status /\ row.isActive = live
  BY <1>1 DEF ListingRow
<1>9. ASSUME NEW status \in {"INACTIVE", "ARCHIVED"}, BulkHide(l, status)
      PROVE  SellerInv'
  <2>1. status \in ProductStatus
    BY DEF ProductStatus
  <2>2. PICK row \in ListingRow :
          /\ row = [listing[l] EXCEPT !.status = status, !.isActive = FALSE]
          /\ row.status = status /\ row.isActive = FALSE
    BY <1>8, <2>1
  <2> QED
    BY <1>1, <1>4, <1>5, <1>9, <2>2 DEF BulkHide
<1>10. ASSUME NEW status \in ProductStatus \ {"none"}, ImportRow(l, status)
       PROVE  SellerInv'
  <2>0. PICK live \in BOOLEAN : live = (status = "ACTIVE")
    OBVIOUS
  <2>1. PICK row \in ListingRow :
          /\ row = [listing[l] EXCEPT !.status = status, !.isActive = live]
          /\ row.status = status /\ row.isActive = live
    BY <1>8
  <2>2. /\ unbilled \subseteq unbilled' /\ unbilled' \subseteq Listings
        /\ row.status = "ACTIVE" => l \in unbilled'
    BY <1>5, <1>10, <2>1 DEF ImportRow
  <2> QED
    BY <1>1, <1>4, <1>10, <2>0, <2>1, <2>2 DEF ImportRow
<1> QED
  BY <1>6, <1>7, <1>9, <1>10

LEMMA UnpublishInv ==
  ASSUME SellerInv, NEW c \in Clerks, Unpublish(c) PROVE SellerInv'
<1>1. /\ listing \in [Listings -> ListingRow] /\ unbilled \subseteq Listings
      /\ ClerksSound
  BY DEF SellerInv, RowsType
<1>2. UNCHANGED <<ledger, stale, shop, unbilled>> /\ ClerkEnds(c)
  BY DEF Unpublish
<1>3. PICK status \in {"INACTIVE", "DRAFT"} :
        listing' = [l \in Listings |->
                      IF l \in clerks[c].batch
                        THEN [listing[l] EXCEPT !.status = status,
                                                !.isActive = FALSE]
                        ELSE listing[l]]
  BY DEF Unpublish
<1>4. ASSUME NEW l \in Listings
      PROVE  /\ listing'[l] \in ListingRow
             /\ \/ listing'[l] = listing[l]
                \/ listing'[l].status = status /\ ~listing'[l].isActive
  BY <1>1, <1>3 DEF ListingRow, ProductStatus
<1>5. listing' \in [Listings -> ListingRow]
  BY <1>3, <1>4
<1>6. ClerksSound'
  BY <1>1, <1>2, LedgerStays, ClerkFree
<1> QED
  BY <1>1, <1>2, <1>4, <1>5, <1>6, ListingWrite

LEMMA SuspendStoreInv ==
  ASSUME SellerInv, SuspendStore PROVE SellerInv'
<1>1. /\ listing \in [Listings -> ListingRow]
      /\ UNCHANGED <<ledger, stale, unbilled, clerks>> /\ shop' = "SUSPENDED"
  BY DEF SellerInv, RowsType, SuspendStore
<1>2. ASSUME NEW l \in Listings
      PROVE  /\ listing'[l] \in ListingRow
             /\ listing'[l].status \in {"none", "INACTIVE"}
  BY <1>1 DEF SuspendStore, ListingRow, ProductStatus, Exists
<1>3. listing' \in [Listings -> ListingRow]
  BY <1>2 DEF SuspendStore
<1>4. RowsType'
  BY <1>1, <1>3 DEF SellerInv, RowsType
<1>5. ClerksSound' /\ OneFeeEach'
  BY <1>1, LedgerStays, ClerksStay DEF SellerInv
<1>6. Billed' /\ LiveFlagsTogether'
  BY <1>1, <1>2 DEF Billed, LiveFlagsTogether
<1> QED
  BY <1>4, <1>5, <1>6 DEF SellerInv

LEMMA CreateLiveInv ==
  ASSUME SellerInv, NEW c \in Clerks, NEW l \in Listings, CreateLive(c, l)
  PROVE  SellerInv'
<1>1. /\ listing \in [Listings -> ListingRow] /\ unbilled \subseteq Listings
      /\ ClerksSound
  BY DEF SellerInv, RowsType
<1>2. UNCHANGED <<ledger, stale, shop>> /\ unbilled' = unbilled \cup {l}
  BY DEF CreateLive
<1>3. [status |-> "ACTIVE", isActive |-> TRUE, deleted |-> FALSE] \in ListingRow
  BY DEF ListingRow, ProductStatus
<1>4. /\ listing' \in [Listings -> ListingRow]
      /\ listing'[l].status = "ACTIVE" /\ listing'[l].isActive
      /\ \A k \in Listings : k # l => listing'[k] = listing[k]
  BY <1>1, <1>3 DEF CreateLive
<1>5. PICK r : r = [Free EXCEPT !.op = "created", !.batch = {l}]
  OBVIOUS
<1>6. r \in Clerk /\ r.op = "created"
  BY <1>5 DEF Free, Clerk, ProductStatus
<1>7. clerks' = [clerks EXCEPT ![c] = r] /\ Reads(ledger', r)
  BY <1>5, <1>6 DEF CreateLive, ClerkStarts, Reads
<1>8. ClerksSound'
  BY <1>1, <1>2, <1>6, <1>7, LedgerStays, ClerkTurns
<1> QED
  BY <1>1, <1>2, <1>4, <1>8, ListingWrite

-----------------------------------------------------------------------------
(* Requests that read, end, or write something else                        *)

\* A step that leaves listings and ledger alone.
LEMMA ClerkOnly ==
  ASSUME SellerInv, UNCHANGED <<shop, listing, ledger, stale, unbilled>>,
         \/ UNCHANGED clerks
         \/ \E c \in Clerks, r \in Clerk :
              Reads(ledger, r) /\ clerks' = [clerks EXCEPT ![c] = r]
  PROVE  SellerInv'
<1>1. RowsType' /\ Billed' /\ LiveFlagsTogether'
  BY DEF SellerInv, RowsType, Billed, LiveFlagsTogether
<1>2. OneFeeEach' /\ Kept
  BY LedgerStays
<1>3. ClerksSound'
  BY <1>2, ClerksStay, ClerkTurns DEF SellerInv
<1> QED
  BY <1>1, <1>2, <1>3 DEF SellerInv

LEMMA ReadsInv ==
  ASSUME SellerInv, NEW c \in Clerks,
         \/ \E l \in Listings : ReadForUnpublish(c, l)
         \/ \E p \in Payouts : ReadForSellerPayout(c, p)
         \/ ClerkDies(c)
  PROVE  SellerInv'
<1>1. CASE ClerkDies(c)
  BY <1>1, FreeClerk, ClerkOnly DEF ClerkDies, ClerkEnds
<1>2. ASSUME NEW l \in Listings, ReadForUnpublish(c, l) PROVE SellerInv'
  <2>1. listing[l].status \in ProductStatus
    BY DEF SellerInv, RowsType, ListingRow
  <2>2. PICK r : r = [Free EXCEPT !.op = "unpublish", !.batch = {l},
                                  !.seen = listing[l].status]
    OBVIOUS
  <2>3. r \in Clerk /\ Reads(ledger, r)
    BY <2>1, <2>2 DEF Free, Clerk, Reads
  <2>4. clerks' = [clerks EXCEPT ![c] = r]
    BY <1>2, <2>2 DEF ReadForUnpublish, ClerkStarts
  <2> QED
    BY <1>2, <2>3, <2>4, ClerkOnly DEF ReadForUnpublish
<1>3. ASSUME NEW p \in Payouts, ReadForSellerPayout(c, p) PROVE SellerInv'
  <2>1. UnpaidEntries \subseteq Entry
    BY DEF SellerInv, RowsType, UnpaidEntries
  <2>2. PICK r : r = [Free EXCEPT !.op = "payout", !.payout = p,
                                  !.entries = UnpaidEntries]
    OBVIOUS
  <2>3. r \in Clerk /\ Reads(ledger, r)
    BY <2>1, <2>2 DEF Free, Clerk, Reads, ProductStatus
  <2>4. clerks' = [clerks EXCEPT ![c] = r]
    BY <1>3, <2>2 DEF ReadForSellerPayout, ClerkStarts
  <2> QED
    BY <1>3, <2>3, <2>4, ClerkOnly DEF ReadForSellerPayout
<1> QED
  BY <1>1, <1>2, <1>3

\* publishProducts reads which of its listings have a fee.
LEMMA ToChargeReads ==
  ASSUME NEW batch, NEW l
  PROVE  /\ ToCharge(batch) \subseteq batch
         /\ l \in ToCharge(batch) <=> l \in batch /\ ~Has(ledger, l)
BY FeesAreThere DEF ToCharge

LEMMA BeginPublishInv ==
  ASSUME SellerInv, NEW c \in Clerks, BeginPublish(c) PROVE SellerInv'
<1>1. /\ UNCHANGED <<shop, listing, ledger, stale, unbilled>>
      /\ clerks \in [Clerks -> Clerk]
  BY DEF BeginPublish, SellerInv, ClerksSound
<1>2. ASSUME NEW r \in Clerk, clerks' = [clerks EXCEPT ![c] = r],
             r.charge = ToCharge(r.batch)
      PROVE  SellerInv'
  <2>1. Reads(ledger, r)
    BY <1>2, ToChargeReads DEF Reads
  <2> QED
    BY <1>1, <1>2, <2>1, ClerkOnly
<1>3. ASSUME NEW batch \in SUBSET Listings,
             clerks' = [clerks EXCEPT
                          ![c] = [Free EXCEPT !.op = "publish",
                                              !.batch = batch,
                                              !.charge = ToCharge(batch)]]
      PROVE  SellerInv'
  <2>1. PICK r : r = [Free EXCEPT !.op = "publish", !.batch = batch,
                                  !.charge = ToCharge(batch)]
    OBVIOUS
  <2>2. ToCharge(batch) \subseteq Listings
    BY ToChargeReads
  <2>3. r \in Clerk /\ r.charge = ToCharge(r.batch)
    BY <2>1, <2>2 DEF Free, Clerk, ProductStatus
  <2> QED
    BY <1>2, <1>3, <2>1, <2>3
<1>4. CASE clerks' = [clerks EXCEPT
                        ![c] = [@ EXCEPT !.op = "publish",
                                         !.charge = ToCharge(clerks[c].batch)]]
  <2>1. PICK w \in Clerk : w = clerks[c]
    BY <1>1
  <2>2. PICK r : r = [w EXCEPT !.op = "publish", !.charge = ToCharge(w.batch)]
    OBVIOUS
  <2>3. ToCharge(w.batch) \subseteq Listings
    BY ToChargeReads DEF Clerk
  <2>4. r \in Clerk /\ r.charge = ToCharge(r.batch)
    BY <2>2, <2>3 DEF Clerk
  <2>5. clerks' = [clerks EXCEPT ![c] = r]
    BY <1>1, <1>4, <2>1, <2>2
  <2> QED
    BY <1>2, <2>4, <2>5
<1> QED
  BY <1>3, <1>4 DEF BeginPublish

-----------------------------------------------------------------------------
(* Publishing                                                              *)

LEMMA ImageFinite ==
  ASSUME NEW S, IsFiniteSet(S), NEW f, DOMAIN f = S, f = [x \in S |-> f[x]]
  PROVE  IsFiniteSet({f[x] : x \in S})
<1> DEFINE T == {f[x] : x \in S}
<1>1. f \in Surjection(S, T)
  BY DEF Surjection
<1> QED
  BY <1>1, FS_Surjection

LEMMA NewFeesSound ==
  ASSUME SellerInv, NEW charge \in SUBSET Listings
  PROVE  /\ NewFees(charge) \subseteq Entry /\ IsFiniteSet(NewFees(charge))
         /\ \A l \in charge : Has(NewFees(charge), l)
         /\ \A l : Has(NewFees(charge), l) => l \in charge
         /\ \A l : AtMostOne(NewFees(charge), l)
<1> DEFINE f == [l \in charge |->
                   [about |-> l, nth |-> Cardinality(FeesOf(l)) + 1,
                    amount |-> -ListingFee, payout |-> Unpaid]]
<1>1. NewFees(charge) = {f[l] : l \in charge}
  BY DEF NewFees
<1>2. ASSUME NEW l \in charge PROVE f[l] \in Entry /\ f[l].about = l
  <2>1. FeesOf(l) \subseteq ledger /\ IsFiniteSet(ledger)
    BY DEF FeesOf, SellerInv, RowsType
  <2>2. Cardinality(FeesOf(l)) + 1 \in Nat
    BY <2>1, FS_Subset, FS_CardinalityType
  <2>3. -ListingFee \in Int
    BY SellerAmountsAssumption
  <2> QED
    BY <2>2, <2>3 DEF Entry
<1>3. IsFiniteSet(charge)
  BY SellerKeysAssumption, FS_Subset
<1>4. IsFiniteSet(NewFees(charge))
  <2>1. DOMAIN f = charge /\ f = [l \in charge |-> f[l]]
    OBVIOUS
  <2> HIDE DEF f
  <2> QED
    BY <1>1, <1>3, <2>1, ImageFinite
<1> HIDE DEF f
<1> QED
  BY <1>1, <1>2, <1>4 DEF Has, AtMostOne

LEMMA PublishProductsInv ==
  ASSUME SellerInv, NEW c \in Clerks, PublishProducts(c) PROVE SellerInv'
<1>1. PICK w \in Clerk : w = clerks[c] /\ Reads(ledger, w)
  BY DEF SellerInv, ClerksSound
<1>2. PICK batch \in SUBSET Listings, charge \in SUBSET Listings :
        /\ batch = w.batch /\ charge = w.charge /\ charge \subseteq batch
        /\ \A l \in batch \ charge : Has(ledger, l)
  BY <1>1 DEF PublishProducts, Reads, Clerk
<1>3. /\ ledger' = ledger \cup NewFees(charge)
      /\ listing' = [l \in Listings |-> IF l \in batch
                                          THEN Published(listing[l])
                                          ELSE listing[l]]
      /\ stale' = (stale \/ charge # ToCharge(batch))
      /\ unbilled' = unbilled \ batch
      /\ ClerkEnds(c) /\ UNCHANGED shop
  BY <1>1, <1>2 DEF PublishProducts
<1>4. /\ NewFees(charge) \subseteq Entry /\ IsFiniteSet(NewFees(charge))
      /\ \A l \in charge : Has(NewFees(charge), l)
      /\ \A l : Has(NewFees(charge), l) => l \in charge
      /\ \A l : AtMostOne(NewFees(charge), l)
  BY NewFeesSound
<1>5. /\ listing \in [Listings -> ListingRow]
      /\ ledger \subseteq Entry /\ IsFiniteSet(ledger)
      /\ stale \in BOOLEAN /\ unbilled \subseteq Listings
      /\ OneFeeEach /\ Billed /\ LiveFlagsTogether /\ ClerksSound
  BY DEF SellerInv, RowsType
<1>6. \A l \in Listings :
        /\ listing'[l] \in ListingRow
        /\ l \in batch => listing'[l].status = "ACTIVE" /\ listing'[l].isActive
        /\ l \notin batch => listing'[l] = listing[l]
  BY <1>3, <1>5 DEF Published, ListingRow, ProductStatus
<1>7. RowsType'
  <2>1. listing' \in [Listings -> ListingRow]
    BY <1>3, <1>6
  <2>2. ledger' \subseteq Entry /\ IsFiniteSet(ledger')
    BY <1>3, <1>4, <1>5, FS_Union
  <2>3. stale' \in BOOLEAN /\ unbilled' \subseteq Listings
    BY <1>3, <1>5
  <2> QED
    BY <2>1, <2>2, <2>3 DEF RowsType
<1>8. Kept
  BY <1>3 DEF Kept, Has
<1>9. ClerksSound'
  BY <1>3, <1>5, <1>8, ClerkFree
<1>10. OneFeeEach'
  <2> SUFFICES ASSUME ~stale', NEW l \in Listings
               PROVE  AtMostOne(ledger', l)
    BY DEF OneFeeEach
  <2>1. ~stale /\ charge = ToCharge(batch)
    BY <1>3
  <2>2. l \in charge => ~Has(ledger, l)
    BY <2>1, ToChargeReads
  <2>3. AtMostOne(ledger, l)
    BY <1>5, <2>1 DEF OneFeeEach
  <2> QED
    BY <1>3, <1>4, <2>2, <2>3 DEF AtMostOne, Has
<1>11. Billed'
  <2> SUFFICES ASSUME NEW l \in Listings, listing'[l].status = "ACTIVE",
                      l \notin unbilled'
               PROVE  Has(ledger', l)
    BY DEF Billed
  <2>1. CASE l \in charge
    BY <1>3, <1>4, <2>1 DEF Has
  <2>2. CASE l \notin charge
    <3>1. Has(ledger, l)
      BY <1>2, <1>3, <1>5, <1>6, <2>2 DEF Billed
    <3> QED
      BY <1>8, <3>1 DEF Kept
  <2> QED
    BY <2>1, <2>2
<1>12. LiveFlagsTogether'
  BY <1>3, <1>5, <1>6 DEF LiveFlagsTogether
<1> QED
  BY <1>7, <1>9, <1>10, <1>11, <1>12 DEF SellerInv

-----------------------------------------------------------------------------
(* Sales and payouts                                                       *)

\* Entries come and are tagged, about a listing none comes or goes.
LEMMA LedgerWrite ==
  ASSUME SellerInv, UNCHANGED <<shop, listing, stale, unbilled>>,
         ledger' \subseteq Entry, IsFiniteSet(ledger'),
         \A l \in Listings : /\ Has(ledger, l) => Has(ledger', l)
                             /\ AtMostOne(ledger, l) => AtMostOne(ledger', l),
         ClerksSound'
  PROVE  SellerInv'
<1>1. RowsType'
  BY DEF SellerInv, RowsType
<1>2. OneFeeEach'
  BY DEF SellerInv, OneFeeEach
<1>3. Billed' /\ LiveFlagsTogether'
  BY DEF SellerInv, Billed, LiveFlagsTogether
<1> QED
  BY <1>1, <1>2, <1>3 DEF SellerInv

LEMMA CheckoutSaleInv ==
  ASSUME SellerInv, NEW s \in Sales, CheckoutSale(s) PROVE SellerInv'
<1>1. PICK e \in Entry : e.about = s /\ ledger' = ledger \cup {e}
  <2>1. PICK net \in SaleNets :
          ledger' = ledger \cup {[about |-> s, nth |-> 1, amount |-> net,
                                 payout |-> Unpaid]}
    BY DEF CheckoutSale
  <2>2. net \in Int
    BY SellerAmountsAssumption
  <2>3. [about |-> s, nth |-> 1, amount |-> net, payout |-> Unpaid] \in Entry
    BY <2>2 DEF Entry
  <2> QED
    BY <2>1, <2>3
<1>2. s \notin Listings
  BY SellerKeysAssumption
<1>3. ledger' \subseteq Entry /\ IsFiniteSet(ledger')
  BY <1>1, FS_AddElement DEF SellerInv, RowsType
<1>4. \A l \in Listings : /\ Has(ledger, l) => Has(ledger', l)
                          /\ AtMostOne(ledger, l) => AtMostOne(ledger', l)
  BY <1>1, <1>2 DEF Has, AtMostOne
<1>5. Kept
  BY <1>4 DEF Kept
<1>6. ClerksSound'
  BY <1>5, ClerksStay DEF CheckoutSale, SellerInv
<1> QED
  BY <1>3, <1>4, <1>6, LedgerWrite DEF CheckoutSale

LEMMA RequestSellerPayoutInv ==
  ASSUME SellerInv, NEW c \in Clerks, RequestSellerPayout(c) PROVE SellerInv'
<1>1. PICK p \in Payouts \cup {Unpaid} : p = clerks[c].payout
  BY DEF SellerInv, ClerksSound, Clerk
<1>2. PICK tagged \in SUBSET ledger :
        ledger' = (ledger \ tagged) \cup {[e EXCEPT !.payout = p] : e \in tagged}
  <2>1. TaggedEntries(clerks[c].entries) \subseteq ledger
    BY DEF TaggedEntries
  <2>2. ledger' = (ledger \ TaggedEntries(clerks[c].entries))
                    \cup {[e EXCEPT !.payout = p] :
                           e \in TaggedEntries(clerks[c].entries)}
    BY <1>1 DEF RequestSellerPayout
  <2> QED
    BY <2>1, <2>2
<1>3. ledger \subseteq Entry /\ IsFiniteSet(ledger)
  BY DEF SellerInv, RowsType
<1> DEFINE f == [e \in tagged |-> [e EXCEPT !.payout = p]]
           New == {f[e] : e \in tagged}
<1>4. ledger' = (ledger \ tagged) \cup New
  BY <1>2
<1>5. \A e \in tagged : f[e] \in Entry /\ f[e].about = e.about
  BY <1>2, <1>3 DEF Entry
<1>6. IsFiniteSet(New)
  <2>1. DOMAIN f = tagged /\ f = [e \in tagged |-> f[e]] /\ IsFiniteSet(tagged)
    BY <1>2, <1>3, FS_Subset
  <2> HIDE DEF f
  <2> QED
    BY <2>1, ImageFinite
<1> HIDE DEF f
<1>7. ledger' \subseteq Entry
  BY <1>3, <1>4, <1>5
<1>8. IsFiniteSet(ledger')
  <2>1. IsFiniteSet(ledger \ tagged)
    BY <1>3, FS_Subset
  <2> HIDE DEF New
  <2> QED
    BY <1>4, <1>6, <2>1, FS_Union
<1>9. ASSUME NEW l \in Listings
      PROVE  /\ Has(ledger, l) => Has(ledger', l)
             /\ AtMostOne(ledger, l) => AtMostOne(ledger', l)
  <2>1. Has(ledger, l) => Has(ledger', l)
    BY <1>4, <1>5 DEF Has
  <2>2. AtMostOne(ledger, l) => AtMostOne(ledger', l)
    <3> SUFFICES ASSUME AtMostOne(ledger, l), NEW d \in ledger',
                        NEW e \in ledger', d.about = l, e.about = l
                 PROVE  d = e
      BY DEF AtMostOne
    <3>1. d \in ledger \ tagged \/ \E g \in tagged : d = f[g]
      BY <1>4
    <3>2. e \in ledger \ tagged \/ \E g \in tagged : e = f[g]
      BY <1>4
    <3> QED
      BY <1>2, <1>5, <3>1, <3>2 DEF AtMostOne
  <2> QED
    BY <2>1, <2>2
<1>10. Kept
  BY <1>9 DEF Kept
<1>11. ClerksSound'
  BY <1>10, ClerkFree DEF RequestSellerPayout, SellerInv
<1>12. SellerInv' \/ ~UNCHANGED stale
  BY <1>7, <1>8, <1>9, <1>11, LedgerWrite DEF RequestSellerPayout
<1>13. CASE ~UNCHANGED stale
  <2>1. stale'
    BY <1>13 DEF RequestSellerPayout, SellerInv, RowsType
  <2>2. RowsType' /\ OneFeeEach'
    BY <1>7, <1>8, <2>1
    DEF RequestSellerPayout, SellerInv, RowsType, OneFeeEach
  <2>3. Billed' /\ LiveFlagsTogether'
    BY <1>10 DEF RequestSellerPayout, SellerInv, Billed, Kept,
       LiveFlagsTogether
  <2> QED
    BY <1>11, <2>2, <2>3 DEF SellerInv
<1> QED
  BY <1>12, <1>13

-----------------------------------------------------------------------------
(* The balances                                                            *)

\* What the payouts came to.
Paid == [p \in Payouts |-> sellerPayout[p].amount]
Tagged(p) == {e \in ledger : e.payout = p}

SalesEntered ==
  /\ sale \in [Sales -> {"none", "pending", "paid", "cancelled"}]
  /\ \A s \in Sales : AtMostOne(ledger, s) /\ (sale[s] = "none" => ~Has(ledger, s))

\* A payout nobody has asked for is nothing, and nothing is tagged with it.
PayoutsSound ==
  /\ sellerPayout \in [Payouts -> [status : {"none", "PENDING", "PAID"},
                                   amount : Int]]
  /\ \A p \in Payouts : sellerPayout[p].status = "none" =>
                          sellerPayout[p].amount = 0 /\ Tagged(p) = {}

\* Who is about to write a payout is alone about to write it.
AskedFor ==
  /\ \A c \in Clerks : clerks[c].op = "payout" =>
                         /\ clerks[c].payout \in Payouts
                         /\ sellerPayout[clerks[c].payout].status = "none"
                         /\ IsFiniteSet(clerks[c].entries)
  /\ \A c, d \in Clerks :
       /\ clerks[c].op = "payout" /\ clerks[d].op = "payout"
       /\ clerks[c].payout = clerks[d].payout
       => c = d

PayInv == SellerInv /\ SalesEntered /\ PayoutsSound /\ AskedFor /\ BalancesAgree

AmountOf == [e \in Entry |-> e.amount]

LEMMA TotalSums ==
  ASSUME NEW S \in SUBSET Entry, IsFiniteSet(S)
  PROVE  Total(S) = SumFunctionOnSet(AmountOf, S) /\ Total(S) \in Int
<1>1. PICK f : f = [e \in S |-> e.amount]
  OBVIOUS
<1>2. \A e \in S : f[e] = AmountOf[e] /\ f[e] \in Int
  BY <1>1 DEF AmountOf, Entry
<1>3. Total(S) = SumFunctionOnSet(f, S)
  BY <1>1 DEF Total, SumFunction
<1> QED
  BY <1>2, <1>3, SumOfSame, SumIsInt

LEMMA AmountsAreInts ==
  ASSUME NEW S \in SUBSET Entry PROVE \A e \in S : AmountOf[e] \in Int
BY DEF AmountOf, Entry

LEMMA TotalOfBoth ==
  ASSUME NEW S \in SUBSET Entry, IsFiniteSet(S),
         NEW T \in SUBSET Entry, IsFiniteSet(T), S \cap T = {}
  PROVE  IsFiniteSet(S \cup T) /\ Total(S \cup T) = Total(S) + Total(T)
<1>1. IsFiniteSet(S \cup T) /\ S \cup T \in SUBSET Entry
  BY FS_Union
<1>2. SumFunctionOnSet(AmountOf, S \cup T)
        = SumFunctionOnSet(AmountOf, S) + SumFunctionOnSet(AmountOf, T)
  BY <1>1, AmountsAreInts, SumOfUnion
<1> QED
  BY <1>1, <1>2, TotalSums

LEMMA TotalOfRest ==
  ASSUME NEW S \in SUBSET Entry, IsFiniteSet(S), NEW T \in SUBSET S
  PROVE  IsFiniteSet(S \ T) /\ Total(S \ T) = Total(S) - Total(T)
<1>1. IsFiniteSet(S \ T) /\ IsFiniteSet(T)
  BY FS_Subset
<1>2. SumFunctionOnSet(AmountOf, S \ T)
        = SumFunctionOnSet(AmountOf, S) - SumFunctionOnSet(AmountOf, T)
  BY AmountsAreInts, SumOfRest
<1>3. T \in SUBSET Entry /\ S \ T \in SUBSET Entry
  OBVIOUS
<1> QED
  BY <1>1, <1>2, <1>3, TotalSums

\* Tagging entries changes nothing of what they come to.
LEMMA TotalOfTagged ==
  ASSUME NEW T \in SUBSET Entry, IsFiniteSet(T), NEW p \in Payouts,
         \A e, f \in T : e.about = f.about => e = f
  PROVE  LET new == {[e EXCEPT !.payout = p] : e \in T}
         IN new \subseteq Entry /\ IsFiniteSet(new) /\ Total(new) = Total(T)
<1>1. PICK b : b = [e \in T |-> [e EXCEPT !.payout = p]]
  OBVIOUS
<1>2. PICK new : new = {b[e] : e \in T}
  OBVIOUS
<1>3. new = {[e EXCEPT !.payout = p] : e \in T}
  BY <1>1, <1>2
<1>4. \A e \in T : b[e] \in Entry /\ b[e].about = e.about /\ b[e].amount = e.amount
  BY <1>1 DEF Entry
<1>5. \A e \in T : AmountOf[e] \in Int /\ AmountOf[b[e]] = AmountOf[e]
  BY <1>4, AmountsAreInts DEF AmountOf
<1>6. \A e, f \in T : b[e] = b[f] => e = f
  BY <1>4
<1>7. SumFunctionOnSet(AmountOf, new) = SumFunctionOnSet(AmountOf, T)
  BY <1>2, <1>5, <1>6, SumOfImage
<1>8. new \subseteq Entry
  BY <1>2, <1>4
<1>9. IsFiniteSet(new)
  BY <1>1, <1>2, ImageFinite
<1> QED
  BY <1>3, <1>7, <1>8, <1>9, TotalSums

\* What one request writes of clerks, the others do not.
LEMMA AskedForOn ==
  ASSUME AskedFor, clerks \in [Clerks -> Clerk], NEW c \in Clerks,
         NEW r \in Clerk, clerks' = [clerks EXCEPT ![c] = r], r.op # "payout",
         \A p \in Payouts :
           sellerPayout[p].status = "none" =>
             \/ sellerPayout'[p].status = "none"
             \/ clerks[c].op = "payout" /\ clerks[c].payout = p
  PROVE  AskedFor'
<1>1. \A d \in Clerks : clerks'[d].op = "payout" =>
                          d # c /\ clerks'[d] = clerks[d]
  OBVIOUS
<1> QED
  BY <1>1 DEF AskedFor

\* Nothing changed that the balances are made of.
LEMMA BalancesStay ==
  ASSUME BalancesAgree, UNCHANGED <<ledger, stale>>,
         \A p \in Payouts : sellerPayout'[p].amount = sellerPayout[p].amount
  PROVE  BalancesAgree'
<1>1. [p \in Payouts |-> sellerPayout'[p].amount]
        = [p \in Payouts |-> sellerPayout[p].amount]
  OBVIOUS
<1>2. UnpaidEntries' = UnpaidEntries
  BY DEF UnpaidEntries
<1>3. \A S : Total(S)' = Total(S)
  BY DEF Total
<1> QED
  BY <1>1, <1>2, <1>3 DEF BalancesAgree

\* Steps that leave the ledger, the sales and the payouts alone.
LEMMA OthersPay ==
  ASSUME PayInv, SellerInv', UNCHANGED <<ledger, sale, sellerPayout, stale>>,
         \/ UNCHANGED clerks
         \/ \E c \in Clerks, r \in Clerk :
              r.op # "payout" /\ clerks' = [clerks EXCEPT ![c] = r]
  PROVE  PayInv'
<1>1. SalesEntered' /\ PayoutsSound'
  BY DEF PayInv, SalesEntered, PayoutsSound, Tagged
<1>2. AskedFor'
  <2>1. CASE UNCHANGED clerks
    BY <2>1 DEF PayInv, AskedFor
  <2>2. ASSUME NEW c \in Clerks, NEW r \in Clerk,
               r.op # "payout" /\ clerks' = [clerks EXCEPT ![c] = r]
        PROVE  AskedFor'
    BY <2>2, AskedForOn DEF PayInv, SellerInv, ClerksSound
  <2> QED
    BY <2>1, <2>2
<1>3. BalancesAgree'
  BY BalancesStay DEF PayInv
<1> QED
  BY <1>1, <1>2, <1>3 DEF PayInv

\* Entries that are not paid out come into the ledger.
LEMMA EntriesCome ==
  ASSUME PayInv, NEW new \in SUBSET Entry, IsFiniteSet(new),
         ledger' = ledger \cup new, \A e \in new : e.payout = Unpaid,
         UNCHANGED sellerPayout, stale' = FALSE => ~stale /\ new \cap ledger = {},
         stale' \in BOOLEAN
  PROVE  PayoutsSound' /\ BalancesAgree'
<1>1. \A p \in Payouts : Tagged(p)' = Tagged(p)
  BY SellerKeysAssumption DEF Tagged
<1>2. PayoutsSound'
  BY <1>1 DEF PayInv, PayoutsSound
<1>3. BalancesAgree'
  <2> SUFFICES ASSUME ~stale'
               PROVE  /\ Total(ledger') - SumFunction(Paid) = Total(UnpaidEntries')
                      /\ \A p \in Payouts :
                           sellerPayout[p].amount = Total(Tagged(p))
    <3>1. Paid' = Paid
      BY DEF Paid
    <3> QED
      BY <1>1, <3>1 DEF BalancesAgree, Total, Paid, Tagged
  <2>1. ~stale /\ new \cap ledger = {}
    OBVIOUS
  <2>2. /\ Total(ledger) - SumFunction(Paid) = Total(UnpaidEntries)
        /\ \A p \in Payouts : sellerPayout[p].amount = Total(Tagged(p))
    BY <2>1 DEF PayInv, BalancesAgree, Paid, Tagged
  <2>3. UnpaidEntries' = UnpaidEntries \cup new
    BY DEF UnpaidEntries
  <2>4. /\ ledger \in SUBSET Entry /\ IsFiniteSet(ledger)
        /\ UnpaidEntries \in SUBSET Entry /\ IsFiniteSet(UnpaidEntries)
        /\ UnpaidEntries \cap new = {}
    BY <2>1, FS_Subset DEF PayInv, SellerInv, RowsType, UnpaidEntries
  <2>5. Total(ledger') = Total(ledger) + Total(new)
    BY <2>1, <2>4, TotalOfBoth
  <2>6. Total(UnpaidEntries') = Total(UnpaidEntries) + Total(new)
    BY <2>3, <2>4, TotalOfBoth
  <2>7. SumFunction(Paid) \in Int
    BY SellerKeysAssumption, SumIsInt
    DEF SumFunction, Paid, PayInv, PayoutsSound
  <2>8. Total(ledger) \in Int /\ Total(UnpaidEntries) \in Int /\ Total(new) \in Int
    BY <2>4, TotalSums
  <2> QED
    BY <2>2, <2>5, <2>6, <2>7, <2>8
<1> QED
  BY <1>2, <1>3

LEMMA PublishProductsPay ==
  ASSUME PayInv, SellerInv', NEW c \in Clerks, PublishProducts(c) PROVE PayInv'
<1>1. PICK charge \in SUBSET Listings : charge = clerks[c].charge
  BY DEF PayInv, SellerInv, ClerksSound, Clerk
<1>2. /\ NewFees(charge) \subseteq Entry /\ IsFiniteSet(NewFees(charge))
      /\ \A l : Has(NewFees(charge), l) => l \in charge
  BY NewFeesSound DEF PayInv
<1>3. /\ ledger' = ledger \cup NewFees(charge)
      /\ UNCHANGED <<sellerPayout, sale>>
      /\ stale' = (stale \/ charge # ToCharge(clerks[c].batch))
      /\ ClerkEnds(c) /\ clerks[c].op = "publish"
  BY <1>1 DEF PublishProducts
<1>4. \A e \in NewFees(charge) : e.payout = Unpaid
  BY DEF NewFees
<1>5. ~stale' => ~stale /\ NewFees(charge) \cap ledger = {}
  <2> SUFFICES ASSUME ~stale' PROVE ~stale /\ NewFees(charge) \cap ledger = {}
    OBVIOUS
  <2>1. ~stale /\ charge = ToCharge(clerks[c].batch)
    BY <1>3
  <2>2. \A l \in charge : ~Has(ledger, l)
    BY <2>1, ToChargeReads
  <2>3. ASSUME NEW e \in NewFees(charge), e \in ledger PROVE FALSE
    <3>1. Has(NewFees(charge), e.about) /\ Has(ledger, e.about)
      BY <2>3 DEF Has
    <3> QED
      BY <1>2, <2>2, <3>1
  <2> QED
    BY <2>1, <2>3
<1>6. stale' \in BOOLEAN
  BY DEF SellerInv, RowsType
<1>7. PayoutsSound' /\ BalancesAgree'
  BY <1>2, <1>3, <1>4, <1>5, <1>6, EntriesCome
<1>8. SalesEntered'
  BY <1>2, <1>3, SellerKeysAssumption
  DEF PayInv, SalesEntered, AtMostOne, Has
<1>9. AskedFor'
  BY <1>3, FreeClerk, AskedForOn DEF PayInv, SellerInv, ClerksSound, ClerkEnds, Free
<1> QED
  BY <1>7, <1>8, <1>9 DEF PayInv

LEMMA CheckoutSalePay ==
  ASSUME PayInv, SellerInv', NEW s \in Sales, CheckoutSale(s) PROVE PayInv'
<1>1. PICK e \in Entry : /\ e.about = s /\ e.payout = Unpaid
                         /\ ledger' = ledger \cup {e}
  <2>1. PICK net \in SaleNets :
          ledger' = ledger \cup {[about |-> s, nth |-> 1, amount |-> net,
                                 payout |-> Unpaid]}
    BY DEF CheckoutSale
  <2>2. net \in Int
    BY SellerAmountsAssumption
  <2>3. [about |-> s, nth |-> 1, amount |-> net, payout |-> Unpaid] \in Entry
    BY <2>2 DEF Entry
  <2> QED
    BY <2>1, <2>3
<1>2. ~Has(ledger, s) /\ UNCHANGED <<sellerPayout, clerks, stale>>
  BY DEF CheckoutSale, PayInv, SalesEntered
<1>3. {e} \cap ledger = {}
  BY <1>1, <1>2 DEF Has
<1>4. PayoutsSound' /\ BalancesAgree'
  <2>1. IsFiniteSet({e}) /\ stale' \in BOOLEAN
    BY FS_Singleton DEF SellerInv, RowsType
  <2> QED
    BY <1>1, <1>2, <1>3, <2>1, EntriesCome
<1>5. SalesEntered'
  BY <1>1, <1>2 DEF PayInv, SalesEntered, AtMostOne, Has, CheckoutSale
<1>6. AskedFor'
  BY <1>2 DEF PayInv, AskedFor
<1> QED
  BY <1>4, <1>5, <1>6 DEF PayInv

LEMMA ReadForSellerPayoutPay ==
  ASSUME PayInv, SellerInv', NEW c \in Clerks, NEW p \in Payouts,
         ReadForSellerPayout(c, p)
  PROVE  PayInv'
<1>1. PICK r : r = [Free EXCEPT !.op = "payout", !.payout = p,
                                !.entries = UnpaidEntries]
  OBVIOUS
<1>2. r.payout = p /\ r.entries = UnpaidEntries /\ IsFiniteSet(UnpaidEntries)
  BY <1>1, FS_Subset DEF Free, UnpaidEntries, PayInv, SellerInv, RowsType
<1>3. /\ clerks' = [clerks EXCEPT ![c] = r]
      /\ sellerPayout[p].status = "none"
      /\ \A d \in Clerks : clerks[d].payout # p
      /\ UNCHANGED <<ledger, sale, sellerPayout, stale>>
  BY <1>1 DEF ReadForSellerPayout, ClerkStarts
<1>4. \A d \in Clerks : \/ clerks'[d] = clerks[d]
                        \/ /\ d = c /\ clerks'[d].payout = p
                           /\ IsFiniteSet(clerks'[d].entries)
  BY <1>2, <1>3 DEF PayInv, SellerInv, ClerksSound
<1>5. AskedFor'
  <2>1. \A d \in Clerks : clerks'[d].op = "payout" =>
                            /\ clerks'[d].payout \in Payouts
                            /\ sellerPayout'[clerks'[d].payout].status = "none"
                            /\ IsFiniteSet(clerks'[d].entries)
    BY <1>3, <1>4 DEF PayInv, AskedFor
  <2>2. ASSUME NEW d \in Clerks, NEW e \in Clerks,
               clerks'[d].op = "payout", clerks'[e].op = "payout",
               clerks'[d].payout = clerks'[e].payout
        PROVE  d = e
    BY <1>3, <1>4, <2>2 DEF PayInv, AskedFor
  <2> QED
    BY <2>1, <2>2 DEF AskedFor
<1>6. SalesEntered' /\ PayoutsSound'
  BY <1>3 DEF PayInv, SalesEntered, PayoutsSound, Tagged
<1>7. BalancesAgree'
  BY <1>3, BalancesStay DEF PayInv
<1> QED
  BY <1>5, <1>6, <1>7 DEF PayInv

\* What a payout tags are the entries it read, while nothing overlapped.
LEMMA TagsWhatItRead ==
  ASSUME PayInv, ~stale, NEW entries \in SUBSET UnpaidEntries
  PROVE  /\ TaggedEntries(entries) = entries
         /\ \A e, f \in entries : e.about = f.about => e = f
<1>1. entries \subseteq ledger
  BY DEF UnpaidEntries
<1>2. \A e, f \in ledger : e.about = f.about => e = f
  <2> SUFFICES ASSUME NEW e \in ledger, NEW f \in ledger, e.about = f.about
               PROVE  e = f
    OBVIOUS
  <2>1. e.about \in Listings \cup Sales
    BY DEF PayInv, SellerInv, RowsType, Entry
  <2>2. AtMostOne(ledger, e.about)
    BY <2>1 DEF PayInv, SellerInv, OneFeeEach, SalesEntered
  <2> QED
    BY <2>2 DEF AtMostOne
<1> QED
  BY <1>1, <1>2 DEF TaggedEntries

LEMMA RequestSellerPayoutPay ==
  ASSUME PayInv, SellerInv', NEW c \in Clerks, RequestSellerPayout(c)
  PROVE  PayInv'
<1>1. PICK p \in Payouts : p = clerks[c].payout
  BY DEF PayInv, AskedFor, RequestSellerPayout
<1>2. PICK entries \in SUBSET Entry : entries = clerks[c].entries
  BY DEF PayInv, SellerInv, ClerksSound, Clerk
<1>3. PICK tagged \in SUBSET ledger : tagged = TaggedEntries(entries)
  BY DEF TaggedEntries
<1>4. /\ clerks[c].op = "payout"
      /\ sellerPayout' = [sellerPayout EXCEPT
                            ![p] = [status |-> "PENDING",
                                    amount |-> Total(entries)]]
      /\ ledger' = (ledger \ tagged)
                     \cup {[e EXCEPT !.payout = p] : e \in tagged}
      /\ stale' = (stale \/ ~(entries \subseteq UnpaidEntries))
      /\ ClerkEnds(c) /\ UNCHANGED sale
  BY <1>1, <1>2, <1>3 DEF RequestSellerPayout
<1>5. /\ ledger \in SUBSET Entry /\ IsFiniteSet(ledger)
      /\ sellerPayout[p].status = "none"
  BY <1>1, <1>4 DEF PayInv, SellerInv, RowsType, AskedFor
<1>6. \A e \in tagged : /\ [e EXCEPT !.payout = p].about = e.about
                        /\ [e EXCEPT !.payout = p].payout = p
  BY <1>3, <1>5 DEF Entry
<1>7. SalesEntered'
  <2>1. ASSUME NEW s \in Sales
        PROVE  /\ AtMostOne(ledger', s)
               /\ Has(ledger', s) => Has(ledger, s)
    <3>1. AtMostOne(ledger, s)
      BY DEF PayInv, SalesEntered
    <3>2. ASSUME NEW d \in ledger'
          PROVE  \/ d \in ledger \ tagged
                 \/ \E e \in tagged : /\ d = [e EXCEPT !.payout = p]
                                     /\ d.about = e.about
      BY <1>4, <1>6
    <3>3. Has(ledger', s) => Has(ledger, s)
      BY <1>3, <3>2 DEF Has
    <3>4. ASSUME NEW d \in ledger', NEW e \in ledger', d.about = s, e.about = s
          PROVE  d = e
      BY <1>3, <3>1, <3>2, <3>4 DEF AtMostOne
    <3> QED
      BY <3>3, <3>4 DEF AtMostOne
  <2> QED
    BY <1>4, <2>1 DEF PayInv, SalesEntered
<1>8. Total(entries) \in Int
  BY <1>2, <1>4, TotalSums DEF PayInv, AskedFor
<1>9. PayoutsSound'
  <2>1. sellerPayout' \in [Payouts -> [status : {"none", "PENDING", "PAID"},
                                       amount : Int]]
    BY <1>4, <1>8 DEF PayInv, PayoutsSound
  <2>2. ASSUME NEW q \in Payouts, sellerPayout'[q].status = "none"
        PROVE  sellerPayout'[q].amount = 0 /\ Tagged(q)' = {}
    <3>1. q # p /\ sellerPayout'[q] = sellerPayout[q]
      BY <1>4, <2>2 DEF PayInv, PayoutsSound
    <3>2. sellerPayout[q].amount = 0 /\ Tagged(q) = {}
      BY <2>2, <3>1 DEF PayInv, PayoutsSound
    <3>3. Tagged(q)' \subseteq Tagged(q)
      BY <1>4, <1>6, <3>1 DEF Tagged
    <3> QED
      BY <3>1, <3>2, <3>3
  <2> QED
    BY <2>1, <2>2 DEF PayoutsSound
<1>10. AskedFor'
  <2>1. \A q \in Payouts :
          sellerPayout[q].status = "none" =>
            \/ sellerPayout'[q].status = "none"
            \/ clerks[c].op = "payout" /\ clerks[c].payout = q
    BY <1>1, <1>4 DEF PayInv, PayoutsSound
  <2> QED
    BY <1>4, <2>1, FreeClerk, AskedForOn
    DEF PayInv, SellerInv, ClerksSound, ClerkEnds, Free
<1>11. BalancesAgree'
  <2> SUFFICES ASSUME ~stale'
               PROVE  /\ Total(ledger') - SumFunction(Paid')
                           = Total(UnpaidEntries')
                      /\ \A q \in Payouts :
                           sellerPayout'[q].amount = Total(Tagged(q)')
    BY DEF BalancesAgree, Total, Paid, Tagged
  <2>1. /\ ~stale /\ entries \in SUBSET UnpaidEntries
    BY <1>4
  <2>2. /\ Total(ledger) - SumFunction(Paid) = Total(UnpaidEntries)
        /\ \A q \in Payouts : sellerPayout[q].amount = Total(Tagged(q))
    BY <2>1 DEF PayInv, BalancesAgree, Paid, Tagged
  <2>3. /\ tagged = entries
        /\ \A e, f \in entries : e.about = f.about => e = f
    BY <1>3, <2>1, TagsWhatItRead
  <2>4. PICK new : new = {[e EXCEPT !.payout = p] : e \in entries}
    OBVIOUS
  <2>5. IsFiniteSet(entries) /\ entries \in SUBSET ledger
    BY <1>5, <2>1, FS_Subset DEF UnpaidEntries
  <2>6. new \subseteq Entry /\ IsFiniteSet(new) /\ Total(new) = Total(entries)
    BY <1>2, <2>3, <2>4, <2>5, TotalOfTagged
  <2>7. \A e \in new : e.payout = p
    BY <1>6, <2>3, <2>4
  <2>8. ledger' = (ledger \ entries) \cup new
    BY <1>4, <2>3, <2>4
  <2>9. /\ sellerPayout[p].amount = 0 /\ Tagged(p) = {}
        /\ sellerPayout[p].amount \in Int
    BY <1>5 DEF PayInv, PayoutsSound
  <2>10. Tagged(p)' = new
    BY <2>7, <2>8, <2>9 DEF Tagged
  <2>11. ASSUME NEW q \in Payouts, q # p PROVE Tagged(q)' = Tagged(q)
    BY <2>1, <2>7, <2>8, <2>11, SellerKeysAssumption DEF Tagged, UnpaidEntries
  <2>12. UnpaidEntries' = UnpaidEntries \ entries
    BY <2>1, <2>7, <2>8, SellerKeysAssumption DEF UnpaidEntries
  <2>13. /\ UnpaidEntries \in SUBSET Entry /\ IsFiniteSet(UnpaidEntries)
    BY <1>5, FS_Subset DEF UnpaidEntries
  <2>14. Total(UnpaidEntries') = Total(UnpaidEntries) - Total(entries)
    BY <2>1, <2>12, <2>13, TotalOfRest
  <2>15. Total(ledger') = Total(ledger)
    <3>1. /\ IsFiniteSet(ledger \ entries)
          /\ Total(ledger \ entries) = Total(ledger) - Total(entries)
      BY <1>5, <2>5, TotalOfRest
    <3>2. (ledger \ entries) \cap new = {}
      BY <2>7, <2>9 DEF Tagged
    <3>3. Total((ledger \ entries) \cup new) = Total(ledger \ entries) + Total(new)
      BY <1>5, <2>6, <3>1, <3>2, TotalOfBoth
    <3>4. Total(ledger) \in Int
      BY <1>5, TotalSums
    <3> QED
      BY <1>8, <2>6, <2>8, <3>1, <3>3, <3>4
  <2>16. /\ SumFunction(Paid) \in Int
         /\ SumFunction(Paid') = SumFunction(Paid) + Total(entries) - 0
    <3>1. Paid \in [Payouts -> Int] /\ Paid[p] = 0
      BY <2>9 DEF Paid, PayInv, PayoutsSound
    <3>2. Paid' = [Paid EXCEPT ![p] = Total(entries)]
      BY <1>4 DEF Paid, PayInv, PayoutsSound
    <3>3. PICK was, now, paid : was = Paid /\ now = Paid' /\ paid = Total(entries)
      OBVIOUS
    <3>4. IsFiniteSet(Payouts)
      BY SellerKeysAssumption
    <3>5. was \in [Payouts -> Int] /\ paid \in Int
          /\ now = [was EXCEPT ![p] = paid] /\ p \in Payouts
      BY <1>8, <3>1, <3>2, <3>3
    <3>6. /\ SumFunctionOnSet(was, Payouts) \in Int
          /\ SumFunctionOnSet(now, Payouts)
               = SumFunctionOnSet(was, Payouts) + paid - was[p]
      BY ONLY <3>4, <3>5, SumReplaced
    <3>7. DOMAIN Paid = Payouts /\ DOMAIN Paid' = Payouts
      BY DEF Paid
    <3> QED
      BY <3>1, <3>3, <3>6, <3>7 DEF SumFunction
  <2>17. ASSUME NEW q \in Payouts
         PROVE  sellerPayout'[q].amount = Total(Tagged(q)')
    <3>1. CASE q = p
      BY <1>4, <2>6, <2>10, <3>1 DEF PayInv, PayoutsSound
    <3>2. CASE q # p
      BY <1>4, <2>2, <2>11, <3>2 DEF PayInv, PayoutsSound
    <3> QED
      BY <3>1, <3>2
  <2>18. Total(UnpaidEntries) \in Int /\ Total(ledger) \in Int
    BY <1>5, <2>13, TotalSums
  <2>19. Total(ledger') - SumFunction(Paid') = Total(UnpaidEntries')
    BY ONLY <1>8, <2>2, <2>14, <2>15, <2>16, <2>18
  <2> QED
    BY <2>17, <2>19
<1> QED
  BY <1>7, <1>9, <1>10, <1>11 DEF PayInv

\* A payment or a cancellation; a payout marked as paid.
LEMMA SettlePay ==
  ASSUME PayInv, SellerInv',
         \/ \E s \in Sales : \E outcome \in {"paid", "cancelled"} :
              SettleSale(s, outcome)
         \/ \E p \in Payouts : MarkSellerPayoutPaid(p)
  PROVE  PayInv'
<1>1. UNCHANGED <<ledger, clerks, stale>>
  BY DEF SettleSale, MarkSellerPayoutPaid
<1>2. /\ sellerPayout' \in [Payouts -> [status : {"none", "PENDING", "PAID"},
                                        amount : Int]]
      /\ \A p \in Payouts :
           /\ sellerPayout'[p].amount = sellerPayout[p].amount
           /\ sellerPayout'[p].status = "none" <=> sellerPayout[p].status = "none"
  BY DEF PayInv, PayoutsSound, SettleSale, MarkSellerPayoutPaid
<1>3. SalesEntered'
  BY <1>1 DEF PayInv, SalesEntered, SettleSale, MarkSellerPayoutPaid
<1>4. PayoutsSound'
  BY <1>1, <1>2 DEF PayInv, PayoutsSound, Tagged
<1>5. AskedFor'
  BY <1>1, <1>2 DEF PayInv, AskedFor
<1>6. BalancesAgree'
  BY <1>1, <1>2, BalancesStay DEF PayInv
<1> QED
  BY <1>3, <1>4, <1>5, <1>6 DEF PayInv

-----------------------------------------------------------------------------
(* The theorems                                                            *)

LEMMA SellerInitInv == SellerInit => SellerInv
<1> SUFFICES ASSUME SellerInit PROVE SellerInv
  OBVIOUS
<1>1. [status |-> "none", isActive |-> FALSE, deleted |-> FALSE] \in ListingRow
  BY DEF ListingRow, ProductStatus
<1>2. RowsType
  BY <1>1, FS_EmptySet DEF SellerInit, RowsType
<1>3. ClerksSound
  BY FreeClerk DEF SellerInit, ClerksSound
<1>4. OneFeeEach /\ Billed /\ LiveFlagsTogether
  BY DEF SellerInit, OneFeeEach, AtMostOne, Billed, LiveFlagsTogether
<1> QED
  BY <1>2, <1>3, <1>4 DEF SellerInv

LEMMA SellerStepInv == SellerInv /\ [SellerNext]_sellerVars => SellerInv'
<1> SUFFICES ASSUME SellerInv, [SellerNext]_sellerVars PROVE SellerInv'
  OBVIOUS
<1>1. CASE UNCHANGED sellerVars
  BY <1>1, ClerkOnly DEF sellerVars
<1>2. ASSUME NEW l \in Listings,
             \/ CreateHidden(l) \/ DeleteForStore(l)
             \/ \E status \in {"INACTIVE", "ARCHIVED"} : BulkHide(l, status)
             \/ \E status \in ProductStatus \ {"none"} : ImportRow(l, status)
      PROVE  SellerInv'
  BY <1>2, HidesInv
<1>3. ASSUME NEW c \in Clerks,
             \/ \E l \in Listings : ReadForUnpublish(c, l) \/ CreateLive(c, l)
             \/ \E p \in Payouts : ReadForSellerPayout(c, p)
             \/ Unpublish(c) \/ BeginPublish(c) \/ PublishProducts(c)
             \/ RequestSellerPayout(c) \/ ClerkDies(c)
      PROVE  SellerInv'
  BY <1>3, ReadsInv, CreateLiveInv, UnpublishInv, BeginPublishInv,
     PublishProductsInv, RequestSellerPayoutInv
<1>4. ASSUME NEW s \in Sales,
             \/ CheckoutSale(s)
             \/ \E outcome \in {"paid", "cancelled"} : SettleSale(s, outcome)
      PROVE  SellerInv'
  BY <1>4, CheckoutSaleInv, ClerkOnly DEF SettleSale
<1>5. ASSUME NEW p \in Payouts, MarkSellerPayoutPaid(p) PROVE SellerInv'
  BY <1>5, ClerkOnly DEF MarkSellerPayoutPaid
<1> QED
  BY <1>1, <1>2, <1>3, <1>4, <1>5, SuspendStoreInv DEF SellerNext

\* While its shop is not suspended, status and isActive of a listing say the
\* same, whichever of the seven paths that write them overlap.
THEOREM FlagsAlwaysTogether == SellerSpec => []LiveFlagsTogether
<1>1. SellerInv => LiveFlagsTogether
  BY DEF SellerInv
<1> QED
  BY <1>1, SellerInitInv, SellerStepInv, PTL DEF SellerSpec

\* A listing is billed at most once, however often it is published, hidden,
\* deleted and published again, unless two publishings of it overlapped.
THEOREM NeverBilledTwice == SellerSpec => []BilledOnce
<1>1. SellerInv => BilledOnce
  <2> SUFFICES ASSUME SellerInv, ~stale, NEW l \in Listings
               PROVE  Cardinality(FeesOf(l)) <= 1
    BY DEF BilledOnce
  <2>1. \A e, f \in FeesOf(l) : e = f
    BY DEF SellerInv, OneFeeEach, AtMostOne, FeesOf
  <2>2. CASE FeesOf(l) = {}
    BY <2>2, FS_EmptySet
  <2>3. CASE FeesOf(l) # {}
    <3>1. PICK e : FeesOf(l) = {e}
      BY <2>1, <2>3
    <3>2. Cardinality({e}) = 1
      BY FS_Singleton
    <3> QED
      BY <3>1, <3>2
  <2> QED
    BY <2>2, <2>3
<1> QED
  BY <1>1, SellerInitInv, SellerStepInv, PTL DEF SellerSpec

\* A listing that is for sale has been billed, unless an import or a create
\* that died before it called publishProducts turned it live.
THEOREM AlwaysPublishedIsBilled == SellerSpec => []PublishedIsBilled
<1>1. SellerInv => PublishedIsBilled
  BY FeesAreThere DEF SellerInv, Billed, PublishedIsBilled
<1> QED
  BY <1>1, SellerInitInv, SellerStepInv, PTL DEF SellerSpec

LEMMA PayInitInv == SellerInit => PayInv
<1> SUFFICES ASSUME SellerInit PROVE PayInv
  OBVIOUS
<1>1. SellerInv
  BY SellerInitInv
<1>2. SalesEntered /\ AskedFor
  BY DEF SellerInit, SalesEntered, AtMostOne, Has, AskedFor, Free
<1>3. PayoutsSound
  BY DEF SellerInit, PayoutsSound, Tagged
<1>4. BalancesAgree
  <2>1. /\ Total({}) = 0 /\ UnpaidEntries = {} /\ ledger = {}
        /\ \A p \in Payouts : Tagged(p) = {} /\ sellerPayout[p].amount = 0
    <3>1. Total({}) = SumFunctionOnSet(AmountOf, {})
      BY FS_EmptySet, TotalSums
    <3> QED
      BY <3>1, SumOfNone DEF SellerInit, UnpaidEntries, Tagged
  <2>2. SumFunction(Paid) = 0
    BY <2>1, SellerKeysAssumption, SumOfZeros DEF Paid, SumFunction
  <2> QED
    BY <2>1, <2>2 DEF BalancesAgree, Paid, Tagged
<1> QED
  BY <1>1, <1>2, <1>3, <1>4 DEF PayInv

LEMMA PayStepInv == PayInv /\ [SellerNext]_sellerVars => PayInv'
<1> SUFFICES ASSUME PayInv, [SellerNext]_sellerVars PROVE PayInv'
  OBVIOUS
<1>1. SellerInv'
  BY SellerStepInv DEF PayInv
<1>2. CASE UNCHANGED sellerVars
  BY <1>1, <1>2, OthersPay DEF sellerVars
<1>3. CASE SuspendStore
  BY <1>1, <1>3, OthersPay DEF SuspendStore
<1>4. ASSUME NEW l \in Listings,
             \/ CreateHidden(l) \/ DeleteForStore(l)
             \/ \E status \in {"INACTIVE", "ARCHIVED"} : BulkHide(l, status)
             \/ \E status \in ProductStatus \ {"none"} : ImportRow(l, status)
      PROVE  PayInv'
  BY <1>1, <1>4, OthersPay DEF CreateHidden, DeleteForStore, BulkHide, ImportRow
<1>5. ASSUME NEW c \in Clerks,
             \/ \E l \in Listings : ReadForUnpublish(c, l) \/ CreateLive(c, l)
             \/ Unpublish(c) \/ BeginPublish(c) \/ ClerkDies(c)
      PROVE  PayInv'
  <2>1. UNCHANGED <<ledger, sale, sellerPayout, stale>>
    BY <1>5 DEF ReadForUnpublish, CreateLive, Unpublish, BeginPublish, ClerkDies
  <2>2. /\ clerks \in [Clerks -> Clerk] /\ clerks' \in [Clerks -> Clerk]
    BY <1>1 DEF PayInv, SellerInv, ClerksSound
  <2>3. clerks'[c].op # "payout"
    <3>1. CASE \E l \in Listings : ReadForUnpublish(c, l) \/ CreateLive(c, l)
      BY <2>2, <3>1 DEF ReadForUnpublish, CreateLive, ClerkStarts, Free
    <3>2. CASE Unpublish(c) \/ ClerkDies(c)
      <4>1. clerks' = [clerks EXCEPT ![c] = Free]
        BY <3>2 DEF Unpublish, ClerkDies, ClerkEnds
      <4> QED
        BY <2>2, <4>1 DEF Free
    <3>3. CASE BeginPublish(c)
      BY <2>2, <3>3 DEF BeginPublish, Free, Clerk
    <3> QED
      BY <1>5, <3>1, <3>2, <3>3
  <2>4. \A d \in Clerks : d # c => clerks'[d] = clerks[d]
    BY <1>5, <2>2
    DEF ReadForUnpublish, CreateLive, Unpublish, BeginPublish, ClerkDies,
        ClerkEnds, ClerkStarts
  <2>5. clerks' = [clerks EXCEPT ![c] = clerks'[c]]
    BY <2>2, <2>4
  <2> QED
    BY <1>1, <2>1, <2>2, <2>3, <2>5, OthersPay
<1>6. ASSUME NEW c \in Clerks, NEW p \in Payouts, ReadForSellerPayout(c, p)
      PROVE  PayInv'
  BY <1>1, <1>6, ReadForSellerPayoutPay
<1>7. ASSUME NEW c \in Clerks, PublishProducts(c) \/ RequestSellerPayout(c)
      PROVE  PayInv'
  BY <1>1, <1>7, PublishProductsPay, RequestSellerPayoutPay
<1>8. ASSUME NEW s \in Sales, CheckoutSale(s) PROVE PayInv'
  BY <1>1, <1>8, CheckoutSalePay
<1>9. CASE \/ \E s \in Sales : \E outcome \in {"paid", "cancelled"} :
                SettleSale(s, outcome)
           \/ \E p \in Payouts : MarkSellerPayoutPaid(p)
  BY <1>1, <1>9, SettlePay
<1> QED
  BY <1>2, <1>3, <1>4, <1>5, <1>6, <1>7, <1>8, <1>9 DEF SellerNext

\* The two pages that say what a shop is owed say the same: the entries less
\* the payouts come to the entries not paid out, and a payout to the entries
\* it tagged, unless two payouts of the same entries overlapped.
THEOREM BalancesAlwaysAgree == SellerSpec => []BalancesAgree
<1>1. PayInv => BalancesAgree
  BY DEF PayInv
<1> QED
  BY <1>1, PayInitInv, PayStepInv, PTL DEF SellerSpec

-----------------------------------------------------------------------------
(* The entries are told apart                                              *)

\* The numbers of what is entered about l.
Numbers(all, l) == {e.nth : e \in {f \in all : f.about = l}}

\* The fees of a listing are numbered in the order they were billed.
Numbered == \A l \in Listings :
              Numbers(ledger, l) \subseteq 1 .. Cardinality(Numbers(ledger, l))

EntriesInv == /\ PayInv /\ EntriesDiffer /\ Numbered
              /\ shop \in {"ACTIVE", "SUSPENDED"}

\* As many fees, as many numbers.
LEMMA FeesByNumber ==
  ASSUME RowsType, EntriesDiffer, NEW l
  PROVE  /\ IsFiniteSet(Numbers(ledger, l))
         /\ Cardinality(FeesOf(l)) = Cardinality(Numbers(ledger, l))
<1>1. IsFiniteSet(FeesOf(l))
  BY FS_Subset DEF RowsType, FeesOf
<1>2. PICK b : b = [e \in FeesOf(l) |-> e.nth]
  OBVIOUS
<1>3. Numbers(ledger, l) = {e.nth : e \in FeesOf(l)}
  BY DEF Numbers, FeesOf
<1>4. b \in Bijection(FeesOf(l), Numbers(ledger, l))
  <2>1. b \in [FeesOf(l) -> Numbers(ledger, l)]
    BY <1>2, <1>3
  <2>2. b \in Injection(FeesOf(l), Numbers(ledger, l))
    BY <1>2, <2>1 DEF Injection, IsInjective, EntriesDiffer, FeesOf
  <2>3. b \in Surjection(FeesOf(l), Numbers(ledger, l))
    BY <1>2, <1>3, <2>1 DEF Surjection
  <2> QED
    BY <2>2, <2>3 DEF Bijection
<1> QED
  BY <1>1, <1>4, FS_Bijection DEF ExistsBijection

\* A fee more is billed under the next number.
LEMMA PublishProductsEntries ==
  ASSUME EntriesInv, NEW c \in Clerks, PublishProducts(c)
  PROVE  EntriesDiffer' /\ Numbered'
<1> DEFINE charge == clerks[c].charge
           n(l) == Cardinality(FeesOf(l))
<1>1. /\ ledger' = ledger \cup NewFees(charge)
      /\ RowsType /\ EntriesDiffer /\ Numbered
      /\ charge \subseteq Listings
  BY DEF PublishProducts, EntriesInv, PayInv, SellerInv, ClerksSound, Clerk
<1>2. \A l \in Listings :
        /\ n(l) = Cardinality(Numbers(ledger, l)) /\ n(l) \in Nat
        /\ IsFiniteSet(Numbers(ledger, l))
  BY <1>1, FeesByNumber, FS_CardinalityType
<1>3. \A e \in ledger : e.about \in Listings => e.nth # n(e.about) + 1
  <2> SUFFICES ASSUME NEW e \in ledger, e.about \in Listings
               PROVE  e.nth # n(e.about) + 1
    OBVIOUS
  <2>1. e.nth \in Numbers(ledger, e.about)
    BY DEF Numbers
  <2> QED
    BY <1>1, <1>2, <2>1 DEF Numbered
<1>4. \A f \in NewFees(charge) : f.about \in charge /\ f.nth = n(f.about) + 1
  BY DEF NewFees
<1>5. \A f, g \in NewFees(charge) : f.about = g.about => f = g
  BY DEF NewFees
<1>6. EntriesDiffer'
  BY <1>1, <1>3, <1>4, <1>5 DEF EntriesDiffer
<1>7. ASSUME NEW l \in Listings
      PROVE  Numbers(ledger', l)
               \subseteq 1 .. Cardinality(Numbers(ledger', l))
  <2>1. CASE l \in charge
    <3>1. Numbers(ledger', l) = Numbers(ledger, l) \cup {n(l) + 1}
      <4>1. PICK f : f = [about |-> l, nth |-> n(l) + 1,
                          amount |-> -ListingFee, payout |-> Unpaid]
        OBVIOUS
      <4>2. f \in NewFees(charge) /\ f.about = l /\ f.nth = n(l) + 1
        BY <2>1, <4>1 DEF NewFees
      <4> QED
        BY <1>1, <1>4, <4>2 DEF Numbers
    <3>2. n(l) + 1 \notin Numbers(ledger, l)
      BY <1>3, <1>7 DEF Numbers
    <3>3. Cardinality(Numbers(ledger', l)) = n(l) + 1
      BY <1>2, <3>1, <3>2, FS_AddElement
    <3>4. Numbers(ledger, l) \subseteq 1 .. n(l) /\ n(l) \in Nat
      BY <1>1, <1>2 DEF Numbered
    <3> HIDE DEF n
    <3> QED
      BY <3>1, <3>3, <3>4
  <2>2. CASE l \notin charge
    <3>1. Numbers(ledger', l) = Numbers(ledger, l)
      BY <1>1, <1>4, <2>2 DEF Numbers
    <3> QED
      BY <1>1, <3>1 DEF Numbered
  <2> QED
    BY <2>1, <2>2
<1> QED
  BY <1>6, <1>7 DEF Numbered

\* Tagging an entry leaves what it is about, and its number.
LEMMA RequestSellerPayoutEntries ==
  ASSUME EntriesInv, NEW c \in Clerks, RequestSellerPayout(c)
  PROVE  EntriesDiffer' /\ Numbered'
<1>1. PICK tagged : tagged = TaggedEntries(clerks[c].entries)
  OBVIOUS
<1>2. PICK p : p = clerks[c].payout
  OBVIOUS
<1>3. /\ ledger' = (ledger \ tagged)
                     \cup {[e EXCEPT !.payout = p] : e \in tagged}
      /\ tagged \subseteq ledger /\ ledger \subseteq Entry
      /\ EntriesDiffer /\ Numbered
  BY <1>1, <1>2
  DEF RequestSellerPayout, TaggedEntries, EntriesInv, PayInv, SellerInv, RowsType
<1>4. PICK tag : tag = [e \in ledger |-> IF e \in tagged
                                           THEN [e EXCEPT !.payout = p] ELSE e]
  OBVIOUS
<1>5. \A e \in ledger : tag[e].about = e.about /\ tag[e].nth = e.nth
  BY <1>3, <1>4 DEF Entry
<1>6. \A f : f \in ledger' <=> \E e \in ledger : f = tag[e]
  BY <1>3, <1>4
<1>7. EntriesDiffer'
  BY <1>3, <1>5, <1>6 DEF EntriesDiffer
<1>8. \A l : Numbers(ledger', l) = Numbers(ledger, l)
  BY <1>5, <1>6 DEF Numbers
<1> QED
  BY <1>3, <1>7, <1>8 DEF Numbered

LEMMA CheckoutSaleEntries ==
  ASSUME EntriesInv, NEW s \in Sales, CheckoutSale(s)
  PROVE  EntriesDiffer' /\ Numbered'
<1>1. PICK new : /\ new.about = s
                 /\ ledger' = ledger \cup {new}
  BY DEF CheckoutSale
<1>2. \A e \in ledger : e.about # s
  BY DEF EntriesInv, PayInv, SalesEntered, Has, CheckoutSale
<1>3. EntriesDiffer'
  BY <1>1, <1>2 DEF EntriesInv, EntriesDiffer
<1>4. \A l \in Listings : Numbers(ledger', l) = Numbers(ledger, l)
  BY <1>1, SellerKeysAssumption DEF Numbers
<1> QED
  BY <1>3, <1>4 DEF EntriesInv, Numbered

LEMMA EntriesStepInv == EntriesInv /\ [SellerNext]_sellerVars => EntriesInv'
<1> SUFFICES ASSUME EntriesInv, [SellerNext]_sellerVars PROVE EntriesInv'
  OBVIOUS
<1>1. PayInv'
  BY PayStepInv DEF EntriesInv
<1>2. shop' \in {"ACTIVE", "SUSPENDED"}
  BY DEF EntriesInv, SellerNext, sellerVars, CreateHidden, DeleteForStore,
         BulkHide, ImportRow, SuspendStore, ReadForUnpublish, CreateLive,
         ReadForSellerPayout, Unpublish, BeginPublish, PublishProducts,
         RequestSellerPayout, ClerkDies, CheckoutSale, SettleSale,
         MarkSellerPayoutPaid
<1>3. ASSUME UNCHANGED ledger PROVE EntriesDiffer' /\ Numbered'
  BY <1>3 DEF EntriesInv, EntriesDiffer, Numbered, Numbers
<1>4. \/ UNCHANGED ledger
      \/ \E c \in Clerks : PublishProducts(c) \/ RequestSellerPayout(c)
      \/ \E s \in Sales : CheckoutSale(s)
  BY DEF SellerNext, sellerVars, CreateHidden, DeleteForStore,
         BulkHide, ImportRow, SuspendStore, ReadForUnpublish, CreateLive,
         ReadForSellerPayout, Unpublish, BeginPublish, ClerkDies, SettleSale,
         MarkSellerPayoutPaid
<1>5. EntriesDiffer' /\ Numbered'
  BY <1>3, <1>4, PublishProductsEntries, RequestSellerPayoutEntries,
     CheckoutSaleEntries DEF EntriesInv
<1> QED
  BY <1>1, <1>2, <1>5 DEF EntriesInv

\* Listings, entries, payouts and requests are of their types; and an entry
\* is told from any other by what it is about and its number, which is what
\* the payout's tagging by id relies on.
THEOREM SellerTypeCorrect == SellerSpec => []SellerTypeOK
<1>1. SellerInit => EntriesInv
  <2> SUFFICES ASSUME SellerInit PROVE EntriesInv
    OBVIOUS
  <2>1. EntriesDiffer /\ Numbered /\ shop = "ACTIVE"
    BY DEF SellerInit, EntriesDiffer, Numbered, Numbers
  <2> QED
    BY <2>1, PayInitInv DEF EntriesInv
<1>2. EntriesInv => SellerTypeOK
  BY DEF EntriesInv, PayInv, SellerInv, RowsType, ClerksSound, SalesEntered,
         PayoutsSound, SellerTypeOK
<1> QED
  BY <1>1, <1>2, EntriesStepInv, PTL DEF SellerSpec

-----------------------------------------------------------------------------
(* BillingCards                                                            *)

-----------------------------------------------------------------------------
(* The inductive invariant                                                 *)

CardRowsType ==
  /\ fingerprint \in [Methods -> Fingerprints]
  /\ attached \subseteq Methods /\ detached \subseteq Methods
  /\ attached \cap detached = {}
  /\ cards \in Seq(Methods)
  /\ defaults \subseteq Methods
  /\ lock \in Desks \cup {Nothing}
  /\ disturbed \in BOOLEAN

DesksType ==
  /\ desks \in [Desks -> Desk]
  /\ \A d \in Desks : desks[d].at # "idle" => desks[d].method \in Methods

\* No row has the fingerprint of payment method m.
Unknown(m, rows) ==
  \A i \in DOMAIN rows : fingerprint[rows[i]] # fingerprint[m]

Inserting ==
  \A d \in Desks : desks[d].at = "insert" =>
    lock = d /\ Unknown(desks[d].method, cards)

CardInv == CardRowsType /\ DesksType /\ Inserting /\ NoCardTwice

-----------------------------------------------------------------------------
LEMMA SavedRows == \A m : m \in Saved <=> \E i \in DOMAIN cards : cards[i] = m
BY DEF Saved, ToSet

LEMMA QuietDesk == Quiet \in Desk /\ Quiet.at = "idle"
BY DEF Quiet, Desk

\* The rows left are rows there were, in the order they had.
LEMMA Removed ==
  ASSUME NEW S, NEW s \in Seq(S), NEW i \in DOMAIN s
  PROVE  /\ RemoveAt(s, i) \in Seq(S)
         /\ DOMAIN RemoveAt(s, i) = 1 .. Len(s) - 1
         /\ \A j \in DOMAIN RemoveAt(s, i) :
              /\ (IF j < i THEN j ELSE j + 1) \in DOMAIN s
              /\ RemoveAt(s, i)[j] = s[IF j < i THEN j ELSE j + 1]
<1>0. PICK n : n = Len(s)
  OBVIOUS
<1>1. /\ n \in Nat /\ i \in Int /\ 1 <= i /\ i <= n
      /\ DOMAIN s = 1 .. n
      /\ \A j \in 1 .. n : s[j] \in S
  BY <1>0, LenProperties
<1>2. PICK a : a = SubSeq(s, 1, i - 1)
  OBVIOUS
<1>3. /\ a \in Seq(S) /\ Len(a) = i - 1
      /\ \A j \in 1 .. i - 1 : a[j] = s[j]
  <2>1. i - 1 \in Int /\ 1 \in Int /\ \A j \in 1 .. i - 1 : s[j] \in S
    BY <1>1
  <2>2. /\ a \in Seq(S)
        /\ Len(a) = IF 1 <= i - 1 THEN (i - 1) - 1 + 1 ELSE 0
        /\ \A j \in 1 .. (i - 1) - 1 + 1 : a[j] = s[1 + j - 1]
    BY <1>2, <2>1, SubSeqProperties
  <2> QED
    BY <1>1, <2>2
<1>4. PICK b : b = SubSeq(s, i + 1, n)
  OBVIOUS
<1>5. /\ b \in Seq(S) /\ Len(b) = n - i
      /\ \A j \in 1 .. n - i : b[j] = s[j + i]
  <2>1. i + 1 \in Int /\ n \in Int /\ \A j \in i + 1 .. n : s[j] \in S
    BY <1>1
  <2>2. /\ b \in Seq(S)
        /\ Len(b) = IF i + 1 <= n THEN n - (i + 1) + 1 ELSE 0
        /\ \A j \in 1 .. n - (i + 1) + 1 : b[j] = s[(i + 1) + j - 1]
    BY <1>4, <2>1, SubSeqProperties
  <2>3. (IF i + 1 <= n THEN n - (i + 1) + 1 ELSE 0) = n - i
    BY <1>1
  <2>4. ASSUME NEW j \in 1 .. n - i PROVE b[j] = s[j + i]
    <3>1. j \in 1 .. n - (i + 1) + 1 /\ (i + 1) + j - 1 = j + i
      BY <1>1
    <3> QED
      BY <2>2, <3>1
  <2> QED
    BY <2>2, <2>3, <2>4
<1>6. PICK t : t = a \o b
  OBVIOUS
<1>7. RemoveAt(s, i) = t
  BY <1>0, <1>2, <1>4, <1>6 DEF RemoveAt
<1>8. /\ t \in Seq(S) /\ Len(t) = n - 1 /\ DOMAIN t = 1 .. n - 1
      /\ \A j \in 1 .. n - 1 :
           t[j] = IF j <= i - 1 THEN a[j] ELSE b[j - (i - 1)]
  <2>1. PICK k : k = Len(a)
    OBVIOUS
  <2>2. PICK l : l = Len(b)
    OBVIOUS
  <2>3. /\ t \in Seq(S) /\ Len(t) = k + l
        /\ \A j \in 1 .. k + l :
             t[j] = IF j <= k THEN a[j] ELSE b[j - k]
    BY <1>3, <1>5, <1>6, <2>1, <2>2, ConcatProperties
  <2>4. k = i - 1 /\ k + l = n - 1
    BY <1>1, <1>3, <1>5, <2>1, <2>2
  <2>5. DOMAIN t = 1 .. n - 1
    BY <2>3, <2>4, LenProperties
  <2> QED
    BY <2>3, <2>4, <2>5
<1>9. ASSUME NEW j \in 1 .. n - 1
      PROVE  /\ (IF j < i THEN j ELSE j + 1) \in DOMAIN s
             /\ t[j] = s[IF j < i THEN j ELSE j + 1]
  <2>1. CASE j < i
    <3>1. j \in 1 .. i - 1 /\ j <= i - 1 /\ j \in 1 .. n
      BY <1>1, <2>1
    <3> QED
      BY <1>1, <1>3, <1>8, <2>1, <3>1
  <2>2. CASE ~(j < i)
    <3>1. /\ j - (i - 1) \in 1 .. n - i /\ ~(j <= i - 1)
          /\ j - (i - 1) + i = j + 1 /\ j + 1 \in 1 .. n
      BY <1>1, <2>2
    <3>2. b[j - (i - 1)] = s[j + 1]
      BY <1>5, <3>1
    <3> QED
      BY <1>1, <1>8, <2>2, <3>1, <3>2
  <2> QED
    BY <2>1, <2>2
<1> QED
  BY <1>0, <1>7, <1>8, <1>9

\* ... and all of them but the one removed.
LEMMA Left ==
  ASSUME NEW S, NEW s \in Seq(S), NEW i \in DOMAIN s, NEW k \in DOMAIN s,
         s[k] # s[i]
  PROVE  \E j \in DOMAIN RemoveAt(s, i) : RemoveAt(s, i)[j] = s[k]
<1>1. PICK n : n = Len(s)
  OBVIOUS
<1>2. n \in Nat /\ i \in 1 .. n /\ k \in 1 .. n /\ k # i
  BY <1>1, LenProperties
<1>3. PICK t : t = RemoveAt(s, i)
  OBVIOUS
<1>4. /\ DOMAIN t = 1 .. n - 1
      /\ \A j \in 1 .. n - 1 : t[j] = s[IF j < i THEN j ELSE j + 1]
  BY <1>1, <1>3, Removed
<1>5. CASE k < i
  <2>1. k \in 1 .. n - 1 /\ t[k] = s[k]
    BY <1>2, <1>4, <1>5
  <2> QED
    BY <1>3, <1>4, <2>1
<1>6. CASE ~(k < i)
  <2>1. k - 1 \in 1 .. n - 1 /\ ~(k - 1 < i) /\ (k - 1) + 1 = k
    BY <1>2, <1>6
  <2>2. t[k - 1] = s[k]
    BY <1>4, <2>1
  <2> QED
    BY <1>3, <1>4, <2>1, <2>2
<1> QED
  BY <1>5, <1>6

\* Request d goes on to r; nobody inserts but under the lock.
LEMMA DeskTurns ==
  ASSUME CardInv, NEW d \in Desks, NEW r \in Desk,
         desks' = [desks EXCEPT ![d] = r],
         r.at # "idle" => r.method \in Methods,
         UNCHANGED fingerprint, CardRowsType', NoCardTwice',
         r.at = "insert" => lock' = d /\ Unknown(r.method, cards'),
         \A e \in Desks : e # d /\ desks[e].at = "insert" =>
           lock' = e /\ Unknown(desks[e].method, cards')
  PROVE  CardInv'
<1>1. /\ desks' \in [Desks -> Desk]
      /\ \A e \in Desks : desks'[e] = IF e = d THEN r ELSE desks[e]
  BY DEF CardInv, DesksType
<1>2. DesksType'
  BY <1>1 DEF CardInv, DesksType
<1>3. Inserting'
  BY <1>1 DEF Inserting, Unknown
<1> QED
  BY <1>2, <1>3 DEF CardInv

\* ... without the lock, and without a new row.
LEMMA PlainDesk ==
  ASSUME CardInv, NEW d \in Desks, NEW r \in Desk,
         desks' = [desks EXCEPT ![d] = r], r.at # "insert",
         r.at # "idle" => r.method \in Methods,
         UNCHANGED <<fingerprint, cards>>, CardRowsType',
         \/ UNCHANGED lock
         \/ lock = d
  PROVE  CardInv'
<1>1. NoCardTwice'
  BY DEF CardInv, NoCardTwice
<1>2. \A e \in Desks : e # d /\ desks[e].at = "insert" =>
        lock' = e /\ Unknown(desks[e].method, cards')
  BY DEF CardInv, Inserting
<1> QED
  BY <1>1, <1>2, DeskTurns

-----------------------------------------------------------------------------
LEMMA StripeAttachesInv ==
  ASSUME CardInv, NEW m \in Methods, StripeAttaches(m) PROVE CardInv'
BY DEF StripeAttaches, CardInv, CardRowsType, DesksType, Inserting, Unknown,
   NoCardTwice

LEMMA CardReadsInv ==
  ASSUME CardInv, NEW d \in Desks, NEW m \in Methods,
         ConfirmBillingCard(d, m) \/ ReadForDefault(d, m) \/ ReadForDelete(d, m)
  PROVE  CardInv'
<1>1. CardRowsType' /\ UNCHANGED <<fingerprint, cards, lock>>
  BY DEF ConfirmBillingCard, ReadForDefault, ReadForDelete, Detach, CardInv,
     CardRowsType
<1>2. PICK r \in Desk : /\ r.at # "insert" /\ r.method = m
                        /\ desks' = [desks EXCEPT ![d] = r]
  <2>1. CASE ConfirmBillingCard(d, m)
    <3>1. /\ [Quiet EXCEPT !.at = "add", !.method = m] \in Desk
          /\ [Quiet EXCEPT !.at = "add", !.method = m].at = "add"
          /\ [Quiet EXCEPT !.at = "add", !.method = m].method = m
      BY DEF Quiet, Desk
    <3> QED
      BY <2>1, <3>1 DEF ConfirmBillingCard, DeskGoes
  <2>2. CASE ReadForDefault(d, m)
    <3>1. /\ [Quiet EXCEPT !.at = "default", !.method = m] \in Desk
          /\ [Quiet EXCEPT !.at = "default", !.method = m].at = "default"
          /\ [Quiet EXCEPT !.at = "default", !.method = m].method = m
      BY DEF Quiet, Desk
    <3> QED
      BY <2>2, <3>1 DEF ReadForDefault, DeskGoes
  <2>3. CASE ReadForDelete(d, m)
    <3>1. PICK was : was = (m \in defaults)
      OBVIOUS
    <3>2. was \in BOOLEAN
      BY <3>1
    <3> DEFINE r == [Quiet EXCEPT !.at = "delete", !.method = m,
                                  !.wasDefault = was]
    <3>3. r \in Desk /\ r.at = "delete" /\ r.method = m
      BY <3>2 DEF Quiet, Desk
    <3>4. desks' = [desks EXCEPT ![d] = r]
      BY <2>3, <3>1 DEF ReadForDelete, DeskGoes
    <3> HIDE DEF r
    <3> QED
      BY <3>3, <3>4
  <2> QED
    BY <2>1, <2>2, <2>3
<1> QED
  BY <1>1, <1>2, PlainDesk

LEMMA NobodyElseInserts ==
  ASSUME CardInv, NEW d \in Desks, desks[d].at = "insert" \/ lock = Nothing
  PROVE  \A e \in Desks : e # d => desks[e].at # "insert"
BY CardKeysAssumption DEF CardInv, Inserting

LEMMA LockAndCheckInv ==
  ASSUME CardInv, NEW d \in Desks, LockAndCheck(d) PROVE CardInv'
<1>1. PICK w : w = desks[d]
  OBVIOUS
<1>2. w \in Desk /\ w.method \in Methods /\ lock = Nothing
  BY <1>1 DEF LockAndCheck, MayLock, CardInv, DesksType
<1>3. UNCHANGED <<fingerprint, cards>> /\ CardRowsType' /\ NoCardTwice'
  BY DEF LockAndCheck, CardInv, CardRowsType, NoCardTwice
<1>4. CASE \E k \in Saved : fingerprint[k] = fingerprint[w.method]
  <2> DEFINE r == [w EXCEPT !.at = "refuse"]
  <2>1. r \in Desk /\ r.at = "refuse" /\ r.method \in Methods
    BY <1>2 DEF Desk
  <2>2. desks' = [desks EXCEPT ![d] = r] /\ UNCHANGED lock
    BY <1>1, <1>4 DEF LockAndCheck, DeskGoes
  <2> HIDE DEF r
  <2> QED
    BY <1>3, <2>1, <2>2, PlainDesk
<1>5. CASE ~ \E k \in Saved : fingerprint[k] = fingerprint[w.method]
  <2>1. PICK none : none = (cards = <<>>)
    OBVIOUS
  <2>2. none \in BOOLEAN
    BY <2>1
  <2> DEFINE r == [w EXCEPT !.at = "insert", !.first = none]
  <2>3. r \in Desk /\ r.at = "insert" /\ r.method = w.method
    BY <1>2, <2>2 DEF Desk
  <2>4. desks' = [desks EXCEPT ![d] = r] /\ lock' = d
    BY <1>1, <1>5, <2>1 DEF LockAndCheck, DeskGoes
  <2> HIDE DEF r
  <2>5. Unknown(r.method, cards')
    BY <1>3, <1>5, <2>3, SavedRows DEF Unknown
  <2>6. \A e \in Desks : e # d => desks[e].at # "insert"
    BY <1>2, NobodyElseInserts
  <2> QED
    BY <1>2, <1>3, <2>3, <2>4, <2>5, <2>6, DeskTurns
<1> QED
  BY <1>4, <1>5

\* The row inserted is the only one with its fingerprint.
LEMMA InsertCardInv ==
  ASSUME CardInv, NEW d \in Desks, InsertCard(d) PROVE CardInv'
<1>1. PICK m : m = desks[d].method
  OBVIOUS
<1>2. PICK n : n = Len(cards)
  OBVIOUS
<1>3. /\ m \in Methods /\ desks[d].at = "insert" /\ Unknown(m, cards)
      /\ cards \in Seq(Methods)
  BY <1>1 DEF InsertCard, CardInv, CardRowsType, DesksType, Inserting
<1>4. n \in Nat /\ DOMAIN cards = 1 .. n
  BY <1>2, <1>3, LenProperties
<1>5. cards' = Append(cards, m) /\ UNCHANGED fingerprint
  BY <1>1 DEF InsertCard
<1>6. /\ cards' \in Seq(Methods) /\ DOMAIN cards' = 1 .. n + 1
      /\ \A i \in 1 .. n : cards'[i] = cards[i]
      /\ cards'[n + 1] = m
  <2>1. PICK c : c = Append(cards, m)
    OBVIOUS
  <2>2. /\ c \in Seq(Methods) /\ Len(c) = n + 1
        /\ \A i \in 1 .. n : c[i] = cards[i]
        /\ c[n + 1] = m
    BY <1>2, <1>3, <2>1, AppendProperties
  <2>3. DOMAIN c = 1 .. n + 1
    BY <2>2, LenProperties
  <2> QED
    BY <1>5, <2>1, <2>2, <2>3
<1>7. NoCardTwice'
  <2> SUFFICES ASSUME NEW i \in 1 .. n + 1, NEW j \in 1 .. n + 1,
                      fingerprint[cards'[i]] = fingerprint[cards'[j]]
               PROVE  i = j
    BY <1>5, <1>6 DEF NoCardTwice
  <2>1. \A k \in 1 .. n : fingerprint[cards'[k]] # fingerprint[m]
    BY <1>3, <1>4, <1>6 DEF Unknown
  <2>2. CASE i \in 1 .. n /\ j \in 1 .. n
    BY <1>4, <1>6, <2>2 DEF CardInv, NoCardTwice
  <2>3. CASE i = n + 1 /\ j \in 1 .. n
    BY <1>6, <2>1, <2>3
  <2>4. CASE i \in 1 .. n /\ j = n + 1
    BY <1>6, <2>1, <2>4
  <2> QED
    BY <1>4, <2>2, <2>3, <2>4
<1>8. CardRowsType'
  <2>1. disturbed' \in BOOLEAN
    BY DEF InsertCard
  <2>2. defaults' \subseteq Methods /\ lock' = Nothing
        /\ UNCHANGED <<fingerprint, attached, detached>>
    BY <1>1, <1>3 DEF InsertCard, CardInv, CardRowsType
  <2> QED
    BY <1>6, <2>1, <2>2 DEF CardInv, CardRowsType
<1>9. \A e \in Desks : e # d => desks[e].at # "insert"
  BY <1>3, NobodyElseInserts
<1>10. desks' = [desks EXCEPT ![d] = Quiet]
  BY DEF InsertCard, DeskGoes
<1> QED
  BY <1>5, <1>7, <1>8, <1>9, <1>10, QuietDesk, DeskTurns

\* A request that ends, or goes on, without touching the rows.
LEMMA NoRowInv ==
  ASSUME CardInv, NEW d \in Desks,
         \/ DetachRefused(d) \/ SetDefaultBillingCard(d) \/ FindOldest(d)
         \/ PromoteOldest(d) \/ DeskDies(d)
  PROVE  CardInv'
<1>1. UNCHANGED <<fingerprint, cards>>
  BY DEF DetachRefused, SetDefaultBillingCard, FindOldest, PromoteOldest,
     DeskDies
<1>2. CASE DeskDies(d)
  <2>1. desks' = [desks EXCEPT ![d] = Quiet]
    BY <1>2 DEF DeskDies, DeskGoes
  <2>2. disturbed' \in BOOLEAN
    BY <1>2 DEF DeskDies
  <2>3. CardRowsType'
    BY <1>2, <2>2 DEF DeskDies, CardInv, CardRowsType
  <2>4. UNCHANGED lock \/ lock = d
    BY <1>2 DEF DeskDies
  <2> QED
    BY <1>1, <2>1, <2>3, <2>4, QuietDesk, PlainDesk
<1>3. CASE ~DeskDies(d)
  <2>1. UNCHANGED lock
    BY <1>3 DEF DetachRefused, SetDefaultBillingCard, FindOldest,
       PromoteOldest
  <2>2. CardRowsType'
    <3>1. disturbed' \in BOOLEAN
      BY <1>3 DEF DetachRefused, SetDefaultBillingCard, FindOldest,
         PromoteOldest, CardInv, CardRowsType
    <3>2. /\ attached' \subseteq Methods /\ detached' \subseteq Methods
          /\ attached' \cap detached' = {} /\ defaults' \subseteq Methods
      BY <1>3 DEF DetachRefused, SetDefaultBillingCard, FindOldest,
         PromoteOldest, Detach, OnlyDefault, CardInv, CardRowsType, DesksType
    <3> QED
      BY <1>1, <2>1, <3>1, <3>2 DEF CardInv, CardRowsType
  <2>3. PICK r \in Desk : /\ desks' = [desks EXCEPT ![d] = r]
                          /\ r.at # "insert"
                          /\ r.at # "idle" => r.method \in Methods
    <3>1. CASE desks' = [desks EXCEPT ![d] = Quiet]
      BY <3>1, QuietDesk
    <3>2. CASE desks' # [desks EXCEPT ![d] = Quiet]
      <4>1. PICK w : w = desks[d]
        OBVIOUS
      <4>2. PICK h : h = Head(cards)
        OBVIOUS
      <4> DEFINE r == [w EXCEPT !.at = "promote", !.method = h]
      <4>3. cards # <<>> /\ desks' = [desks EXCEPT ![d] = r]
        BY <1>3, <3>2, <4>1, <4>2 DEF DetachRefused, SetDefaultBillingCard,
           FindOldest, PromoteOldest, DeskGoes
      <4>4. h \in Methods /\ w \in Desk
        BY <4>1, <4>2, <4>3, HeadTailProperties
        DEF CardInv, CardRowsType, DesksType
      <4>5. r \in Desk /\ r.at = "promote" /\ r.method = h
        BY <4>4 DEF Desk
      <4> HIDE DEF r
      <4> QED
        BY <4>3, <4>4, <4>5
    <3> QED
      BY <3>1, <3>2
  <2> QED
    BY <1>1, <2>1, <2>2, <2>3, PlainDesk
<1> QED
  BY <1>2, <1>3

LEMMA DeleteCardInv ==
  ASSUME CardInv, NEW d \in Desks, DeleteCard(d) PROVE CardInv'
<1>1. PICK w : w = desks[d]
  OBVIOUS
<1>2. /\ w \in Desk /\ w.at = "delete" /\ w.method \in Methods
      /\ cards \in Seq(Methods)
      /\ UNCHANGED <<fingerprint, attached, detached, lock>>
  BY <1>1 DEF DeleteCard, CardInv, CardRowsType, DesksType
\* Every row left is a row there was; different rows were different rows.
<1>3. /\ cards' \in Seq(Methods)
      /\ \A j \in DOMAIN cards' :
           \E k \in DOMAIN cards : cards'[j] = cards[k]
      /\ NoCardTwice'
  <2>1. CASE UNCHANGED cards
    BY <1>2, <2>1 DEF CardInv, NoCardTwice
  <2>2. CASE \E i \in DOMAIN cards : cards' = RemoveAt(cards, i)
    <3>1. PICK i \in DOMAIN cards : cards' = RemoveAt(cards, i)
      BY <2>2
    <3>2. PICK c : c = RemoveAt(cards, i)
      OBVIOUS
    <3>3. /\ c \in Seq(Methods)
          /\ \A j \in DOMAIN c :
               /\ (IF j < i THEN j ELSE j + 1) \in DOMAIN cards
               /\ c[j] = cards[IF j < i THEN j ELSE j + 1]
      BY <1>2, <3>2, Removed
    <3>4. PICK l : l = Len(c)
      OBVIOUS
    <3>5. l \in Nat /\ DOMAIN c = 1 .. l
      BY <3>3, <3>4, LenProperties
    <3>6. PICK n : n = Len(cards)
      OBVIOUS
    <3>7. n \in Nat /\ DOMAIN cards = 1 .. n
      BY <1>2, <3>6, LenProperties
    <3>8. ASSUME NEW j \in DOMAIN c, NEW k \in DOMAIN c,
                 fingerprint[c[j]] = fingerprint[c[k]]
          PROVE  j = k
      <4>1. PICK x \in DOMAIN cards : /\ x = (IF j < i THEN j ELSE j + 1)
                                      /\ c[j] = cards[x]
        BY <3>3
      <4>2. PICK y \in DOMAIN cards : /\ y = (IF k < i THEN k ELSE k + 1)
                                      /\ c[k] = cards[y]
        BY <3>3
      <4>3. x = y
        BY <3>8, <4>1, <4>2 DEF CardInv, NoCardTwice
      <4>4. j \in 1 .. l /\ k \in 1 .. l /\ i \in 1 .. n
        BY <3>5, <3>7
      <4> QED
        BY <3>5, <3>7, <4>1, <4>2, <4>3, <4>4
    <3>9. \A j \in DOMAIN c : \E k \in DOMAIN cards : c[j] = cards[k]
      BY <3>3
    <3> QED
      BY <1>2, <3>1, <3>2, <3>3, <3>8, <3>9 DEF NoCardTwice
  <2> QED
    BY <2>1, <2>2 DEF DeleteCard
<1>4. CardRowsType'
  <2>1. disturbed' \in BOOLEAN
    BY DEF DeleteCard
  <2>2. defaults' \subseteq Methods
    BY DEF DeleteCard, CardInv, CardRowsType
  <2> QED
    BY <1>2, <1>3, <2>1, <2>2 DEF CardInv, CardRowsType
<1>5. PICK r \in Desk : /\ desks' = [desks EXCEPT ![d] = r]
                        /\ r.at # "insert"
                        /\ r.at # "idle" => r.method \in Methods
  <2>1. [w EXCEPT !.at = "find"] \in Desk
        /\ [w EXCEPT !.at = "find"].at = "find"
        /\ [w EXCEPT !.at = "find"].method = w.method
    BY <1>2 DEF Desk
  <2>2. \/ desks' = [desks EXCEPT ![d] = [w EXCEPT !.at = "find"]]
        \/ desks' = [desks EXCEPT ![d] = Quiet]
    BY <1>1 DEF DeleteCard, DeskGoes
  <2> QED
    BY <1>2, <2>1, <2>2, QuietDesk
<1>6. \A e \in Desks : e # d /\ desks[e].at = "insert" =>
        lock' = e /\ Unknown(desks[e].method, cards')
  BY <1>2, <1>3 DEF CardInv, Inserting, Unknown
<1> QED
  BY <1>2, <1>3, <1>4, <1>5, <1>6, DeskTurns

-----------------------------------------------------------------------------
LEMMA CardInitInv == CardInit => CardInv
<1> SUFFICES ASSUME CardInit PROVE CardInv
  OBVIOUS
<1>1. CardRowsType
  <2>1. disturbed \in BOOLEAN /\ {} \subseteq Methods
    BY DEF CardInit
  <2>2. cards \in Seq(Methods)
    BY EmptySeq DEF CardInit
  <2> QED
    BY <2>1, <2>2 DEF CardInit, CardRowsType
<1>2. desks \in [Desks -> Desk] /\ \A d \in Desks : desks[d].at = "idle"
  BY QuietDesk DEF CardInit
<1>3. NoCardTwice
  BY DEF CardInit, NoCardTwice
<1> QED
  BY <1>1, <1>2, <1>3 DEF CardInv, DesksType, Inserting

LEMMA CardStepInv == CardInv /\ [CardNext]_cardVars => CardInv'
<1> SUFFICES ASSUME CardInv, [CardNext]_cardVars PROVE CardInv'
  OBVIOUS
<1>1. CASE UNCHANGED cardVars
  BY <1>1 DEF cardVars, CardInv, CardRowsType, DesksType, Inserting, Unknown,
     NoCardTwice
<1>2. ASSUME NEW m \in Methods, StripeAttaches(m) PROVE CardInv'
  BY <1>2, StripeAttachesInv
<1>3. ASSUME NEW d \in Desks, NEW m \in Methods,
             \/ ConfirmBillingCard(d, m) \/ ReadForDefault(d, m)
             \/ ReadForDelete(d, m)
      PROVE  CardInv'
  BY <1>3, CardReadsInv
<1>4. ASSUME NEW d \in Desks,
             \/ LockAndCheck(d) \/ InsertCard(d) \/ DetachRefused(d)
             \/ SetDefaultBillingCard(d) \/ DeleteCard(d) \/ FindOldest(d)
             \/ PromoteOldest(d) \/ DeskDies(d)
      PROVE  CardInv'
  BY <1>4, LockAndCheckInv, InsertCardInv, NoRowInv, DeleteCardInv
<1> QED
  BY <1>1, <1>2, <1>3, <1>4 DEF CardNext

LEMMA AlwaysCardInv == CardSpec => []CardInv
BY CardInitInv, CardStepInv, PTL DEF CardSpec

-----------------------------------------------------------------------------
(* The default                                                             *)

OneDefault == \A a, b \in defaults : a = b

Repairing(d) == desks[d].at \in {"find", "promote"}

OneOrRepaired == cards # <<>> /\ defaults = {} => \E d \in Desks : Repairing(d)

DefaultInv == ~disturbed => defaults \subseteq Saved /\ OneDefault /\ OneOrRepaired

\* A request that writes no row and no default, and was not repairing.
LEMMA DefaultKept ==
  ASSUME DefaultInv, UNCHANGED <<cards, defaults>>, ~disturbed' => ~disturbed,
         ~disturbed' => \A d \in Desks : Repairing(d) => Repairing(d)'
  PROVE  DefaultInv'
BY DEF DefaultInv, OneDefault, OneOrRepaired, Saved

\* Request d turns to r; who else is repairing goes on.
LEMMA OthersRepair ==
  ASSUME CardInv, NEW d \in Desks, NEW r, DeskGoes(d, r)
  PROVE  /\ \A e \in Desks : e # d /\ Repairing(e) => Repairing(e)'
         /\ r.at \in {"find", "promote"} => Repairing(d)'
BY DEF DeskGoes, Repairing, CardInv, DesksType

LEMMA QuietSteps ==
  ASSUME CardInv, DefaultInv, NEW d \in Desks, NEW m \in Methods,
         \/ ConfirmBillingCard(d, m) \/ ReadForDefault(d, m)
         \/ ReadForDelete(d, m) \/ LockAndCheck(d) \/ DetachRefused(d)
         \/ DeskDies(d)
  PROVE  DefaultInv'
<1>1. UNCHANGED <<cards, defaults>> /\ (~disturbed' => ~disturbed)
  <2>1. CASE DeskDies(d)
    BY <2>1 DEF DeskDies
  <2>2. CASE ~DeskDies(d)
    <3>1. UNCHANGED <<cards, defaults, disturbed>>
      BY <2>2 DEF ConfirmBillingCard, ReadForDefault, ReadForDelete,
         LockAndCheck, DetachRefused
    <3> QED
      BY <3>1
  <2> QED
    BY <2>1, <2>2
<1>2. ~disturbed' => ~Repairing(d)
  BY DEF ConfirmBillingCard, ReadForDefault, ReadForDelete, LockAndCheck,
     DetachRefused, DeskDies, Repairing
<1>3. PICK r : DeskGoes(d, r)
  BY DEF ConfirmBillingCard, ReadForDefault, ReadForDelete, LockAndCheck,
     DetachRefused, DeskDies
<1> QED
  BY <1>1, <1>2, <1>3, OthersRepair, DefaultKept

LEMMA InsertCardDefault ==
  ASSUME CardInv, DefaultInv, NEW d \in Desks, InsertCard(d)
  PROVE  DefaultInv'
<1> SUFFICES ASSUME ~disturbed'
             PROVE  (defaults \subseteq Saved /\ OneDefault /\ OneOrRepaired)'
  BY DEF DefaultInv
<1>1. PICK m : m = desks[d].method
  OBVIOUS
<1>2. /\ ~disturbed /\ desks[d].first = (cards = <<>>)
      /\ cards' = Append(cards, m) /\ m \in Methods
      /\ desks[d].at = "insert" /\ desks[d].first \in BOOLEAN
  BY <1>1 DEF InsertCard, CardInv, DesksType, Desk
<1>3. defaults \subseteq Saved /\ OneDefault /\ OneOrRepaired
  BY <1>2 DEF DefaultInv
<1>4. cards \in Seq(Methods)
  BY DEF CardInv, CardRowsType
<1>5. \A k : k \in Saved' <=> k \in Saved \/ k = m
  <2>1. PICK c : c = Append(cards, m)
    OBVIOUS
  <2>2. PICK n : n = Len(cards)
    OBVIOUS
  <2>3. /\ n \in Nat /\ DOMAIN cards = 1 .. n /\ DOMAIN c = 1 .. n + 1
        /\ \A i \in 1 .. n : c[i] = cards[i]
        /\ c[n + 1] = m
    BY <1>2, <1>4, <2>1, <2>2, AppendProperties, LenProperties
  <2>4. n + 1 \in 1 .. n + 1 /\ 1 .. n + 1 = (1 .. n) \cup {n + 1}
    BY <2>3
  <2>5. \A k : (\E i \in 1 .. n + 1 : c[i] = k)
             <=> (\E i \in 1 .. n : cards[i] = k) \/ k = m
    BY <2>3, <2>4
  <2>6. \A k : k \in Saved' <=> \E i \in 1 .. n + 1 : c[i] = k
    BY <1>2, <2>1, <2>3 DEF Saved, ToSet
  <2> QED
    BY <2>3, <2>5, <2>6, SavedRows
<1>6. CASE cards = <<>>
  <2>1. defaults = {}
    BY <1>3, <1>6 DEF Saved, ToSet
  <2>2. defaults' = {m}
    BY <1>1, <1>2, <1>6, <2>1 DEF InsertCard
  <2> QED
    BY <1>5, <2>2 DEF OneDefault, OneOrRepaired
<1>7. CASE cards # <<>>
  <2>1. defaults' = defaults
    BY <1>1, <1>2, <1>7 DEF InsertCard
  <2>2. \A e \in Desks : Repairing(e) => Repairing(e)'
    <3>1. DeskGoes(d, Quiet) /\ ~Repairing(d)
      BY <1>2 DEF InsertCard, Repairing
    <3> QED
      BY <3>1, OthersRepair
  <2> QED
    BY <1>3, <1>5, <1>7, <2>1, <2>2 DEF OneDefault, OneOrRepaired
<1> QED
  BY <1>6, <1>7

LEMMA SetDefaultDefault ==
  ASSUME CardInv, DefaultInv, NEW d \in Desks, SetDefaultBillingCard(d)
  PROVE  DefaultInv'
<1>1. PICK m : m = desks[d].method
  OBVIOUS
<1>2. UNCHANGED <<cards, disturbed>> /\ DeskGoes(d, Quiet) /\ ~Repairing(d)
  BY DEF SetDefaultBillingCard, Repairing
<1>3. CASE m \in Saved
  <2>1. defaults' = {m}
    BY <1>1, <1>3 DEF SetDefaultBillingCard, OnlyDefault
  <2>2. m \in Saved'
    BY <1>2, <1>3 DEF Saved
  <2> QED
    BY <2>1, <2>2 DEF DefaultInv, OneDefault, OneOrRepaired
<1>4. CASE m \notin Saved
  <2>1. UNCHANGED defaults
    BY <1>1, <1>4 DEF SetDefaultBillingCard
  <2> QED
    BY <1>2, <2>1, OthersRepair, DefaultKept
<1> QED
  BY <1>3, <1>4

LEMMA PromoteDefault ==
  ASSUME CardInv, DefaultInv, NEW d \in Desks,
         FindOldest(d) \/ PromoteOldest(d)
  PROVE  DefaultInv'
<1>1. CASE FindOldest(d)
  <2>1. UNCHANGED <<cards, defaults, disturbed>>
    BY <1>1 DEF FindOldest
  <2>2. CASE cards = <<>>
    BY <2>1, <2>2 DEF DefaultInv, OneDefault, OneOrRepaired, Saved
  <2>3. CASE cards # <<>>
    <3>1. PICK w : w = desks[d]
      OBVIOUS
    <3>2. PICK h : h = Head(cards)
      OBVIOUS
    <3> DEFINE r == [w EXCEPT !.at = "promote", !.method = h]
    <3>3. w \in Desk
      BY <3>1 DEF CardInv, DesksType
    <3>4. r.at = "promote"
      BY <3>3 DEF Desk
    <3>5. DeskGoes(d, r)
      BY <1>1, <2>3, <3>1, <3>2 DEF FindOldest
    <3> HIDE DEF r
    <3>6. \A e \in Desks : Repairing(e) => Repairing(e)'
      BY <3>4, <3>5, OthersRepair
    <3> QED
      BY <2>1, <3>6, DefaultKept
  <2> QED
    BY <2>2, <2>3
<1>2. CASE PromoteOldest(d)
  <2> SUFFICES ASSUME ~disturbed' PROVE DefaultInv'
    BY DEF DefaultInv
  <2>1. PICK m : m = desks[d].method
    OBVIOUS
  <2>2. m \in Saved /\ defaults = {} /\ UNCHANGED cards
    BY <1>2, <2>1 DEF PromoteOldest
  <2>3. defaults' = {m} /\ m \in Saved'
    BY <1>2, <2>1, <2>2 DEF PromoteOldest, Saved
  <2> QED
    BY <2>3 DEF DefaultInv, OneDefault, OneOrRepaired
<1> QED
  BY <1>1, <1>2

\* Who deletes the default goes on to find another.
LEMMA DeleteCardDefault ==
  ASSUME CardInv, DefaultInv, NEW d \in Desks, DeleteCard(d)
  PROVE  DefaultInv'
<1> SUFFICES ASSUME ~disturbed'
             PROVE  (defaults \subseteq Saved /\ OneDefault /\ OneOrRepaired)'
  BY DEF DefaultInv
<1>1. PICK w : w = desks[d]
  OBVIOUS
<1>2. PICK m : m = w.method
  OBVIOUS
<1>3. /\ ~disturbed /\ w.wasDefault = (m \in defaults)
      /\ defaults' = defaults \ {m} /\ w.at = "delete" /\ w \in Desk
      /\ cards \in Seq(Methods)
  BY <1>1, <1>2 DEF DeleteCard, CardInv, CardRowsType, DesksType
<1>4. defaults \subseteq Saved /\ OneDefault /\ OneOrRepaired
  BY <1>3 DEF DefaultInv
<1>5. \A k \in Saved : k # m => k \in Saved'
  <2>1. CASE UNCHANGED cards
    BY <2>1 DEF Saved
  <2>2. CASE \E i \in DOMAIN cards : cards[i] = m /\ cards' = RemoveAt(cards, i)
    <3>1. PICK i \in DOMAIN cards : /\ cards[i] = m
                                    /\ cards' = RemoveAt(cards, i)
      BY <2>2
    <3>2. ASSUME NEW k \in Saved, k # m PROVE k \in Saved'
      <4>1. PICK x \in DOMAIN cards : cards[x] = k
        BY SavedRows
      <4>2. \E j \in DOMAIN cards' : cards'[j] = k
        BY <1>3, <3>1, <3>2, <4>1, Left
      <4> QED
        BY <4>2 DEF Saved, ToSet
    <3> QED
      BY <3>2
  <2> QED
    BY <1>1, <1>2, <2>1, <2>2 DEF DeleteCard
<1>6. defaults' \subseteq Saved' /\ OneDefault'
  BY <1>3, <1>4, <1>5 DEF OneDefault
<1>7. \A e \in Desks : Repairing(e) => Repairing(e)'
  <2>1. ~Repairing(d)
    BY <1>1, <1>3 DEF Repairing
  <2>2. PICK r : DeskGoes(d, r)
    BY DEF DeleteCard
  <2> QED
    BY <2>1, <2>2, OthersRepair
<1>8. ASSUME cards' # <<>>, defaults' = {}
      PROVE  \E e \in Desks : Repairing(e)'
  <2>1. CASE m \in defaults
    <3>1. m \in Saved /\ w.wasDefault
      BY <1>3, <1>4, <2>1
    <3>2. DeskGoes(d, [w EXCEPT !.at = "find"])
      BY <1>1, <1>2, <3>1 DEF DeleteCard
    <3>3. [w EXCEPT !.at = "find"].at = "find"
      BY <1>3 DEF Desk
    <3> QED
      BY <3>2, <3>3, OthersRepair
  <2>2. CASE m \notin defaults
    <3>1. defaults = {}
      BY <1>3, <1>8, <2>2
    <3>2. cards # <<>>
      <4>1. CASE UNCHANGED cards
        BY <1>8, <4>1
      <4>2. CASE \E i \in DOMAIN cards : cards[i] = m
        BY <1>3, <4>2, LenProperties, EmptySeq
      <4> QED
        BY <1>1, <1>2, <4>1, <4>2 DEF DeleteCard
    <3> QED
      BY <1>4, <1>7, <3>1, <3>2 DEF OneOrRepaired
  <2> QED
    BY <2>1, <2>2
<1>9. OneOrRepaired'
  BY <1>8 DEF OneOrRepaired
<1> QED
  BY <1>6, <1>9

LEMMA DefaultInitInv == CardInit => DefaultInv
BY DEF CardInit, DefaultInv, OneDefault, OneOrRepaired

LEMMA DefaultStepInv ==
  CardInv /\ DefaultInv /\ [CardNext]_cardVars => DefaultInv'
<1> SUFFICES ASSUME CardInv, DefaultInv, [CardNext]_cardVars
             PROVE  DefaultInv'
  OBVIOUS
<1>1. CASE UNCHANGED cardVars
  BY <1>1 DEF cardVars, DefaultInv, OneDefault, OneOrRepaired, Repairing, Saved
<1>2. ASSUME NEW m \in Methods, StripeAttaches(m) PROVE DefaultInv'
  BY <1>2 DEF StripeAttaches, DefaultInv, OneDefault, OneOrRepaired, Repairing,
     Saved
<1>3. ASSUME NEW d \in Desks, NEW m \in Methods,
             \/ ConfirmBillingCard(d, m) \/ ReadForDefault(d, m)
             \/ ReadForDelete(d, m)
      PROVE  DefaultInv'
  BY <1>3, QuietSteps
<1>4. ASSUME NEW d \in Desks, LockAndCheck(d) \/ DetachRefused(d) \/ DeskDies(d)
      PROVE  DefaultInv'
  <2>1. PICK m \in Methods : m = desks[d].method
    BY <1>4 DEF LockAndCheck, DetachRefused, DeskDies, CardInv, DesksType
  <2> QED
    BY <1>4, <2>1, QuietSteps
<1>5. ASSUME NEW d \in Desks,
             \/ InsertCard(d) \/ SetDefaultBillingCard(d) \/ DeleteCard(d)
             \/ FindOldest(d) \/ PromoteOldest(d)
      PROVE  DefaultInv'
  BY <1>5, InsertCardDefault, SetDefaultDefault, DeleteCardDefault,
     PromoteDefault
<1> QED
  BY <1>1, <1>2, <1>3, <1>4, <1>5 DEF CardNext

-----------------------------------------------------------------------------
\* The requests, the rows and what is attached at Stripe always have their
\* types; in particular no payment method is attached and detached.
THEOREM CardTypeCorrect == CardSpec => []CardTypeOK
<1>1. CardInv => CardTypeOK
  BY DEF CardInv, CardRowsType, DesksType, CardTypeOK
<1> QED
  BY <1>1, AlwaysCardInv, PTL

\* confirmBillingCard never saves the same card twice, whatever deletions,
\* defaults and deaths of processes it overlaps with, because the duplicate
\* check and the insert are one transaction on a locked Store row.
THEOREM NeverSavedTwice == CardSpec => []NoCardTwice
<1>1. CardInv => NoCardTwice
  BY DEF CardInv
<1> QED
  BY <1>1, AlwaysCardInv, PTL

\* With no request under way a shop that has cards has one default, unless a
\* request acted on a default that had changed since it read it, or died
\* between the calls of deleteBillingCard: confirmBillingCard's count is
\* taken under the lock, and a deletion that took the default finds another.
THEOREM AlwaysOneDefault == CardSpec => []OneDefaultCard
<1>1. CardInit => CardInv /\ DefaultInv
  BY CardInitInv, DefaultInitInv
<1>2. CardInv /\ DefaultInv /\ [CardNext]_cardVars
        => (CardInv /\ DefaultInv)'
  BY CardStepInv, DefaultStepInv
<1>3. CardInv /\ DefaultInv => OneDefaultCard
  <2> SUFFICES ASSUME DefaultInv, ~disturbed,
                      \A d \in Desks : desks[d].at = "idle"
               PROVE  /\ defaults \subseteq Saved
                      /\ cards # <<>> => Cardinality(defaults) = 1
    BY DEF OneDefaultCard
  <2>1. defaults \subseteq Saved /\ OneDefault
    BY DEF DefaultInv
  <2>2. ASSUME cards # <<>> PROVE Cardinality(defaults) = 1
    <3>1. PICK m : m \in defaults
      BY <2>2 DEF DefaultInv, OneOrRepaired, Repairing
    <3>2. defaults = {m}
      BY <2>1, <3>1 DEF OneDefault
    <3> QED
      BY <3>2, FS_Singleton
  <2> QED
    BY <2>1, <2>2
<1> QED
  BY <1>1, <1>2, <1>3, PTL DEF CardSpec

-----------------------------------------------------------------------------
(* AffiliatePayouts                                                        *)

-----------------------------------------------------------------------------
(* The inductive invariant                                                 *)

\* What AffTypeOK says of one handler.
Shape(r) ==
  /\ r \in Handler
  /\ r.op \in {"create", "confirm", "stray", "refund", "cancel", "unschedule"}
       => r.key \in Purchases
  /\ r.op \in {"request", "pay", "reject"} => r.key \in Withdrawals
  /\ r.op = "request" => r.asked \in Asks

HandlersType ==
  /\ handlers \in [Handlers -> Handler]
  /\ \A h \in Handlers :
       /\ Shape(handlers[h])
       /\ handlers[h].op = "confirm" => lockJobs[handlers[h].key] = "active"

AccountsType ==
  /\ purchase \in [Purchases -> {"unpaid", "paid", "delivered", "refunded"}]
  /\ commission \in [Purchases -> CommissionRow]
  /\ account \in Account
  /\ withdrawal \in [Withdrawals -> WithdrawalRow]
  /\ createJobs \subseteq Purchases
  /\ lockJobs \in [Purchases -> {"none", "delayed", "active", "failed"}]
  /\ outdated \in BOOLEAN
  /\ credits \in [Purchases -> Int]
  /\ strays \in [Purchases -> Nat]
  /\ reversed \in Nat
  /\ returned \subseteq Withdrawals
  /\ trouble \in 0 .. MaxTrouble

\* An order's create job has one handler, and its confirm job one that still
\* holds it.
OneJobEach ==
  \A g, h \in Handlers :
    /\ handlers[g].op = handlers[h].op
    /\ handlers[g].op \in {"create", "confirm"}
    /\ handlers[g].key = handlers[h].key
    => g = h

\* What a handler read is still so, as far as others cannot change it.
Carries(r) ==
  /\ r.op = "create" /\ r.seen = "none" => commission[r.key].status = "none"
  /\ r.op = "confirm" /\ r.seen = "PENDING" =>
       credits[r.key] <= strays[r.key] /\ commission[r.key].status # "none"
  /\ r.op = "stray" /\ r.seen = "PENDING" => commission[r.key].status # "none"
  /\ r.op = "cancel" =>
       r.seen \notin {"none", "PAID"} /\ commission[r.key].status # "none"

\* Workers that hold the job credited at most once, and only what they left
\* CONFIRMED.
CreditsSound ==
  \A o \in Purchases :
    /\ credits[o] <= 1 + strays[o]
    /\ commission[o].status \in {"none", "PENDING"} => credits[o] <= strays[o]

AffInv ==
  /\ AccountsType /\ HandlersType /\ OneJobEach /\ CreditsSound
  /\ \A h \in Handlers : Carries(handlers[h])

-----------------------------------------------------------------------------
LEMMA TypeParts == AffTypeOK <=> AccountsType /\ HandlersType
BY DEF AffTypeOK, AccountsType, HandlersType, Shape

\* A handler that does nothing.
LEMMA RestingShape ==
  Shape(Resting) /\ Resting.op = "idle" /\ Resting.key = None
BY DEF Shape, Resting, Handler

\* Handler h is now r, and no other moved.
Turns(h, r) == handlers' = [handlers EXCEPT ![h] = r]

LEMMA TurnsTo ==
  ASSUME HandlersType, NEW h \in Handlers, NEW r, Turns(h, r)
  PROVE  /\ handlers'[h] = r
         /\ \A g \in Handlers : g # h => handlers'[g] = handlers[g]
         /\ \A g \in Handlers : handlers'[g] = IF g = h THEN r ELSE handlers[g]
BY DEF HandlersType, Turns

\* The handlers' types after a turn: the confirm jobs of the others are still
\* theirs.
LEMMA TurnType ==
  ASSUME HandlersType, NEW h \in Handlers, NEW r, Turns(h, r), Shape(r),
         r.op = "confirm" => lockJobs'[r.key] = "active",
         \A g \in Handlers : g # h /\ handlers[g].op = "confirm"
           => lockJobs'[handlers[g].key] = "active"
  PROVE  HandlersType'
<1>1. handlers' \in [Handlers -> Handler]
  BY DEF HandlersType, Turns, Shape
<1>2. ASSUME NEW g \in Handlers
      PROVE  /\ Shape(handlers'[g])
             /\ handlers'[g].op = "confirm"
                  => lockJobs'[handlers'[g].key] = "active"
  <2>1. CASE g = h
    BY <2>1, TurnsTo
  <2>2. CASE g # h
    BY <2>2, TurnsTo DEF HandlersType
  <2> QED
    BY <2>1, <2>2
<1> QED
  BY <1>1, <1>2 DEF HandlersType, Shape

\* No other handler has the job r is for.
Sole(h, r) ==
  r.op \in {"create", "confirm"} =>
    \A g \in Handlers : g # h => ~(handlers[g].op = r.op
                                     /\ handlers[g].key = r.key)

LEMMA TurnOneJob ==
  ASSUME HandlersType, OneJobEach, NEW h \in Handlers, NEW r, Turns(h, r),
         Sole(h, r)
  PROVE  OneJobEach'
<1>1. ASSUME NEW f \in Handlers, NEW g \in Handlers,
             handlers'[f].op = handlers'[g].op,
             handlers'[f].op \in {"create", "confirm"},
             handlers'[f].key = handlers'[g].key
      PROVE  f = g
  BY <1>1, TurnsTo DEF OneJobEach, Sole
<1> QED
  BY <1>1 DEF OneJobEach

\* What a turn of handler h may change for the others: the commission of the
\* order it has the create job of, the credits of the one whose confirm job it
\* holds.
Leaves(h) ==
  /\ \A o \in Purchases : commission[o].status # "none"
                            => commission'[o].status # "none"
  /\ \A o \in Purchases :
       \/ commission[o].status # "none"
       \/ commission'[o].status = "none"
       \/ handlers[h].op = "create" /\ handlers[h].key = o
  /\ \A o \in Purchases :
       \/ credits'[o] + strays[o] <= credits[o] + strays'[o]
       \/ handlers[h].op = "confirm" /\ handlers[h].key = o

LEMMA TurnCarries ==
  ASSUME AffInv, NEW h \in Handlers, NEW r, Turns(h, r), Leaves(h), AccountsType',
         r.op \in {"create", "confirm", "stray", "cancel"}
           => UNCHANGED <<commission, credits, strays>> /\ Carries(r)
  PROVE  \A g \in Handlers : Carries(handlers[g])'
<1> USE DEF AffInv
<1> SUFFICES ASSUME NEW g \in Handlers PROVE Carries(handlers[g])'
  OBVIOUS
<1>1. CASE g = h
  BY <1>1, TurnsTo DEF Carries
<1>2. CASE g # h
  <2>1. handlers'[g] = handlers[g] /\ Carries(handlers[g])
    BY <1>2, TurnsTo
  <2>2. handlers[g].op \in {"create", "confirm", "stray", "cancel"} =>
          handlers[g].key \in Purchases
    BY DEF HandlersType, Shape
  <2>3. ASSUME handlers[g].op \in {"create", "confirm"}
        PROVE  ~(handlers[h].op = handlers[g].op
                   /\ handlers[h].key = handlers[g].key)
    BY <1>2, <2>3 DEF OneJobEach
  <2>4. \A o \in Purchases : /\ credits[o] \in Int /\ credits'[o] \in Int
                             /\ strays[o] \in Nat /\ strays'[o] \in Nat
    BY DEF AccountsType
  <2> QED
    BY <2>1, <2>2, <2>3, <2>4 DEF Carries, Leaves
<1> QED
  BY <1>1, <1>2

\* A turn keeps the invariant.
LEMMA TurnInv ==
  ASSUME AffInv, NEW h \in Handlers, NEW r, Turns(h, r), Shape(r), Sole(h, r),
         Leaves(h), AccountsType', CreditsSound',
         r.op \in {"create", "confirm", "stray", "cancel"}
           => UNCHANGED <<commission, credits, strays>> /\ Carries(r),
         r.op = "confirm" => lockJobs'[r.key] = "active",
         \A g \in Handlers : g # h /\ handlers[g].op = "confirm"
           => lockJobs'[handlers[g].key] = "active"
  PROVE  AffInv'
<1>1. HandlersType /\ OneJobEach
  BY DEF AffInv
<1>2. HandlersType'
  BY <1>1, TurnType
<1>3. OneJobEach'
  BY <1>1, TurnOneJob
<1>4. \A g \in Handlers : Carries(handlers[g])'
  BY TurnCarries
<1> QED
  BY <1>2, <1>3, <1>4 DEF AffInv

\* A turn that only reads, or writes nothing of commissions, credits and jobs.
LEMMA PlainTurn ==
  ASSUME AffInv, NEW h \in Handlers, NEW r, Turns(h, r), Shape(r), Sole(h, r),
         UNCHANGED <<commission, credits, strays, lockJobs>>, AccountsType',
         r.op \in {"create", "confirm", "stray", "cancel"} => Carries(r),
         r.op = "confirm" => lockJobs[r.key] = "active"
  PROVE  AffInv'
<1>1. Leaves(h)
  BY DEF Leaves, AffInv, AccountsType
<1>2. CreditsSound'
  BY DEF CreditsSound, AffInv
<1>3. \A g \in Handlers : handlers[g].op = "confirm"
        => lockJobs'[handlers[g].key] = "active"
  BY DEF AffInv, HandlersType
<1> QED
  BY <1>1, <1>2, <1>3, TurnInv

\* A step no handler takes part in.
LEMMA NoTurn ==
  ASSUME AffInv, UNCHANGED <<handlers, commission, credits, strays>>, AccountsType',
         \A o \in Purchases : lockJobs[o] = "active" => lockJobs'[o] = "active"
  PROVE  AffInv'
<1> USE DEF AffInv
<1>1. HandlersType'
  BY DEF HandlersType, Shape
<1>2. OneJobEach' /\ CreditsSound'
  BY DEF OneJobEach, CreditsSound
<1>3. \A g \in Handlers : Carries(handlers[g])'
  BY DEF Carries
<1> QED
  BY <1>1, <1>2, <1>3

-----------------------------------------------------------------------------
(* Handlers that start                                                     *)

LEMMA StartsTurn ==
  ASSUME NEW h, NEW op, NEW key, NEW seen, NEW asked,
         Starts(h, op, key, seen, asked)
  PROVE  Turns(h, [op |-> op, key |-> key, seen |-> seen, asked |-> asked])
BY DEF Starts, Turns

LEMMA ReadForCreateInv ==
  ASSUME AffInv, NEW h \in Handlers, NEW o \in Purchases, ReadForCreate(h, o)
  PROVE  AffInv'
<1> DEFINE r == [op |-> "create", key |-> o, seen |-> commission[o].status,
                 asked |-> 0]
<1>1. Turns(h, r)
  BY StartsTurn DEF ReadForCreate
<1>2. commission[o].status \in {"none", "PENDING", "CONFIRMED", "PAID",
                                "CANCELLED"}
  BY DEF AffInv, AccountsType, CommissionRow
<1>3. Shape(r)
  BY <1>2 DEF Shape, Handler
<1>4. Sole(h, r)
  BY DEF Sole, ReadForCreate
<1>5. Carries(r)
  BY DEF Carries
<1>6. AccountsType' /\ UNCHANGED <<commission, credits, strays, lockJobs>>
  BY DEF ReadForCreate, AccountsType, AffInv, affRows, affHistory
<1>7. r.op = "create"
  OBVIOUS
<1> HIDE DEF r
<1> QED
  BY <1>1, <1>3, <1>4, <1>5, <1>6, <1>7, PlainTurn

LEMMA ReadForConfirmInv ==
  ASSUME AffInv, NEW h \in Handlers, NEW o \in Purchases, ReadForConfirm(h, o)
  PROVE  AffInv'
<1> DEFINE r == [op |-> "confirm", key |-> o, seen |-> commission[o].status,
                 asked |-> 0]
<1>1. Turns(h, r)
  BY StartsTurn DEF ReadForConfirm
<1>2. commission[o].status \in {"none", "PENDING", "CONFIRMED", "PAID",
                                "CANCELLED"}
  BY DEF AffInv, AccountsType, CommissionRow
<1>3. Shape(r)
  BY <1>2 DEF Shape, Handler
<1>4. Sole(h, r)
  BY DEF Sole, ReadForConfirm, AffInv, HandlersType
<1>5. Carries(r)
  BY DEF Carries, AffInv, CreditsSound
<1>6. AccountsType' /\ UNCHANGED <<commission, credits, strays>>
  BY DEF ReadForConfirm, AccountsType, AffInv, affRows, affHistory
<1>7. lockJobs'[o] = "active" /\ \A k \in Purchases :
        lockJobs[k] = "active" => lockJobs'[k] = "active"
  BY DEF ReadForConfirm, AffInv, AccountsType
<1>8. \A g \in Handlers : g # h /\ handlers[g].op = "confirm"
        => lockJobs'[handlers[g].key] = "active"
  BY <1>7 DEF AffInv, HandlersType, Shape
<1>9. Leaves(h) /\ CreditsSound'
  BY <1>6 DEF Leaves, AffInv, AccountsType, CreditsSound
<1>10. r.op = "confirm" /\ r.key = o
  OBVIOUS
<1> HIDE DEF r
<1> QED
  BY <1>1, <1>3, <1>4, <1>5, <1>6, <1>7, <1>8, <1>9, <1>10, TurnInv

\* A request of one of the other kinds starts.
LEMMA PlainStart ==
  ASSUME AffInv, NEW h \in Handlers,
         NEW op \in {"refund", "request", "pay", "reject"},
         NEW key \in Purchases \cup Withdrawals, NEW seen, NEW asked \in Nat,
         Starts(h, op, key, seen, asked),
         op = "refund" => key \in Purchases,
         op # "refund" => key \in Withdrawals,
         op = "request" => asked \in Asks,
         seen \in {"none", "PENDING", "CONFIRMED", "PAID", "CANCELLED",
                   "REQUESTED", "REJECTED"},
         UNCHANGED <<commission, credits, strays, lockJobs>>, AccountsType'
  PROVE  AffInv'
<1> DEFINE r == [op |-> op, key |-> key, seen |-> seen, asked |-> asked]
<1>1. Turns(h, r)
  BY StartsTurn
<1>2. Shape(r)
  BY DEF Shape, Handler
<1>3. r.op \notin {"create", "confirm", "stray", "cancel"}
  OBVIOUS
<1>4. Sole(h, r)
  BY <1>3 DEF Sole
<1> HIDE DEF r
<1> QED
  BY <1>1, <1>2, <1>3, <1>4, PlainTurn

LEMMA StartsInv ==
  ASSUME AffInv, NEW h \in Handlers,
         \/ \E o \in Purchases : PurchaseRefunded(h, o)
         \/ \E p \in Withdrawals :
              \/ \E amount \in Asks : ReadForPayout(h, p, amount)
              \/ ReadForPaid(h, p) \/ ReadForReject(h, p)
  PROVE  AffInv'
<1>1. Asks \subseteq Nat
  BY AffAmountsAssumption
<1>2. ASSUME NEW o \in Purchases, PurchaseRefunded(h, o) PROVE AffInv'
  <2>1. AccountsType' /\ UNCHANGED <<commission, credits, strays, lockJobs>>
    BY <1>2 DEF PurchaseRefunded, AccountsType, AffInv, affRows, affHistory
  <2> QED
    BY <1>2, <2>1, PlainStart DEF PurchaseRefunded
<1>3. ASSUME NEW p \in Withdrawals, NEW amount \in Asks,
             ReadForPayout(h, p, amount)
      PROVE  AffInv'
  <2>1. AccountsType' /\ UNCHANGED <<commission, credits, strays, lockJobs>>
    BY <1>3 DEF ReadForPayout, AccountsType, AffInv, affRows, affHistory
  <2> QED
    BY <1>1, <1>3, <2>1, PlainStart DEF ReadForPayout
<1>4. ASSUME NEW p \in Withdrawals, ReadForPaid(h, p) PROVE AffInv'
  <2>1. AccountsType' /\ UNCHANGED <<commission, credits, strays, lockJobs>>
    BY <1>4 DEF ReadForPaid, AccountsType, AffInv, affRows, affHistory
  <2> QED
    BY <1>4, <2>1, PlainStart DEF ReadForPaid
<1>5. ASSUME NEW p \in Withdrawals, ReadForReject(h, p) PROVE AffInv'
  <2>1. AccountsType' /\ UNCHANGED <<commission, credits, strays, lockJobs>>
    BY <1>5 DEF ReadForReject, AccountsType, AffInv, affRows, affHistory
  <2> QED
    BY <1>5, <2>1, PlainStart DEF ReadForReject, MayReject
<1> QED
  BY <1>2, <1>3, <1>4, <1>5

-----------------------------------------------------------------------------
(* Handlers that go on                                                     *)

\* A handler that ends: the confirm jobs of the others are still theirs.
LEMMA EndInv ==
  ASSUME AffInv, NEW h \in Handlers, Ends(h), Leaves(h), AccountsType',
         CreditsSound',
         \A g \in Handlers : g # h /\ handlers[g].op = "confirm"
           => lockJobs'[handlers[g].key] = "active"
  PROVE  AffInv'
<1>1. Turns(h, Resting)
  BY DEF Ends, Turns
<1>2. Resting.op = "idle" /\ Shape(Resting)
  BY RestingShape
<1>3. Sole(h, Resting)
  BY <1>2 DEF Sole
<1> QED
  BY <1>1, <1>2, <1>3, TurnInv

\* The others' confirm jobs, when only the job of h's own order changes.
LEMMA OthersKeepJobs ==
  ASSUME AffInv, NEW h \in Handlers, handlers[h].op = "confirm",
         \A o \in Purchases : o # handlers[h].key => lockJobs'[o] = lockJobs[o]
  PROVE  \A g \in Handlers : g # h /\ handlers[g].op = "confirm"
           => lockJobs'[handlers[g].key] = "active"
BY DEF AffInv, HandlersType, OneJobEach, Shape

LEMMA CreateForOrderInv ==
  ASSUME AffInv, NEW h \in Handlers, CreateForOrder(h)
  PROVE  AffInv'
<1> DEFINE o == handlers[h].key
<1>1. o \in Purchases /\ Carries(handlers[h])
  BY DEF CreateForOrder, AffInv, HandlersType, Shape
<1>2. /\ handlers[h].op = "create" /\ Ends(h)
      /\ \/ UNCHANGED commission
         \/ \E amount \in Commissions :
              /\ handlers[h].seen = "none"
              /\ commission' = [commission EXCEPT
                               ![o] = [status |-> "PENDING", amount |-> amount]]
  BY DEF CreateForOrder
<1>3. commission \in [Purchases -> CommissionRow]
  BY DEF AffInv, AccountsType
<1> DEFINE Created ==
             /\ commission' \in [Purchases -> CommissionRow]
             /\ \A k \in Purchases :
                  \/ commission'[k] = commission[k]
                  \/ /\ k = o /\ commission'[k].status = "PENDING"
                     /\ commission[k].status = "none"
<1>4. Created
  <2>1. CASE UNCHANGED commission
    BY <1>3, <2>1
  <2>2. ASSUME NEW amount \in Commissions, handlers[h].seen = "none",
               commission' = [commission EXCEPT
                               ![o] = [status |-> "PENDING", amount |-> amount]]
        PROVE  Created
    <3>1. [status |-> "PENDING", amount |-> amount] \in CommissionRow
      BY AffAmountsAssumption DEF CommissionRow
    <3>2. commission[o].status = "none"
      BY <1>1, <1>2, <2>2 DEF Carries
    <3> QED
      BY <1>1, <1>3, <2>2, <3>1, <3>2
  <2> QED
    BY <1>2, <2>1, <2>2
<1>5. /\ UNCHANGED <<purchase, account, withdrawal, lockJobs, affHistory>>
      /\ createJobs' \subseteq Purchases
      /\ trouble' \in 0 .. MaxTrouble
  BY AffBoundsAssumption DEF CreateForOrder, AffInv, AccountsType
<1>6. AccountsType'
  BY <1>4, <1>5 DEF AffInv, AccountsType, affHistory
<1>7. Leaves(h)
  <2>1. \A k \in Purchases : credits'[k] + strays[k] <= credits[k] + strays'[k]
    BY <1>5 DEF AffInv, AccountsType, affHistory
  <2> QED
    BY <1>2, <1>4, <2>1 DEF Leaves
<1>8. CreditsSound'
  BY <1>4, <1>5 DEF CreditsSound, AffInv, affHistory
<1>9. \A g \in Handlers : handlers[g].op = "confirm"
        => lockJobs'[handlers[g].key] = "active"
  BY <1>5 DEF AffInv, HandlersType
<1> QED
  BY <1>2, <1>6, <1>7, <1>8, <1>9, EndInv

\* A credit, or what is taken back, keeps the account's type.
LEMMA CreditType ==
  ASSUME account \in Account, NEW amount \in Int, Credit(amount)
  PROVE  /\ account' \in Account
         /\ account'.balance = account.balance + amount
<1> DEFINE b == account.balance + amount
           e == account.totalEarned + amount
<1>1. account.active \in BOOLEAN
  BY DEF Account
<1>2. b \in Int /\ e \in Int
  <2>1. account.balance \in Int /\ account.totalEarned \in Int
    BY DEF Account
  <2> QED
    BY <2>1
<1>3. account' = [account EXCEPT !.balance = b, !.totalEarned = e]
  BY DEF Credit
<1> HIDE DEF b, e
<1>4. account' = [active |-> account.active, balance |-> b, totalEarned |-> e]
  BY <1>3 DEF Account
<1>5. account' \in Account
  BY <1>1, <1>2, <1>4 DEF Account
<1> QED
  BY <1>4, <1>5 DEF b

\* A handler whose step leaves the confirm jobs that are active.
LEMMA JobsStay ==
  ASSUME AffInv, \A o \in Purchases : lockJobs[o] = "active"
                                        => lockJobs'[o] = "active"
  PROVE  \A g \in Handlers : handlers[g].op = "confirm"
           => lockJobs'[handlers[g].key] = "active"
BY DEF AffInv, HandlersType, Shape

\* What confirming does to the rows, for a worker with its job or without.
LEMMA ConfirmRows ==
  ASSUME AffInv, NEW o \in Purchases, Confirms(o), NEW lost \in {0, 1},
         strays' = [strays EXCEPT ![o] = @ + lost],
         lost = 0 => credits[o] <= strays[o]
  PROVE  /\ commission' \in [Purchases -> CommissionRow]
         /\ account' \in Account
         /\ credits' \in [Purchases -> Int]
         /\ strays' \in [Purchases -> Nat]
         /\ outdated' \in BOOLEAN
         /\ CreditsSound'
         /\ \A k \in Purchases : k # o => /\ credits'[k] = credits[k]
                                         /\ strays'[k] = strays[k]
         /\ lost = 1 => credits'[o] + strays[o] = credits[o] + strays'[o]
<1>1. /\ commission \in [Purchases -> CommissionRow]
      /\ commission[o] \in CommissionRow
      /\ account \in Account
      /\ credits \in [Purchases -> Int]
      /\ strays \in [Purchases -> Nat]
      /\ outdated \in BOOLEAN
      /\ CreditsSound
  BY DEF AffInv, AccountsType
<1>2. /\ [commission[o] EXCEPT !.status = "CONFIRMED"] \in CommissionRow
      /\ [commission[o] EXCEPT !.status = "CONFIRMED"].status = "CONFIRMED"
      /\ commission[o].amount \in Nat
  BY <1>1 DEF CommissionRow
<1>3. commission' \in [Purchases -> CommissionRow]
  BY <1>1, <1>2 DEF Confirms
<1>4. account' \in Account
  BY <1>1, <1>2, CreditType DEF Confirms
<1>5. /\ credits' \in [Purchases -> Int]
      /\ \A k \in Purchases : k # o => credits'[k] = credits[k]
      /\ credits'[o] = credits[o] + 1
  BY <1>1 DEF Confirms
<1>6. /\ strays' \in [Purchases -> Nat]
      /\ \A k \in Purchases : k # o => strays'[k] = strays[k]
      /\ strays'[o] = strays[o] + lost
  <2>1. strays[o] + lost \in Nat
    BY <1>1
  <2> QED
    BY <1>1, <2>1
<1>7. \A k \in Purchases : commission'[k].status =
        IF k = o THEN "CONFIRMED" ELSE commission[k].status
  BY <1>1, <1>2 DEF Confirms
<1>8. credits'[o] <= 1 + strays'[o]
  <2>1. /\ credits[o] \in Int /\ strays[o] \in Nat
        /\ credits[o] <= 1 + strays[o]
    BY <1>1 DEF CreditsSound
  <2> QED
    BY <1>5, <1>6, <2>1
<1>9. CreditsSound'
  BY <1>1, <1>5, <1>6, <1>7, <1>8 DEF CreditsSound
<1>10. lost = 1 => credits'[o] + strays[o] = credits[o] + strays'[o]
  BY <1>1, <1>5, <1>6
<1>11. outdated' \in BOOLEAN
  BY <1>1 DEF Confirms, WritesAfter
<1> QED
  BY <1>3, <1>4, <1>5, <1>6, <1>9, <1>10, <1>11

LEMMA ConfirmInv ==
  ASSUME AffInv, NEW h \in Handlers,
         ConfirmCommission(h) \/ ConfirmThenDie(h)
  PROVE  AffInv'
<1> DEFINE o == handlers[h].key
<1>1. /\ o \in Purchases /\ Carries(handlers[h])
      /\ handlers[h].op \in {"confirm", "stray"} /\ Ends(h)
  BY DEF ConfirmCommission, ConfirmThenDie, AffInv, HandlersType, Shape
<1>2. PICK lost \in {0, 1} : lost = IF handlers[h].op = "stray" THEN 1 ELSE 0
  OBVIOUS
<1> DEFINE Rests == UNCHANGED <<commission, account, credits, strays, outdated>>
           Credited == /\ handlers[h].seen = "PENDING"
                       /\ Confirms(o)
                       /\ strays' = [strays EXCEPT ![o] = @ + lost]
<1>3. Rests \/ Credited
  <2>1. CASE ConfirmCommission(h)
    BY <1>2, <2>1 DEF ConfirmCommission, NothingToConfirm
  <2>2. CASE ConfirmThenDie(h)
    <3>1. lost = 0 /\ UNCHANGED strays /\ strays \in [Purchases -> Nat]
      BY <1>2, <2>2 DEF ConfirmThenDie, AffInv, AccountsType
    <3>2. strays[o] + lost = strays[o]
      BY <1>1, <3>1
    <3>3. strays' = [strays EXCEPT ![o] = @ + lost]
      BY <3>1, <3>2
    <3> QED
      BY <2>2, <3>3 DEF ConfirmThenDie
  <2> QED
    BY <2>1, <2>2
<1>4. /\ commission' \in [Purchases -> CommissionRow]
      /\ account' \in Account
      /\ credits' \in [Purchases -> Int]
      /\ strays' \in [Purchases -> Nat]
      /\ outdated' \in BOOLEAN
      /\ CreditsSound'
  <2>1. CASE Rests
    BY <2>1 DEF AffInv, AccountsType, CreditsSound
  <2>2. CASE Credited
    <3>1. lost = 0 => credits[o] <= strays[o]
      BY <1>1, <1>2, <2>2 DEF Carries
    <3> QED
      BY <1>1, <2>2, <3>1, ConfirmRows
  <2> QED
    BY <1>3, <2>1, <2>2
<1>5. /\ \A k \in Purchases : k # o => lockJobs'[k] = lockJobs[k]
      /\ lockJobs' \in [Purchases -> {"none", "delayed", "active", "failed"}]
      /\ handlers[h].op = "stray" => lockJobs'[o] = lockJobs[o]
  BY <1>1 DEF ConfirmCommission, ConfirmThenDie, TakenFrom, AffInv, AccountsType
<1>6. trouble' \in 0 .. MaxTrouble
  BY AffBoundsAssumption DEF ConfirmCommission, ConfirmThenDie, AffInv, AccountsType
<1>7. UNCHANGED <<purchase, withdrawal, createJobs, reversed, returned>>
  BY DEF ConfirmCommission, ConfirmThenDie
<1>8. AccountsType'
  BY <1>4, <1>5, <1>6, <1>7 DEF AffInv, AccountsType
<1>9. Leaves(h)
  <2>1. CASE Rests
    BY <2>1 DEF Leaves, AffInv, AccountsType
  <2>2. CASE Credited
    <3>1. commission[o].status # "none"
      BY <1>1, <2>2 DEF Carries
    <3>2. /\ commission'[o].status = "CONFIRMED"
          /\ \A k \in Purchases : k # o => commission'[k] = commission[k]
      BY <1>1, <2>2 DEF Confirms, AffInv, AccountsType, CommissionRow
    <3>3. lost = 0 => credits[o] <= strays[o]
      BY <1>1, <1>2, <2>2 DEF Carries
    <3>4. /\ \A k \in Purchases : k # o => /\ credits'[k] = credits[k]
                                          /\ strays'[k] = strays[k]
          /\ lost = 1 => credits'[o] + strays[o] = credits[o] + strays'[o]
      BY <1>1, <2>2, <3>3, ConfirmRows
    <3>5. \A k \in Purchases : /\ credits[k] \in Int /\ credits'[k] \in Int
                               /\ strays[k] \in Nat /\ strays'[k] \in Nat
      BY <1>4 DEF AffInv, AccountsType
    <3>6. \A k \in Purchases :
            \/ credits'[k] + strays[k] <= credits[k] + strays'[k]
            \/ handlers[h].op = "confirm" /\ handlers[h].key = k
      BY <1>1, <1>2, <3>4, <3>5
    <3> QED
      BY <3>1, <3>2, <3>6 DEF Leaves
  <2> QED
    BY <1>3, <2>1, <2>2
<1>10. \A g \in Handlers : g # h /\ handlers[g].op = "confirm"
         => lockJobs'[handlers[g].key] = "active"
  <2>1. CASE handlers[h].op = "confirm"
    BY <1>5, <2>1, OthersKeepJobs
  <2>2. CASE handlers[h].op = "stray"
    BY <1>5, <2>2, JobsStay
  <2> QED
    BY <1>1, <2>1, <2>2
<1> QED
  BY <1>1, <1>4, <1>8, <1>9, <1>10, EndInv

\* cancelCommission reads the row, and goes on unless there is nothing to do.
LEMMA ReadForCancelInv ==
  ASSUME AffInv, NEW h \in Handlers, ReadForCancel(h)
  PROVE  AffInv'
<1> DEFINE o == handlers[h].key
           r == IF MayCancelCommission(commission[o].status)
                  THEN [handlers[h] EXCEPT !.op = "cancel",
                                           !.seen = commission[o].status]
                  ELSE Resting
<1>1. o \in Purchases /\ handlers[h] \in Handler
  BY DEF ReadForCancel, AffInv, HandlersType, Shape
<1>2. Turns(h, r)
  BY DEF ReadForCancel, Turns, AffInv, HandlersType
<1>3. commission[o].status \in {"none", "PENDING", "CONFIRMED", "PAID",
                                "CANCELLED"}
  BY <1>1 DEF AffInv, AccountsType, CommissionRow
<1>4. Shape(r) /\ r.op \in {"cancel", "idle"} /\ Carries(r)
  <2>1. CASE MayCancelCommission(commission[o].status)
    BY <1>1, <1>3, <2>1 DEF Shape, Handler, Carries, MayCancelCommission
  <2>2. CASE ~MayCancelCommission(commission[o].status)
    BY <2>2, RestingShape DEF Carries
  <2> QED
    BY <2>1, <2>2
<1>5. AccountsType' /\ UNCHANGED <<commission, credits, strays, lockJobs>>
  BY DEF ReadForCancel, AffInv, AccountsType, affRows, affHistory
<1> HIDE DEF r
<1>6. Sole(h, r)
  BY <1>4 DEF Sole
<1> QED
  BY <1>2, <1>4, <1>5, <1>6, PlainTurn

LEMMA CancelCommissionInv ==
  ASSUME AffInv, NEW h \in Handlers, CancelCommission(h)
  PROVE  AffInv'
<1> DEFINE o == handlers[h].key
           r == [handlers[h] EXCEPT !.op = "unschedule"]
<1>1. /\ o \in Purchases /\ handlers[h] \in Handler
      /\ handlers[h].op = "cancel" /\ Carries(handlers[h])
  BY DEF CancelCommission, AffInv, HandlersType, Shape
<1>2. Turns(h, r)
  BY DEF CancelCommission, Turns, AffInv, HandlersType
<1>3. Shape(r) /\ r.op = "unschedule"
  BY <1>1 DEF Shape, Handler
<1>4. /\ commission \in [Purchases -> CommissionRow]
      /\ credits \in [Purchases -> Int]
      /\ account \in Account /\ reversed \in Nat
      /\ CreditsSound
  BY DEF AffInv, AccountsType
<1>5. commission[o].amount \in Nat
  BY <1>1, <1>4 DEF CommissionRow
<1>6. /\ commission' \in [Purchases -> CommissionRow]
      /\ \A k \in Purchases : commission'[k].status =
           IF k = o THEN "CANCELLED" ELSE commission[k].status
  <2>1. commission' = [commission EXCEPT ![o].status = "CANCELLED"]
    BY DEF CancelCommission
  <2>2. /\ [commission[o] EXCEPT !.status = "CANCELLED"] \in CommissionRow
        /\ [commission[o] EXCEPT !.status = "CANCELLED"].status = "CANCELLED"
    BY <1>1, <1>4 DEF CommissionRow
  <2> QED
    BY <1>4, <2>1, <2>2
<1>7. /\ account' \in Account
      /\ reversed' \in Nat
      /\ credits' \in [Purchases -> Int]
      /\ \A k \in Purchases : credits'[k] <= credits[k]
  <2>1. CASE UNCHANGED <<account, credits, reversed>>
    BY <1>4, <2>1
  <2>2. CASE /\ Credit(-commission[o].amount)
             /\ credits' = [credits EXCEPT ![o] = @ - 1]
             /\ reversed' = reversed + commission[o].amount
    <3>1. -commission[o].amount \in Int
      BY <1>5
    <3>2. account' \in Account
      BY <1>4, <2>2, <3>1, CreditType
    <3>3. reversed' \in Nat
      BY <1>4, <1>5, <2>2
    <3>4. /\ credits' = [credits EXCEPT ![o] = credits[o] - 1]
          /\ \A k \in Purchases : credits[k] \in Int /\ credits[k] - 1 \in Int
      BY <1>4, <2>2
    <3>5. /\ credits' \in [Purchases -> Int]
          /\ \A k \in Purchases : credits'[k] <= credits[k]
      BY <1>1, <1>4, <3>4
    <3> QED
      BY <3>2, <3>3, <3>5
  <2> QED
    BY <2>1, <2>2 DEF CancelCommission
<1>8. outdated' \in BOOLEAN
  BY DEF CancelCommission, WritesAfter, AffInv, AccountsType
<1>9. UNCHANGED <<purchase, withdrawal, createJobs, lockJobs, strays, returned,
                  trouble>>
  BY DEF CancelCommission
<1>10. AccountsType'
  BY <1>6, <1>7, <1>8, <1>9 DEF AffInv, AccountsType
<1>15. \A k \in Purchases : /\ credits[k] \in Int /\ credits'[k] \in Int
                            /\ strays[k] \in Nat /\ strays'[k] = strays[k]
  BY <1>4, <1>7, <1>9 DEF AffInv, AccountsType
<1>11. Leaves(h)
  BY <1>1, <1>6, <1>7, <1>15 DEF Leaves, Carries
<1>12. CreditsSound'
  BY <1>4, <1>6, <1>7, <1>15 DEF CreditsSound
<1>13. \A g \in Handlers : handlers[g].op = "confirm"
         => lockJobs'[handlers[g].key] = "active"
  BY <1>9, JobsStay
<1> HIDE DEF r
<1>14. Sole(h, r)
  BY <1>3 DEF Sole
<1> QED
  BY <1>2, <1>3, <1>10, <1>11, <1>12, <1>13, <1>14, TurnInv

LEMMA RemoveLockJobInv ==
  ASSUME AffInv, NEW h \in Handlers, RemoveLockJob(h)
  PROVE  AffInv'
<1>1. /\ lockJobs' \in [Purchases -> {"none", "delayed", "active", "failed"}]
      /\ \A o \in Purchases : lockJobs[o] = "active" => lockJobs'[o] = "active"
  BY DEF RemoveLockJob, AffInv, AccountsType
<1>2. AccountsType'
  BY <1>1 DEF RemoveLockJob, AffInv, AccountsType, affRows, affHistory
<1>3. Leaves(h) /\ CreditsSound'
  BY DEF RemoveLockJob, AffInv, AccountsType, Leaves, CreditsSound, affRows,
     affHistory
<1> QED
  BY <1>1, <1>2, <1>3, JobsStay, EndInv DEF RemoveLockJob

\* A handler that writes the account and its withdrawals alone ends.
LEMMA PayoutEnd ==
  ASSUME AffInv, NEW h \in Handlers, Ends(h), AccountsType',
         UNCHANGED <<credits, strays, lockJobs>>,
         \A o \in Purchases : /\ commission'[o].status = commission[o].status
                                   \/ /\ commission[o].status = "CONFIRMED"
                                      /\ commission'[o].status = "PAID"
  PROVE  AffInv'
<1>1. Leaves(h)
  BY DEF Leaves, AffInv, AccountsType
<1>2. CreditsSound'
  BY DEF CreditsSound, AffInv
<1> QED
  BY <1>1, <1>2, JobsStay, EndInv

LEMMA PayoutsInv ==
  ASSUME AffInv, NEW h \in Handlers,
         \/ RequestAffiliatePayout(h)
         \/ MarkAffiliatePayoutPaid(h)
         \/ RejectPayout(h)
  PROVE  AffInv'
<1> DEFINE p == handlers[h].key
<1>1. /\ p \in Withdrawals
      /\ handlers[h].op = "request" => handlers[h].asked \in Nat
      /\ withdrawal \in [Withdrawals -> WithdrawalRow]
      /\ commission \in [Purchases -> CommissionRow]
      /\ account \in Account
      /\ returned \subseteq Withdrawals
      /\ outdated \in BOOLEAN
  BY DEF RequestAffiliatePayout, MarkAffiliatePayoutPaid, RejectPayout, AffInv,
     AccountsType, HandlersType, Shape, Handler
<1>2. /\ outdated' \in BOOLEAN /\ Ends(h)
      /\ UNCHANGED <<purchase, createJobs, lockJobs, credits, strays, reversed,
                     trouble>>
  BY <1>1 DEF RequestAffiliatePayout, MarkAffiliatePayoutPaid, RejectPayout,
     WritesAfter
<1>3. withdrawal[p] \in WithdrawalRow /\ withdrawal[p].amount \in Nat
  BY <1>1 DEF WithdrawalRow
<1>4. ASSUME NEW b \in Int, account' = [account EXCEPT !.balance = b]
      PROVE  account' \in Account
  <2>1. account.active \in BOOLEAN
    BY <1>1 DEF Account
  <2>2. account.totalEarned \in Int
    BY <1>1 DEF Account
  <2>3. account' = [active |-> account.active, balance |-> b,
                    totalEarned |-> account.totalEarned]
    BY <1>1, <1>4 DEF Account
  <2> QED
    BY <1>4, <2>1, <2>2, <2>3 DEF Account
<1>5. CASE RequestAffiliatePayout(h)
  <2>1. PICK a \in Nat : a = handlers[h].asked
    BY <1>1, <1>5 DEF RequestAffiliatePayout
  <2>2. [status |-> "REQUESTED", amount |-> a] \in WithdrawalRow
    BY DEF WithdrawalRow
  <2>3. withdrawal' \in [Withdrawals -> WithdrawalRow]
    BY <1>1, <1>5, <2>1, <2>2 DEF RequestAffiliatePayout
  <2>4. account.balance - a \in Int
    BY <1>1 DEF Account
  <2>5. account' \in Account
    BY <1>4, <1>5, <2>1, <2>4 DEF RequestAffiliatePayout
  <2>6. AccountsType'
    BY <1>1, <1>2, <1>5, <2>3, <2>5 DEF RequestAffiliatePayout, AffInv,
       AccountsType
  <2> QED
    BY <1>2, <1>5, <2>6, PayoutEnd DEF RequestAffiliatePayout
<1>6. CASE MarkAffiliatePayoutPaid(h)
  <2>1. withdrawal' \in [Withdrawals -> WithdrawalRow]
    BY <1>1, <1>3, <1>6 DEF MarkAffiliatePayoutPaid, WithdrawalRow
  <2>2. ASSUME NEW o \in Purchases
        PROVE  /\ commission'[o] \in CommissionRow
               /\ \/ commission'[o].status = commission[o].status
                  \/ /\ commission[o].status = "CONFIRMED"
                     /\ commission'[o].status = "PAID"
    BY <1>1, <1>6 DEF MarkAffiliatePayoutPaid, CommissionRow
  <2>3. commission' \in [Purchases -> CommissionRow]
    BY <1>6, <2>2 DEF MarkAffiliatePayoutPaid
  <2>4. AccountsType'
    BY <1>2, <1>6, <2>1, <2>3 DEF MarkAffiliatePayoutPaid, AffInv, AccountsType
  <2> QED
    BY <1>2, <2>2, <2>4, PayoutEnd
<1>7. CASE RejectPayout(h)
  <2>1. withdrawal' \in [Withdrawals -> WithdrawalRow]
    BY <1>1, <1>3, <1>7 DEF RejectPayout, WithdrawalRow
  <2>2. account' \in Account
    <3>1. account.balance + withdrawal[p].amount \in Int
      BY <1>1, <1>3 DEF Account
    <3> QED
      BY <1>4, <1>7, <3>1 DEF RejectPayout
  <2>3. returned' \subseteq Withdrawals
    BY <1>1, <1>7 DEF RejectPayout
  <2>4. AccountsType'
    BY <1>2, <1>7, <2>1, <2>2, <2>3 DEF RejectPayout, AffInv, AccountsType
  <2> QED
    BY <1>2, <1>7, <2>4, PayoutEnd DEF RejectPayout
<1> QED
  BY <1>5, <1>6, <1>7

\* A handler that dies leaves its rows; the confirm job may be lost with it.
LEMMA TroubleInv ==
  ASSUME AffInv, NEW h \in Handlers, AffiliateTrouble(h)
  PROVE  AffInv'
<1>1. trouble' \in 0 .. MaxTrouble
  BY AffBoundsAssumption DEF AffiliateTrouble, AffInv, AccountsType
<1>2. /\ lockJobs' \in [Purchases -> {"none", "delayed", "active", "failed"}]
      /\ \/ UNCHANGED lockJobs
         \/ /\ handlers[h].op = "confirm"
            /\ \A o \in Purchases : o # handlers[h].key
                                      => lockJobs'[o] = lockJobs[o]
  BY DEF AffiliateTrouble, TakenFrom, AffInv, AccountsType
<1>3. AccountsType'
  BY <1>1, <1>2 DEF AffiliateTrouble, AffInv, AccountsType, affRows, affHistory
<1>4. Leaves(h) /\ CreditsSound'
  BY DEF AffiliateTrouble, AffInv, AccountsType, Leaves, CreditsSound, affRows,
     affHistory
<1>5. \A g \in Handlers : g # h /\ handlers[g].op = "confirm"
        => lockJobs'[handlers[g].key] = "active"
  BY <1>2, JobsStay, OthersKeepJobs
<1> QED
  BY <1>3, <1>4, <1>5, EndInv DEF AffiliateTrouble

\* A worker that loses its job carries on with what it read.
LEMMA ConfirmStallsInv ==
  ASSUME AffInv, NEW h \in Handlers, ConfirmStalls(h)
  PROVE  AffInv'
<1>1. PICK w \in Handler : /\ w = handlers[h] /\ w.op = "confirm"
                           /\ w.key \in Purchases /\ Carries(w)
  BY DEF ConfirmStalls, AffInv, HandlersType, Shape
<1>2. [w EXCEPT !.op = "stray"] \in Handler
  BY DEF Handler
<1>3. PICK r \in Handler : r = [w EXCEPT !.op = "stray"]
  BY <1>2
<1>4. r.op = "stray" /\ r.key = w.key /\ r.seen = w.seen
  BY <1>3 DEF Handler
<1>5. Turns(h, r)
  BY <1>1, <1>3 DEF ConfirmStalls, Turns, AffInv, HandlersType
<1>6. Shape(r) /\ Sole(h, r)
  BY <1>1, <1>4 DEF Shape, Sole
<1>7. Carries(r)
  BY <1>1, <1>4 DEF Carries
<1>8. /\ lockJobs' \in [Purchases -> {"none", "delayed", "active", "failed"}]
      /\ \A o \in Purchases : o # handlers[h].key => lockJobs'[o] = lockJobs[o]
      /\ handlers[h].op = "confirm"
  BY DEF ConfirmStalls, TakenFrom, AffInv, AccountsType
<1>9. trouble' \in 0 .. MaxTrouble
  BY AffBoundsAssumption DEF ConfirmStalls, AffInv, AccountsType
<1>10. AccountsType' /\ UNCHANGED <<commission, credits, strays>>
  BY <1>8, <1>9 DEF ConfirmStalls, AffInv, AccountsType, affRows, affHistory
<1>11. Leaves(h) /\ CreditsSound'
  BY <1>10 DEF AffInv, AccountsType, Leaves, CreditsSound
<1>12. \A g \in Handlers : g # h /\ handlers[g].op = "confirm"
         => lockJobs'[handlers[g].key] = "active"
  BY <1>8, OthersKeepJobs
<1> QED
  BY <1>4, <1>5, <1>6, <1>7, <1>10, <1>11, <1>12, TurnInv

\* The rows of the order, its delivery and the affiliate's own status.
LEMMA NoHandlerInv ==
  ASSUME AffInv,
         \/ \E o \in Purchases : PurchasePaid(o) \/ PurchaseDelivered(o)
         \/ \E active \in BOOLEAN : SetAffiliateStatus(active)
  PROVE  AffInv'
<1>1. ASSUME NEW o \in Purchases, PurchasePaid(o) PROVE AffInv'
  <2>1. AccountsType'
    BY <1>1 DEF PurchasePaid, AffInv, AccountsType, affRows, affHistory
  <2> QED
    BY <1>1, <2>1, NoTurn DEF PurchasePaid, affRows, affHistory
<1>2. ASSUME NEW o \in Purchases, PurchaseDelivered(o) PROVE AffInv'
  <2>1. /\ lockJobs' \in [Purchases -> {"none", "delayed", "active", "failed"}]
        /\ \A k \in Purchases : lockJobs[k] = "active"
                                  => lockJobs'[k] = "active"
    BY <1>2 DEF PurchaseDelivered, AddLockJob, AffInv, AccountsType
  <2>2. trouble' \in 0 .. MaxTrouble
    BY <1>2, AffBoundsAssumption DEF PurchaseDelivered, AffInv, AccountsType
  <2>3. AccountsType'
    BY <1>2, <2>1, <2>2 DEF PurchaseDelivered, AffInv, AccountsType, affRows,
       affHistory
  <2> QED
    BY <1>2, <2>1, <2>3, NoTurn DEF PurchaseDelivered, affRows, affHistory
<1>3. ASSUME NEW active \in BOOLEAN, SetAffiliateStatus(active) PROVE AffInv'
  <2>1. /\ account.balance \in Int /\ account.totalEarned \in Int
        /\ account' = [active |-> active, balance |-> account.balance,
                       totalEarned |-> account.totalEarned]
    BY <1>3 DEF SetAffiliateStatus, AffInv, AccountsType, Account
  <2>2. account' \in Account
    BY <2>1 DEF Account
  <2>3. AccountsType'
    BY <1>3, <2>2 DEF SetAffiliateStatus, AffInv, AccountsType, affHistory
  <2> QED
    BY <1>3, <2>3, NoTurn DEF SetAffiliateStatus, affHistory
<1> QED
  BY <1>1, <1>2, <1>3

-----------------------------------------------------------------------------
(* The theorems                                                            *)

LEMMA AffInitInv == AffInit => AffInv
<1> SUFFICES ASSUME AffInit PROVE AffInv
  OBVIOUS
<1>1. AccountsType
  <2>1. [status |-> "none", amount |-> 0] \in CommissionRow
    BY DEF CommissionRow
  <2>2. [status |-> "none", amount |-> 0] \in WithdrawalRow
    BY DEF WithdrawalRow
  <2>3. account \in Account
    BY DEF AffInit, Account
  <2>4. /\ commission \in [Purchases -> CommissionRow]
        /\ withdrawal \in [Withdrawals -> WithdrawalRow]
    BY <2>1, <2>2 DEF AffInit
  <2>5. /\ 0 \in 0 .. MaxTrouble
        /\ credits \in [Purchases -> Int]
        /\ strays \in [Purchases -> Nat]
    BY AffBoundsAssumption DEF AffInit
  <2>6. /\ purchase \in [Purchases -> {"unpaid", "paid", "delivered",
                                       "refunded"}]
        /\ lockJobs \in [Purchases -> {"none", "delayed", "active", "failed"}]
        /\ createJobs \subseteq Purchases /\ returned \subseteq Withdrawals
        /\ outdated \in BOOLEAN
    BY DEF AffInit
  <2> QED
    BY <2>3, <2>4, <2>5, <2>6 DEF AffInit, AccountsType
<1>2. HandlersType
  BY RestingShape DEF AffInit, HandlersType, Shape
<1>3. OneJobEach /\ \A h \in Handlers : Carries(handlers[h])
  BY RestingShape DEF AffInit, OneJobEach, Carries
<1>4. CreditsSound
  BY DEF AffInit, CreditsSound
<1> QED
  BY <1>1, <1>2, <1>3, <1>4 DEF AffInv

LEMMA AffStepInv == AffInv /\ [AffNext]_affVars => AffInv'
<1> SUFFICES ASSUME AffInv, [AffNext]_affVars PROVE AffInv'
  OBVIOUS
<1>1. CASE UNCHANGED affVars
  <2>1. AccountsType'
    BY <1>1 DEF affVars, affRows, affHistory, AffInv, AccountsType
  <2> QED
    BY <1>1, <2>1, NoTurn DEF affVars, affRows, affHistory
<1>2. ASSUME NEW h \in Handlers, NEW o \in Purchases,
             \/ ReadForCreate(h, o)
             \/ ReadForConfirm(h, o)
             \/ PurchaseRefunded(h, o)
      PROVE  AffInv'
  BY <1>2, ReadForCreateInv, ReadForConfirmInv, StartsInv
<1>3. ASSUME NEW h \in Handlers, NEW p \in Withdrawals,
             \/ \E amount \in Asks : ReadForPayout(h, p, amount)
             \/ ReadForPaid(h, p)
             \/ ReadForReject(h, p)
      PROVE  AffInv'
  BY <1>3, StartsInv
<1>4. ASSUME NEW h \in Handlers,
             \/ CreateForOrder(h)
             \/ ConfirmCommission(h)
             \/ ReadForCancel(h)
             \/ CancelCommission(h)
             \/ RemoveLockJob(h)
             \/ RequestAffiliatePayout(h)
             \/ MarkAffiliatePayoutPaid(h)
             \/ RejectPayout(h)
             \/ AffiliateTrouble(h)
             \/ ConfirmStalls(h)
             \/ ConfirmThenDie(h)
      PROVE  AffInv'
  BY <1>4, CreateForOrderInv, ConfirmInv, ReadForCancelInv,
     CancelCommissionInv, RemoveLockJobInv, PayoutsInv, TroubleInv,
     ConfirmStallsInv
<1> QED
  BY <1>1, <1>2, <1>3, <1>4, NoHandlerInv DEF AffNext

\* Whatever overlaps, dies or is delivered twice, every row, job and handler
\* of the commission and payout services has its type.
THEOREM AffTypeCorrect == AffSpec => []AffTypeOK
<1>1. AffInv => AffTypeOK
  BY TypeParts DEF AffInv
<1> QED
  BY <1>1, AffInitInv, AffStepInv, PTL DEF AffSpec

\* However many handlers confirmCommission runs in and wherever one dies, an
\* order's commission is credited once by workers that hold its confirm job;
\* every further credit is one by a worker that had lost it and went on.
THEOREM NeverCreditedTwiceHolds == AffSpec => []NeverCreditedTwice
<1>1. AffInv => NeverCreditedTwice
  BY DEF AffInv, CreditsSound, NeverCreditedTwice
<1> QED
  BY <1>1, AffInitInv, AffStepInv, PTL DEF AffSpec

-----------------------------------------------------------------------------
(* Paid and cancelled commissions                                          *)

\* What the write of a commission finds there.
LEMMA SettledStays ==
  ASSUME AffInv, [AffNext]_affVars, ~outdated', NEW o \in Purchases,
         commission[o].status \in {"PAID", "CANCELLED"}
  PROVE  commission'[o] = commission[o]
<1>1. commission \in [Purchases -> CommissionRow]
  BY DEF AffInv, AccountsType
<1>2. ASSUME NEW h \in Handlers, CreateForOrder(h)
      PROVE  commission'[o] = commission[o]
  <2>1. handlers[h].seen = "none" => o # handlers[h].key
    BY <1>2 DEF CreateForOrder, AffInv, Carries
  <2> QED
    BY <1>1, <1>2, <2>1 DEF CreateForOrder
<1>3. ASSUME NEW h \in Handlers, ConfirmCommission(h) \/ ConfirmThenDie(h)
      PROVE  commission'[o] = commission[o]
  BY <1>1, <1>3 DEF ConfirmCommission, Confirms, ConfirmThenDie, WritesAfter
<1>4. ASSUME NEW h \in Handlers, CancelCommission(h)
      PROVE  commission'[o] = commission[o]
  <2>1. commission[handlers[h].key].status = handlers[h].seen
    BY <1>4 DEF CancelCommission, WritesAfter
  <2>2. handlers[h].seen # "PAID"
    BY <1>4 DEF CancelCommission, AffInv, Carries
  <2>3. CASE o # handlers[h].key
    BY <1>1, <1>4, <2>3 DEF CancelCommission
  <2>4. CASE o = handlers[h].key
    <3>1. commission[o].status = "CANCELLED"
      BY <2>1, <2>2, <2>4
    <3>2. [commission[o] EXCEPT !.status = "CANCELLED"] = commission[o]
      BY <1>1, <3>1 DEF CommissionRow
    <3> QED
      BY <1>1, <1>4, <2>4, <3>2 DEF CancelCommission
  <2> QED
    BY <2>3, <2>4
<1>5. ASSUME NEW h \in Handlers, MarkAffiliatePayoutPaid(h)
      PROVE  commission'[o] = commission[o]
  BY <1>5 DEF MarkAffiliatePayoutPaid
<1>6. \/ UNCHANGED commission
      \/ \E h \in Handlers : \/ CreateForOrder(h)
                            \/ ConfirmCommission(h) \/ ConfirmThenDie(h)
                            \/ CancelCommission(h)
                            \/ MarkAffiliatePayoutPaid(h)
  BY DEF AffNext, affVars, affRows, PurchasePaid, PurchaseDelivered,
     ReadForCreate, ReadForConfirm, PurchaseRefunded, ReadForPayout,
     ReadForPaid, ReadForReject, ReadForCancel, RemoveLockJob,
     RequestAffiliatePayout, RejectPayout, AffiliateTrouble, ConfirmStalls,
     SetAffiliateStatus
<1> QED
  BY <1>2, <1>3, <1>4, <1>5, <1>6

\* A commission paid out or cancelled is never written again by a handler
\* whose check still holds: createForOrder writes only where it found no row,
\* confirmCommission only a pending one, cancelCommission only an unpaid one.
THEOREM SettledStaysSettled == AffSpec => SettledForGood
<1> DEFINE A == ~outdated' => \A o \in Purchases :
                  commission[o].status \in {"PAID", "CANCELLED"}
                    => commission'[o] = commission[o]
<1>1. AffInv /\ [AffNext]_affVars => [A]_affVars
  BY SettledStays
<1> QED
  BY <1>1, AffInitInv, AffStepInv, PTL DEF AffSpec, SettledForGood

-----------------------------------------------------------------------------
(* The balance                                                             *)

\* What a step does to the balance: nothing, a credit, a refund's reversal,
\* or a withdrawal.
Still == account'.balance = account.balance /\ reversed' = reversed
Gains ==
  \E n \in Nat : account'.balance = account.balance + n /\ reversed' = reversed
Reverses ==
  \E n \in Nat : /\ account'.balance = account.balance - n
                 /\ reversed' = reversed + n
Withdraws ==
  \E n \in Nat : /\ account'.balance = account.balance - n
                 /\ reversed' = reversed
                 /\ ~outdated' => n <= account.balance

LEMMA BalanceSteps ==
  ASSUME AffInv, [AffNext]_affVars
  PROVE  Still \/ Gains \/ Reverses \/ Withdraws
<1>1. /\ commission \in [Purchases -> CommissionRow]
      /\ withdrawal \in [Withdrawals -> WithdrawalRow]
      /\ account \in Account
      /\ \A h \in Handlers : Shape(handlers[h])
  BY DEF AffInv, AccountsType, HandlersType
<1>2. ASSUME NEW n \in Int, Credit(n)
      PROVE  account'.balance = account.balance + n
  BY <1>1, <1>2 DEF Credit, Account
<1>3. ASSUME NEW h \in Handlers, ConfirmCommission(h) \/ ConfirmThenDie(h)
      PROVE  Still \/ Gains
  <2>1. handlers[h].key \in Purchases
    BY <1>1, <1>3 DEF ConfirmCommission, ConfirmThenDie, Shape
  <2>2. commission[handlers[h].key].amount \in Nat
    BY <1>1, <2>1 DEF CommissionRow
  <2> QED
    BY <1>2, <1>3, <2>2 DEF ConfirmCommission, Confirms, ConfirmThenDie, Still,
       Gains
<1>4. ASSUME NEW h \in Handlers, CancelCommission(h)
      PROVE  Still \/ Reverses
  <2>1. handlers[h].key \in Purchases
    BY <1>1, <1>4 DEF CancelCommission, Shape
  <2>2. PICK n \in Nat : n = commission[handlers[h].key].amount
    BY <1>1, <2>1 DEF CommissionRow
  <2>3. CASE Credit(-n) /\ reversed' = reversed + n
    <3>1. account'.balance = account.balance + (-n)
      BY <1>2, <2>3
    <3>2. account.balance \in Int
      BY <1>1 DEF Account
    <3> QED
      BY <2>3, <3>1, <3>2 DEF Reverses
  <2> QED
    BY <1>4, <2>2, <2>3 DEF CancelCommission, Still
<1>5. ASSUME NEW h \in Handlers, RequestAffiliatePayout(h)
      PROVE  Withdraws
  <2>1. PICK n \in Nat : n = handlers[h].asked
    BY <1>1, <1>5 DEF RequestAffiliatePayout, Shape, Handler
  <2>2. /\ account'.balance = account.balance - n
        /\ reversed' = reversed
    BY <1>1, <1>5, <2>1 DEF RequestAffiliatePayout, Account
  <2>3. ~outdated' => n <= account.balance
    BY <1>5, <2>1 DEF RequestAffiliatePayout, WritesAfter, MayWithdraw
  <2> QED
    BY <2>2, <2>3 DEF Withdraws
<1>6. ASSUME NEW h \in Handlers, RejectPayout(h)
      PROVE  Gains
  <2>1. handlers[h].key \in Withdrawals
    BY <1>1, <1>6 DEF RejectPayout, Shape
  <2>2. withdrawal[handlers[h].key].amount \in Nat
    BY <1>1, <2>1 DEF WithdrawalRow
  <2> QED
    BY <1>1, <1>6, <2>2 DEF RejectPayout, Account, Gains
<1>7. ASSUME NEW active, SetAffiliateStatus(active)
      PROVE  Still
  BY <1>1, <1>7 DEF SetAffiliateStatus, affHistory, Account, Still
<1>8. \/ Still
      \/ \E h \in Handlers : \/ ConfirmCommission(h) \/ ConfirmThenDie(h)
                            \/ CancelCommission(h)
                            \/ RequestAffiliatePayout(h)
                            \/ RejectPayout(h)
      \/ \E active \in BOOLEAN : SetAffiliateStatus(active)
  BY DEF Still, AffNext, affVars, affRows, affHistory, PurchasePaid,
     PurchaseDelivered, ReadForCreate, CreateForOrder, ReadForConfirm,
     PurchaseRefunded, ReadForPayout, ReadForPaid, ReadForReject,
     ReadForCancel, RemoveLockJob, MarkAffiliatePayoutPaid, AffiliateTrouble,
     ConfirmStalls
<1> QED
  BY <1>3, <1>4, <1>5, <1>6, <1>7, <1>8

\* The mark of an outdated write is never taken back.
LEMMA OutdatedStays ==
  ASSUME AffInv, [AffNext]_affVars, outdated PROVE outdated'
BY DEF AffNext, affVars, affRows, affHistory, WritesAfter, PurchasePaid,
   PurchaseDelivered, ReadForCreate, CreateForOrder, ReadForConfirm,
   ConfirmCommission, Confirms, ConfirmThenDie, PurchaseRefunded, ReadForPayout,
   ReadForPaid, ReadForReject, ReadForCancel, CancelCommission, RemoveLockJob,
   RequestAffiliatePayout, MarkAffiliatePayoutPaid, RejectPayout,
   AffiliateTrouble, ConfirmStalls, SetAffiliateStatus

\* As long as every write follows a check that still holds, an affiliate owes
\* at most what refunds took back: withdrawals alone never overdraw.
THEOREM OverdrawnOnlyByRefundsHolds == AffSpec => []OverdrawnOnlyByRefunds
<1> DEFINE J == AffInv /\ OverdrawnOnlyByRefunds
<1>1. AffInit => J
  <2>1. AffInit => OverdrawnOnlyByRefunds
    BY DEF AffInit, OverdrawnOnlyByRefunds
  <2> QED
    BY <2>1, AffInitInv
<1>2. J /\ [AffNext]_affVars => J'
  <2> SUFFICES ASSUME J, [AffNext]_affVars, ~outdated'
               PROVE  account'.balance + reversed' >= 0
    BY AffStepInv DEF OverdrawnOnlyByRefunds
  <2>1. account.balance \in Int /\ reversed \in Nat
    BY DEF AffInv, AccountsType, Account
  <2>2. account.balance + reversed >= 0
    BY OutdatedStays DEF OverdrawnOnlyByRefunds
  <2> QED
    <3>1. CASE Still
      BY <2>1, <2>2, <3>1 DEF Still
    <3>2. CASE Gains
      BY <2>1, <2>2, <3>2 DEF Gains
    <3>3. CASE Reverses
      BY <2>1, <2>2, <3>3 DEF Reverses
    <3>4. CASE Withdraws
      <4>1. PICK n \in Nat : /\ account'.balance = account.balance - n
                             /\ reversed' = reversed
                             /\ n <= account.balance
        BY <3>4 DEF Withdraws
      <4>2. account.balance - n >= 0
        BY <2>1, <4>1
      <4> QED
        BY <2>1, <4>1, <4>2
    <3>5. Still \/ Gains \/ Reverses \/ Withdraws
      BY BalanceSteps
    <3> QED
      BY <3>1, <3>2, <3>3, <3>4, <3>5
<1> QED
  BY <1>1, <1>2, PTL DEF AffSpec

-----------------------------------------------------------------------------
(* What the account adds up to                                             *)

EarnedSum == SumFunction([o \in Purchases |-> Earned(o)])
TakenSum == SumFunction([p \in Withdrawals |-> Taken(p)])

\* A withdrawal nobody has asked for is nothing; only one that was rejected
\* gave its money back.
WithdrawalsSound ==
  \A p \in Withdrawals :
    /\ withdrawal[p].status = "none" => withdrawal[p].amount = 0
    /\ p \in returned => withdrawal[p].status \in {"REJECTED", "PAID"}

\* What a handler of a withdrawal read is still so, as far as it must be.
Knows(r) ==
  /\ r.op = "request" => withdrawal[r.key].status = "none"
  /\ r.op \in {"pay", "reject"} => withdrawal[r.key].status # "none"
  /\ r.op = "reject" => r.seen = "REQUESTED"

OneRequestEach ==
  \A g, h \in Handlers :
    /\ handlers[g].op = "request" /\ handlers[h].op = "request"
    /\ handlers[g].key = handlers[h].key
    => g = h

SumsInv ==
  /\ AffInv /\ WithdrawalsSound /\ OneRequestEach /\ AccountAddsUp
  /\ \A h \in Handlers : Knows(handlers[h])

\* Only handler h's own withdrawal comes into being.
OnlyItsOwn(h) ==
  \A p \in Withdrawals :
    \/ withdrawal'[p].status = "none" <=> withdrawal[p].status = "none"
    \/ /\ handlers[h].op = "request" /\ handlers[h].key = p
       /\ withdrawal'[p].status # "none"

LEMMA KnowsOn ==
  ASSUME SumsInv, NEW h \in Handlers, NEW r, Turns(h, r), OnlyItsOwn(h),
         r.op \in {"request", "pay", "reject"} =>
           Knows(r) /\ UNCHANGED withdrawal,
         r.op = "request" => \A g \in Handlers : handlers[g].key # r.key
  PROVE  OneRequestEach' /\ \A g \in Handlers : Knows(handlers[g])'
<1>1. /\ handlers'[h] = r
      /\ \A g \in Handlers : g # h => handlers'[g] = handlers[g]
  BY TurnsTo DEF SumsInv, AffInv
<1>2. ASSUME NEW f \in Handlers, NEW g \in Handlers,
             handlers'[f].op = "request", handlers'[g].op = "request",
             handlers'[f].key = handlers'[g].key
      PROVE  f = g
  BY <1>1, <1>2 DEF SumsInv, OneRequestEach
<1>3. ASSUME NEW g \in Handlers PROVE Knows(handlers[g])'
  <2>1. CASE g = h
    BY <1>1, <2>1 DEF Knows
  <2>2. CASE g # h
    <3>1. handlers'[g] = handlers[g] /\ Knows(handlers[g])
      BY <1>1, <2>2 DEF SumsInv
    <3>2. handlers[g].op \in {"request", "pay", "reject"} =>
            handlers[g].key \in Withdrawals
      BY DEF SumsInv, AffInv, HandlersType, Shape
    <3>3. handlers[g].op = "request" /\ handlers[h].op = "request" =>
            handlers[g].key # handlers[h].key
      BY <2>2 DEF SumsInv, OneRequestEach
    <3> QED
      BY <3>1, <3>2, <3>3 DEF Knows, OnlyItsOwn
  <2> QED
    BY <2>1, <2>2
<1> QED
  BY <1>2, <1>3 DEF OneRequestEach

-----------------------------------------------------------------------------
LEMMA EarnedInts ==
  ASSUME AffInv
  PROVE  /\ \A o \in Purchases : Earned(o) \in Int
         /\ \A p \in Withdrawals : Taken(p) \in Int
         /\ EarnedSum \in Int /\ TakenSum \in Int
<1>1. /\ \A o \in Purchases : Earned(o) \in Int
      /\ \A p \in Withdrawals : Taken(p) \in Int
  BY DEF AffInv, AccountsType, CommissionRow, WithdrawalRow, Earned, Taken
<1>2. EarnedSum \in Int
  BY <1>1, AffKeysAssumption, SumIsInt DEF EarnedSum, SumFunction
<1>3. TakenSum \in Int
  BY <1>1, AffKeysAssumption, SumIsInt DEF TakenSum, SumFunction
<1> QED
  BY <1>1, <1>2, <1>3

LEMMA EarnedStays ==
  ASSUME \A o \in Purchases : Earned(o)' = Earned(o) PROVE EarnedSum' = EarnedSum
<1>1. [o \in Purchases |-> Earned(o)]' = [o \in Purchases |-> Earned(o)]
  OBVIOUS
<1> QED
  BY <1>1 DEF EarnedSum

LEMMA TakenStays ==
  ASSUME \A p \in Withdrawals : Taken(p)' = Taken(p) PROVE TakenSum' = TakenSum
<1>1. [p \in Withdrawals |-> Taken(p)]' = [p \in Withdrawals |-> Taken(p)]
  OBVIOUS
<1> QED
  BY <1>1 DEF TakenSum

LEMMA EarnedMoves ==
  ASSUME AffInv, AffInv', NEW o \in Purchases,
         \A k \in Purchases : k # o => Earned(k)' = Earned(k)
  PROVE  EarnedSum' = EarnedSum + Earned(o)' - Earned(o)
<1>1. PICK was : was = [k \in Purchases |-> Earned(k)]
  OBVIOUS
<1>2. PICK now : now = [k \in Purchases |-> Earned(k)']
  OBVIOUS
<1>3. \A k \in Purchases : was[k] \in Int /\ now[k] \in Int
  BY <1>1, <1>2 DEF AffInv, AccountsType, CommissionRow, Earned
<1>4. \A k \in Purchases : k # o => now[k] = was[k]
  BY <1>1, <1>2
<1>5. IsFiniteSet(Purchases)
  BY AffKeysAssumption
<1>6. SumFunctionOnSet(now, Purchases)
        = SumFunctionOnSet(was, Purchases) + now[o] - was[o]
  BY ONLY <1>3, <1>4, <1>5, o \in Purchases, SumChanges
<1>7. /\ EarnedSum = SumFunctionOnSet(was, Purchases)
      /\ EarnedSum' = SumFunctionOnSet(now, Purchases)
  BY <1>1, <1>2 DEF EarnedSum, SumFunction
<1> QED
  BY <1>1, <1>2, <1>6, <1>7

LEMMA TakenMoves ==
  ASSUME AffInv, AffInv', NEW p \in Withdrawals,
         \A q \in Withdrawals : q # p => Taken(q)' = Taken(q)
  PROVE  TakenSum' = TakenSum + Taken(p)' - Taken(p)
<1>1. PICK was : was = [q \in Withdrawals |-> Taken(q)]
  OBVIOUS
<1>2. PICK now : now = [q \in Withdrawals |-> Taken(q)']
  OBVIOUS
<1>3. \A q \in Withdrawals : was[q] \in Int /\ now[q] \in Int
  BY <1>1, <1>2 DEF AffInv, AccountsType, WithdrawalRow, Taken
<1>4. \A q \in Withdrawals : q # p => now[q] = was[q]
  BY <1>1, <1>2
<1>5. IsFiniteSet(Withdrawals)
  BY AffKeysAssumption
<1>6. SumFunctionOnSet(now, Withdrawals)
        = SumFunctionOnSet(was, Withdrawals) + now[p] - was[p]
  BY ONLY <1>3, <1>4, <1>5, p \in Withdrawals, SumChanges
<1>7. /\ TakenSum = SumFunctionOnSet(was, Withdrawals)
      /\ TakenSum' = SumFunctionOnSet(now, Withdrawals)
  BY <1>1, <1>2 DEF TakenSum, SumFunction
<1> QED
  BY <1>1, <1>2, <1>6, <1>7

\* The account follows the sums.
LEMMA AccountFollows ==
  ASSUME SumsInv, AffInv', NEW e \in Int, NEW t \in Int, outdated => outdated',
         ~outdated' => /\ EarnedSum' = EarnedSum + e /\ TakenSum' = TakenSum + t
                       /\ account'.totalEarned = account.totalEarned + e
                       /\ account'.balance = account.balance + e - t
  PROVE  AccountAddsUp'
<1>1. SUFFICES ASSUME ~outdated'
               PROVE  /\ account'.totalEarned = EarnedSum'
                      /\ account'.balance = EarnedSum' - TakenSum'
  BY DEF AccountAddsUp, EarnedSum, TakenSum
<1>2. /\ account.totalEarned = EarnedSum
      /\ account.balance = EarnedSum - TakenSum
  BY <1>1 DEF SumsInv, AccountAddsUp, EarnedSum, TakenSum
<1>3. EarnedSum \in Int /\ TakenSum \in Int
  BY EarnedInts DEF SumsInv
<1> QED
  BY <1>1, <1>2, <1>3

\* Steps that write no commission, account or withdrawal.
LEMMA SumsStay ==
  ASSUME SumsInv, AffInv', outdated => outdated',
         UNCHANGED <<withdrawal, returned>>,
         \A o \in Purchases : Earned(o)' = Earned(o),
         account'.balance = account.balance,
         account'.totalEarned = account.totalEarned
  PROVE  WithdrawalsSound' /\ AccountAddsUp'
<1>1. EarnedSum' = EarnedSum
  BY EarnedStays
<1>2. TakenSum' = TakenSum
  BY TakenStays DEF Taken
<1>3. WithdrawalsSound'
  BY DEF SumsInv, WithdrawalsSound
<1>4. /\ EarnedSum \in Int /\ TakenSum \in Int
      /\ account.balance \in Int /\ account.totalEarned \in Int
  BY EarnedInts DEF SumsInv, AffInv, AccountsType, Account
<1>5. AccountAddsUp'
  BY <1>1, <1>2, <1>4, AccountFollows
<1> QED
  BY <1>3, <1>5

\* What handlers of orders and jobs do to the handlers of withdrawals: nothing.
LEMMA OtherHandlers ==
  ASSUME SumsInv, UNCHANGED withdrawal,
         \/ UNCHANGED handlers
         \/ \E h \in Handlers : \E r :
              Turns(h, r) /\ r.op \notin {"request", "pay", "reject"}
  PROVE  OneRequestEach' /\ \A g \in Handlers : Knows(handlers[g])'
<1>1. CASE UNCHANGED handlers
  BY <1>1 DEF SumsInv, OneRequestEach, Knows
<1>2. ASSUME NEW h \in Handlers, NEW r, Turns(h, r),
             r.op \notin {"request", "pay", "reject"}
      PROVE  OneRequestEach' /\ \A g \in Handlers : Knows(handlers[g])'
  <2>1. OnlyItsOwn(h)
    BY DEF OnlyItsOwn
  <2> QED
    BY <1>2, <2>1, KnowsOn
<1> QED
  BY <1>1, <1>2

-----------------------------------------------------------------------------
(* What each step does to the sums                                         *)

\* Steps that write neither the account nor a withdrawal.
LEMMA OtherSteps ==
  ASSUME SumsInv, AffInv',
         \/ UNCHANGED affVars
         \/ \E o \in Purchases : PurchasePaid(o) \/ PurchaseDelivered(o)
         \/ \E active \in BOOLEAN : SetAffiliateStatus(active)
         \/ \E h \in Handlers, o \in Purchases :
              \/ ReadForCreate(h, o) \/ ReadForConfirm(h, o)
              \/ PurchaseRefunded(h, o)
         \/ \E h \in Handlers : \/ CreateForOrder(h) \/ ReadForCancel(h)
                               \/ RemoveLockJob(h) \/ AffiliateTrouble(h)
                               \/ ConfirmStalls(h)
  PROVE  SumsInv'
<1>1. /\ commission \in [Purchases -> CommissionRow] /\ account \in Account
      /\ handlers \in [Handlers -> Handler]
  BY DEF SumsInv, AffInv, AccountsType, HandlersType
<1>2. UNCHANGED <<outdated, withdrawal, returned>>
  BY DEF affVars, affRows, affHistory, PurchasePaid, PurchaseDelivered,
     SetAffiliateStatus, ReadForCreate, ReadForConfirm, PurchaseRefunded,
     CreateForOrder, ReadForCancel, RemoveLockJob, AffiliateTrouble,
     ConfirmStalls
<1>3. /\ account'.balance = account.balance
      /\ account'.totalEarned = account.totalEarned
  <2>1. ASSUME NEW active, SetAffiliateStatus(active)
        PROVE  /\ account'.balance = account.balance
               /\ account'.totalEarned = account.totalEarned
    BY <1>1, <2>1 DEF SetAffiliateStatus, Account
  <2>2. UNCHANGED account \/ \E active \in BOOLEAN : SetAffiliateStatus(active)
    BY DEF affVars, affRows, PurchasePaid, PurchaseDelivered,
       ReadForCreate, ReadForConfirm, PurchaseRefunded,
       CreateForOrder, ReadForCancel, RemoveLockJob, AffiliateTrouble,
       ConfirmStalls
  <2> QED
    BY <2>1, <2>2
<1>4. ASSUME NEW o \in Purchases PROVE Earned(o)' = Earned(o)
  <2>1. ASSUME NEW h \in Handlers, CreateForOrder(h)
        PROVE  Earned(o)' = Earned(o)
    <3>1. handlers[h].key = o /\ handlers[h].seen = "none" =>
            commission[o].status = "none"
      BY <2>1 DEF CreateForOrder, SumsInv, AffInv, Carries
    <3>2. \/ commission'[o] = commission[o]
          \/ commission'[o].status = "PENDING" /\ commission[o].status = "none"
      <4>1. CASE UNCHANGED commission
        BY <4>1
      <4>2. ASSUME NEW amount, handlers[h].seen = "none",
                   commission' = [commission EXCEPT
                      ![handlers[h].key] = [status |-> "PENDING",
                                            amount |-> amount]]
            PROVE  \/ commission'[o] = commission[o]
                   \/ /\ commission'[o].status = "PENDING"
                      /\ commission[o].status = "none"
        BY <1>1, <3>1, <4>2
      <4> QED
        BY <2>1, <4>1, <4>2 DEF CreateForOrder
    <3> QED
      BY <3>2 DEF Earned
  <2>2. UNCHANGED commission \/ \E h \in Handlers : CreateForOrder(h)
    BY DEF affVars, affRows, PurchasePaid, PurchaseDelivered,
       ReadForCreate, ReadForConfirm, PurchaseRefunded, SetAffiliateStatus,
       ReadForCancel, RemoveLockJob, AffiliateTrouble, ConfirmStalls
  <2> QED
    BY <2>1, <2>2 DEF Earned
<1>5. \/ UNCHANGED handlers
      \/ \E h \in Handlers : \E r :
           Turns(h, r) /\ r.op \notin {"request", "pay", "reject"}
  <2>1. ASSUME NEW h \in Handlers, Ends(h)
        PROVE  \E r : Turns(h, r) /\ r.op \notin {"request", "pay", "reject"}
    BY <2>1, RestingShape DEF Ends, Turns
  <2>2. ASSUME NEW h \in Handlers, NEW o \in Purchases,
               \/ ReadForCreate(h, o) \/ ReadForConfirm(h, o)
               \/ PurchaseRefunded(h, o)
        PROVE  \E r : Turns(h, r) /\ r.op \notin {"request", "pay", "reject"}
    <3>1. PICK op, seen : /\ op \in {"create", "confirm", "refund"}
                          /\ Starts(h, op, o, seen, 0)
      BY <2>2 DEF ReadForCreate, ReadForConfirm, PurchaseRefunded
    <3>2. PICK r : r = [op |-> op, key |-> o, seen |-> seen, asked |-> 0]
      OBVIOUS
    <3> QED
      BY <3>1, <3>2, StartsTurn
  <2>3. ASSUME NEW h \in Handlers, ReadForCancel(h)
        PROVE  \E r : Turns(h, r) /\ r.op \notin {"request", "pay", "reject"}
    <3>1. PICK w \in Handler : w = handlers[h]
      BY <1>1
    <3>2. PICK r : r = [w EXCEPT !.op = "cancel",
                                 !.seen = commission[w.key].status]
      OBVIOUS
    <3>3. r.op = "cancel"
      BY <3>2 DEF Handler
    <3>4. Turns(h, r) \/ Turns(h, Resting)
      BY <1>1, <2>3, <3>1, <3>2 DEF ReadForCancel, Turns
    <3> QED
      BY <3>3, <3>4, RestingShape
  <2>4. ASSUME NEW h \in Handlers, ConfirmStalls(h)
        PROVE  \E r : Turns(h, r) /\ r.op \notin {"request", "pay", "reject"}
    <3>1. PICK w \in Handler : w = handlers[h]
      BY <1>1
    <3>2. PICK r : r = [w EXCEPT !.op = "stray"]
      OBVIOUS
    <3>3. r.op = "stray"
      BY <3>2 DEF Handler
    <3>4. Turns(h, r)
      BY <1>1, <2>4, <3>1, <3>2 DEF ConfirmStalls, Turns
    <3> QED
      BY <3>3, <3>4
  <2> QED
    BY <2>1, <2>2, <2>3, <2>4
    DEF affVars, PurchasePaid, PurchaseDelivered, SetAffiliateStatus,
        CreateForOrder, RemoveLockJob, AffiliateTrouble
<1>6. OneRequestEach' /\ \A g \in Handlers : Knows(handlers[g])'
  BY <1>2, <1>5, OtherHandlers
<1>7. WithdrawalsSound' /\ AccountAddsUp'
  BY <1>2, <1>3, <1>4, SumsStay
<1> QED
  BY <1>6, <1>7 DEF SumsInv

\* A credit, and what it does to the account.
LEMMA CreditAdds ==
  ASSUME AffInv, NEW n \in Int, Credit(n)
  PROVE  /\ account'.balance = account.balance + n
         /\ account'.totalEarned = account.totalEarned + n
BY DEF Credit, AffInv, AccountsType, Account

\* Commission o moves and the account with it.
LEMMA CommissionStep ==
  ASSUME SumsInv, AffInv', NEW h \in Handlers, NEW r, Turns(h, r),
         r.op \notin {"request", "pay", "reject"},
         UNCHANGED <<withdrawal, returned>>, outdated => outdated',
         NEW o \in Purchases,
         \A k \in Purchases : k # o => commission'[k] = commission[k],
         NEW n \in Int,
         ~outdated' => Earned(o)' = Earned(o) + n,
         /\ account'.balance = account.balance + n
         /\ account'.totalEarned = account.totalEarned + n
  PROVE  SumsInv'
<1>1. \A k \in Purchases : k # o => Earned(k)' = Earned(k)
  BY DEF Earned
<1>2. EarnedSum' = EarnedSum + Earned(o)' - Earned(o)
  BY <1>1, EarnedMoves DEF SumsInv
<1>3. TakenSum' = TakenSum
  BY TakenStays DEF Taken
<1>4. /\ EarnedSum \in Int /\ TakenSum \in Int /\ Earned(o) \in Int
      /\ account.balance \in Int /\ account.totalEarned \in Int
  BY EarnedInts DEF SumsInv, AffInv, AccountsType, Account
<1>5. ~outdated' => EarnedSum' = EarnedSum + n
  BY <1>2, <1>4
<1>6. AccountAddsUp'
  BY <1>3, <1>4, <1>5, AccountFollows
<1>7. WithdrawalsSound'
  BY DEF SumsInv, WithdrawalsSound
<1>8. OneRequestEach' /\ \A g \in Handlers : Knows(handlers[g])'
  BY OtherHandlers
<1> QED
  BY <1>6, <1>7, <1>8 DEF SumsInv

LEMMA ConfirmSums ==
  ASSUME SumsInv, AffInv', NEW h \in Handlers,
         ConfirmCommission(h) \/ ConfirmThenDie(h)
  PROVE  SumsInv'
<1>1. PICK o \in Purchases : o = handlers[h].key
  BY DEF ConfirmCommission, ConfirmThenDie, SumsInv, AffInv, HandlersType, Shape
<1>2. Turns(h, Resting) /\ UNCHANGED <<withdrawal, returned>>
  BY DEF ConfirmCommission, ConfirmThenDie, Ends, Turns
<1>3. outdated => outdated'
  BY DEF ConfirmCommission, Confirms, ConfirmThenDie, WritesAfter
<1>4. commission \in [Purchases -> CommissionRow] /\ commission[o].amount \in Int
  BY DEF SumsInv, AffInv, AccountsType, CommissionRow
<1>5. CASE UNCHANGED <<commission, account>>
  <2>1. OneRequestEach' /\ \A g \in Handlers : Knows(handlers[g])'
    BY <1>2, RestingShape, OtherHandlers
  <2>2. WithdrawalsSound' /\ AccountAddsUp'
    BY <1>2, <1>3, <1>5, SumsStay DEF Earned
  <2> QED
    BY <2>1, <2>2 DEF SumsInv
<1>6. CASE /\ commission' = [commission EXCEPT ![o].status = "CONFIRMED"]
           /\ Credit(commission[o].amount)
           /\ WritesAfter(commission[o].status = "PENDING")
  <2>1. \A k \in Purchases : k # o => commission'[k] = commission[k]
    BY <1>4, <1>6
  <2>2. ~outdated' => Earned(o)' = Earned(o) + commission[o].amount
    <3>1. ~outdated' => Earned(o) = 0
      BY <1>6 DEF Earned, WritesAfter
    <3>2. Earned(o)' = commission[o].amount
      BY <1>4, <1>6 DEF Earned, CommissionRow
    <3> QED
      BY <1>4, <3>1, <3>2
  <2>3. /\ account'.balance = account.balance + commission[o].amount
        /\ account'.totalEarned = account.totalEarned + commission[o].amount
    BY <1>4, <1>6, CreditAdds DEF SumsInv
  <2> QED
    BY <1>2, <1>3, <1>4, <2>1, <2>2, <2>3, RestingShape, CommissionStep
<1> QED
  BY <1>1, <1>5, <1>6 DEF ConfirmCommission, Confirms, ConfirmThenDie

LEMMA CancelSums ==
  ASSUME SumsInv, AffInv', NEW h \in Handlers, CancelCommission(h)
  PROVE  SumsInv'
<1>1. PICK o \in Purchases : o = handlers[h].key
  BY DEF CancelCommission, SumsInv, AffInv, HandlersType, Shape
<1>2. PICK w \in Handler : w = handlers[h] /\ Carries(w) /\ w.op = "cancel"
  BY DEF CancelCommission, SumsInv, AffInv, HandlersType
<1>3. PICK r : r = [w EXCEPT !.op = "unschedule"]
  OBVIOUS
<1>4. Turns(h, r) /\ r.op \notin {"request", "pay", "reject"}
  BY <1>2, <1>3 DEF CancelCommission, Turns, Handler
<1>5. UNCHANGED <<withdrawal, returned>> /\ (outdated => outdated')
  BY DEF CancelCommission, WritesAfter
<1>6. commission \in [Purchases -> CommissionRow] /\ commission[o].amount \in Nat
  BY DEF SumsInv, AffInv, AccountsType, CommissionRow
<1>7. commission' = [commission EXCEPT ![o].status = "CANCELLED"]
  BY <1>1 DEF CancelCommission
<1>8. \A k \in Purchases : k # o => commission'[k] = commission[k]
  BY <1>6, <1>7
<1>9. Earned(o)' = 0
  BY <1>6, <1>7 DEF Earned, CommissionRow
<1>10. ~outdated' => commission[o].status = w.seen /\ w.seen \notin {"none", "PAID"}
  BY <1>1, <1>2 DEF CancelCommission, WritesAfter, Carries
<1>11. CASE w.seen = "CONFIRMED"
  <2>1. -commission[o].amount \in Int
    BY <1>6
  <2>2. Credit(-commission[o].amount)
    BY <1>1, <1>2, <1>11 DEF CancelCommission, TakesBack
  <2>3. ~outdated' => Earned(o) = commission[o].amount
    BY <1>10, <1>11 DEF Earned
  <2>4. ~outdated' => Earned(o)' = Earned(o) + (-commission[o].amount)
    BY <1>6, <1>9, <2>3
  <2>5. /\ account'.balance = account.balance + (-commission[o].amount)
        /\ account'.totalEarned = account.totalEarned + (-commission[o].amount)
    BY <2>1, <2>2, CreditAdds DEF SumsInv
  <2> QED
    BY <1>4, <1>5, <1>8, <2>1, <2>4, <2>5, CommissionStep
<1>12. CASE w.seen # "CONFIRMED"
  <2>1. UNCHANGED account
    BY <1>1, <1>2, <1>12 DEF CancelCommission, TakesBack
  <2>2. ~outdated' => Earned(o) = 0
    BY <1>10, <1>12 DEF Earned
  <2>3. account.balance \in Int /\ account.totalEarned \in Int
    BY DEF SumsInv, AffInv, AccountsType, Account
  <2>4. /\ ~outdated' => Earned(o)' = Earned(o) + 0
        /\ account'.balance = account.balance + 0
        /\ account'.totalEarned = account.totalEarned + 0
    BY <1>9, <2>1, <2>2, <2>3
  <2> QED
    BY <1>4, <1>5, <1>8, <2>4, CommissionStep
<1> QED
  BY <1>11, <1>12

-----------------------------------------------------------------------------
(* Withdrawals                                                             *)

LEMMA PayoutReadsSums ==
  ASSUME SumsInv, AffInv', NEW h \in Handlers, NEW p \in Withdrawals,
         \/ \E amount \in Asks : ReadForPayout(h, p, amount)
         \/ ReadForPaid(h, p)
         \/ ReadForReject(h, p)
  PROVE  SumsInv'
<1>1. UNCHANGED <<commission, account, withdrawal, outdated, returned>>
  BY DEF ReadForPayout, ReadForPaid, ReadForReject, affRows, affHistory
<1>2. WithdrawalsSound' /\ AccountAddsUp'
  BY <1>1, SumsStay DEF Earned
<1>3. OnlyItsOwn(h)
  BY <1>1 DEF OnlyItsOwn
<1>4. PICK r : Turns(h, r) /\ Knows(r)
                 /\ (r.op = "request" => \A g \in Handlers : handlers[g].key # r.key)
  <2>1. ASSUME NEW amount \in Asks, ReadForPayout(h, p, amount)
        PROVE  \E r : /\ Turns(h, r) /\ Knows(r)
                      /\ r.op = "request" =>
                           \A g \in Handlers : handlers[g].key # r.key
    <3>1. PICK r : r = [op |-> "request", key |-> p, seen |-> "none",
                        asked |-> amount]
      OBVIOUS
    <3> QED
      BY <2>1, <3>1, StartsTurn DEF ReadForPayout, Knows
  <2>2. ASSUME ReadForPaid(h, p)
        PROVE  \E r : /\ Turns(h, r) /\ Knows(r) /\ r.op # "request"
    <3>1. PICK r : r = [op |-> "pay", key |-> p, seen |-> withdrawal[p].status,
                        asked |-> 0]
      OBVIOUS
    <3> QED
      BY <2>2, <3>1, StartsTurn DEF ReadForPaid, Knows
  <2>3. ASSUME ReadForReject(h, p)
        PROVE  \E r : /\ Turns(h, r) /\ Knows(r) /\ r.op # "request"
    <3>1. PICK r : r = [op |-> "reject", key |-> p,
                        seen |-> withdrawal[p].status, asked |-> 0]
      OBVIOUS
    <3> QED
      BY <2>3, <3>1, StartsTurn DEF ReadForReject, MayReject, Knows
  <2> QED
    BY <2>1, <2>2, <2>3
<1>5. OneRequestEach' /\ \A g \in Handlers : Knows(handlers[g])'
  BY <1>1, <1>3, <1>4, KnowsOn
<1> QED
  BY <1>2, <1>5 DEF SumsInv

\* Withdrawal p moves and the balance with it.
LEMMA WithdrawalStep ==
  ASSUME SumsInv, AffInv', NEW h \in Handlers, Ends(h), OnlyItsOwn(h),
         outdated => outdated', NEW p \in Withdrawals,
         \A q \in Withdrawals : q # p =>
           /\ withdrawal'[q] = withdrawal[q]
           /\ q \in returned' <=> q \in returned,
         withdrawal'[p].status # "none",
         p \in returned' => withdrawal'[p].status \in {"REJECTED", "PAID"},
         \A o \in Purchases : Earned(o)' = Earned(o),
         NEW n \in Int,
         ~outdated' => Taken(p)' = Taken(p) + n,
         account'.balance = account.balance - n,
         account'.totalEarned = account.totalEarned
  PROVE  SumsInv'
<1>1. \A q \in Withdrawals : q # p => Taken(q)' = Taken(q)
  BY DEF Taken
<1>2. TakenSum' = TakenSum + Taken(p)' - Taken(p)
  BY <1>1, TakenMoves DEF SumsInv
<1>3. EarnedSum' = EarnedSum
  BY EarnedStays
<1>4. /\ EarnedSum \in Int /\ TakenSum \in Int /\ Taken(p) \in Int
      /\ account.balance \in Int /\ account.totalEarned \in Int
  BY EarnedInts DEF SumsInv, AffInv, AccountsType, Account
<1>5. ~outdated' => TakenSum' = TakenSum + n
  BY <1>2, <1>4
<1>6. AccountAddsUp'
  <2>1. /\ EarnedSum' = EarnedSum + 0 /\ 0 \in Int
        /\ account'.totalEarned = account.totalEarned + 0
        /\ account'.balance = account.balance + 0 - n
    BY <1>3, <1>4
  <2> QED
    BY <1>5, <2>1, AccountFollows
<1>7. WithdrawalsSound'
  BY DEF SumsInv, WithdrawalsSound
<1>8. OneRequestEach' /\ \A g \in Handlers : Knows(handlers[g])'
  <2>1. Turns(h, Resting)
    BY DEF Ends, Turns
  <2> QED
    BY <2>1, RestingShape, KnowsOn
<1> QED
  BY <1>6, <1>7, <1>8 DEF SumsInv

LEMMA PayoutsSums ==
  ASSUME SumsInv, AffInv', NEW h \in Handlers,
         \/ RequestAffiliatePayout(h)
         \/ MarkAffiliatePayoutPaid(h)
         \/ RejectPayout(h)
  PROVE  SumsInv'
<1>1. PICK p \in Withdrawals : p = handlers[h].key
  BY DEF RequestAffiliatePayout, MarkAffiliatePayoutPaid, RejectPayout, SumsInv,
     AffInv, HandlersType, Shape
<1>2. /\ withdrawal \in [Withdrawals -> WithdrawalRow]
      /\ withdrawal[p].amount \in Nat
      /\ commission \in [Purchases -> CommissionRow]
      /\ account \in Account /\ account.balance \in Int
      /\ Knows(handlers[h])
  BY DEF SumsInv, AffInv, AccountsType, WithdrawalRow, Account
<1>3. Ends(h) /\ (outdated => outdated')
  BY DEF RequestAffiliatePayout, MarkAffiliatePayoutPaid, RejectPayout,
     WritesAfter
<1>4. CASE RequestAffiliatePayout(h)
  <2>1. PICK a \in Nat : a = handlers[h].asked
    BY <1>4 DEF RequestAffiliatePayout, SumsInv, AffInv, HandlersType, Handler
  <2>2. withdrawal' = [withdrawal EXCEPT
                         ![p] = [status |-> "REQUESTED", amount |-> a]]
    BY <1>1, <1>4, <2>1 DEF RequestAffiliatePayout
  <2>3. withdrawal[p].status = "none"
    BY <1>1, <1>2, <1>4 DEF RequestAffiliatePayout, Knows
  <2>4. withdrawal[p].amount = 0 /\ p \notin returned /\ UNCHANGED returned
    BY <1>4, <2>3 DEF RequestAffiliatePayout, SumsInv, WithdrawalsSound
  <2>5. Taken(p)' = Taken(p) + a
    BY <1>2, <2>2, <2>4 DEF Taken
  <2>6. /\ account'.balance = account.balance - a
        /\ account'.totalEarned = account.totalEarned
    BY <1>2, <1>4, <2>1 DEF RequestAffiliatePayout, Account
  <2>7. OnlyItsOwn(h)
    BY <1>1, <1>2, <1>4, <2>2 DEF OnlyItsOwn, RequestAffiliatePayout
  <2>8. \A q \in Withdrawals : q # p =>
          /\ withdrawal'[q] = withdrawal[q]
          /\ q \in returned' <=> q \in returned
    BY <1>2, <2>2, <2>4
  <2>9. withdrawal'[p].status # "none" /\ p \notin returned'
    BY <1>2, <2>2, <2>4
  <2>10. \A o \in Purchases : Earned(o)' = Earned(o)
    BY <1>4 DEF RequestAffiliatePayout, Earned
  <2> QED
    BY <1>3, <2>5, <2>6, <2>7, <2>8, <2>9, <2>10, WithdrawalStep
<1>5. CASE MarkAffiliatePayoutPaid(h)
  <2>1. withdrawal' = [withdrawal EXCEPT ![p].status = "PAID"]
    BY <1>1, <1>5 DEF MarkAffiliatePayoutPaid
  <2>2. withdrawal[p].status # "none"
    BY <1>1, <1>2, <1>5 DEF MarkAffiliatePayoutPaid, Knows
  <2>3. UNCHANGED <<returned, account>>
    BY <1>5 DEF MarkAffiliatePayoutPaid
  <2>4. /\ withdrawal'[p].status = "PAID"
        /\ withdrawal'[p].amount = withdrawal[p].amount
        /\ \A q \in Withdrawals : q # p => withdrawal'[q] = withdrawal[q]
    BY <1>2, <2>1 DEF WithdrawalRow
  <2>5. Taken(p)' = Taken(p) + 0
    BY <1>2, <2>3, <2>4 DEF Taken
  <2>6. account'.balance = account.balance - 0
    BY <1>2, <2>3
  <2>7. OnlyItsOwn(h)
    BY <2>2, <2>4 DEF OnlyItsOwn
  <2>8. ASSUME NEW o \in Purchases PROVE Earned(o)' = Earned(o)
    BY <1>2, <1>5 DEF MarkAffiliatePayoutPaid, Earned, CommissionRow
  <2> QED
    BY <1>3, <2>3, <2>4, <2>5, <2>6, <2>7, <2>8, WithdrawalStep
<1>6. CASE RejectPayout(h)
  <2>1. withdrawal' = [withdrawal EXCEPT ![p].status = "REJECTED"]
    BY <1>1, <1>6 DEF RejectPayout
  <2>2. withdrawal[p].status # "none" /\ handlers[h].seen = "REQUESTED"
    BY <1>1, <1>2, <1>6 DEF RejectPayout, Knows
  <2>3. /\ returned' = returned \cup {p}
        /\ ~outdated' => withdrawal[p].status = "REQUESTED"
    BY <1>1, <1>6, <2>2 DEF RejectPayout, WritesAfter
  <2>4. /\ withdrawal'[p].status = "REJECTED"
        /\ \A q \in Withdrawals : q # p => withdrawal'[q] = withdrawal[q]
    BY <1>2, <2>1 DEF WithdrawalRow
  <2>5. PICK n \in Int : n = -withdrawal[p].amount
    BY <1>2
  <2>6. ~outdated' => Taken(p)' = Taken(p) + n
    BY <1>2, <2>3, <2>5 DEF Taken, SumsInv, WithdrawalsSound
  <2>7. /\ account'.balance = account.balance - n
        /\ account'.totalEarned = account.totalEarned
    BY <1>1, <1>2, <1>6, <2>5 DEF RejectPayout, Account
  <2>8. OnlyItsOwn(h)
    BY <2>2, <2>4 DEF OnlyItsOwn
  <2>9. \A o \in Purchases : Earned(o)' = Earned(o)
    BY <1>6 DEF RejectPayout, Earned
  <2> QED
    BY <1>3, <2>3, <2>4, <2>6, <2>7, <2>8, <2>9, WithdrawalStep
<1> QED
  BY <1>4, <1>5, <1>6

LEMMA SumsInitInv == AffInit => SumsInv
<1> SUFFICES ASSUME AffInit PROVE SumsInv
  OBVIOUS
<1>1. AffInv
  BY AffInitInv
<1>2. WithdrawalsSound /\ OneRequestEach /\ \A h \in Handlers : Knows(handlers[h])
  BY RestingShape DEF AffInit, WithdrawalsSound, OneRequestEach, Knows
<1>3. /\ \A o \in Purchases : Earned(o) = 0
      /\ \A p \in Withdrawals : Taken(p) = 0
  BY DEF AffInit, Earned, Taken
<1>4. EarnedSum = 0 /\ TakenSum = 0
  <2>1. EarnedSum = 0
    BY <1>3, AffKeysAssumption, SumOfZeros DEF EarnedSum, SumFunction
  <2>2. TakenSum = 0
    BY <1>3, AffKeysAssumption, SumOfZeros DEF TakenSum, SumFunction
  <2> QED
    BY <2>1, <2>2
<1>5. AccountAddsUp
  BY <1>4 DEF AffInit, AccountAddsUp, EarnedSum, TakenSum
<1> QED
  BY <1>1, <1>2, <1>5 DEF SumsInv

LEMMA SumsStepInv == SumsInv /\ [AffNext]_affVars => SumsInv'
<1> SUFFICES ASSUME SumsInv, [AffNext]_affVars PROVE SumsInv'
  OBVIOUS
<1>1. AffInv'
  BY AffStepInv DEF SumsInv
<1>2. ASSUME NEW h \in Handlers, NEW p \in Withdrawals,
             \/ \E amount \in Asks : ReadForPayout(h, p, amount)
             \/ ReadForPaid(h, p)
             \/ ReadForReject(h, p)
      PROVE  SumsInv'
  BY <1>1, <1>2, PayoutReadsSums
<1>3. ASSUME NEW h \in Handlers, ConfirmCommission(h) \/ ConfirmThenDie(h)
      PROVE  SumsInv'
  BY <1>1, <1>3, ConfirmSums
<1>4. ASSUME NEW h \in Handlers, CancelCommission(h)
      PROVE  SumsInv'
  BY <1>1, <1>4, CancelSums
<1>5. ASSUME NEW h \in Handlers,
             \/ RequestAffiliatePayout(h)
             \/ MarkAffiliatePayoutPaid(h)
             \/ RejectPayout(h)
      PROVE  SumsInv'
  BY <1>1, <1>5, PayoutsSums
<1> QED
  BY <1>1, <1>2, <1>3, <1>4, <1>5, OtherSteps DEF AffNext

\* As long as every write follows a check that still holds, the account says
\* what its rows add up to: totalEarned the commissions confirmed or paid, the
\* balance the same less the withdrawals that were not given back.
THEOREM AccountAlwaysAddsUp == AffSpec => []AccountAddsUp
<1>1. SumsInv => AccountAddsUp
  BY DEF SumsInv
<1> QED
  BY <1>1, SumsInitInv, SumsStepInv, PTL DEF AffSpec
=============================================================================
