------------------------------- MODULE MCMoney -------------------------------
(* What the platform prices, bills, owes and pays: five services that share  *)
(* no row, each model-checked on its own.  A behaviour stays with the one it *)
(* starts with, so that their states add up instead of multiplying; what the *)
(* others hold is left as it began.                                          *)
EXTENDS MCPricing, AffiliatePayouts, SellerLedger, BillingCards,
        OfferCodes, TLC

\* Who has a request under way is h1 or h2 in every service; a purchase,
\* a payout and a code minted is o1 or o2: one symmetry serves them all.
CONSTANTS o1, o2, h1, h2,
          w1,                    \* AffiliatePayouts
          l1, s1,                \* SellerLedger
          m1, m2, m3, f1, f2,    \* BillingCards
          b1, summer, u1         \* OfferCodes

VARIABLE service

\* Turned off with one use less; or on again, for two uses each.
MCForms == {[most |-> 2, each |-> 1, active |-> FALSE, lapsed |-> TRUE],
            [most |-> 3, each |-> 2, active |-> TRUE, lapsed |-> FALSE]}

NoPricing == /\ market = {} /\ basket = {}
             /\ preview = NotYet /\ placed = NotYet
NoCards == CardInit /\ fingerprint = [m \in Methods |-> f1]
NoOffers == OfferInit /\ online

Init ==
  /\ AffInit
  /\ SellerInit
  /\ \/ service \in {"affiliates", "seller"}
        /\ NoCards /\ NoPricing /\ NoOffers
     \/ service = "cards" /\ CardInit /\ NoPricing /\ NoOffers
     \/ service = "pricing" /\ NoCards /\ PriceInit /\ NoOffers
     \/ service = "offers" /\ NoCards /\ NoPricing /\ OfferInit

Paying == /\ service = "affiliates"
          /\ UNCHANGED <<service, sellerVars, cardVars, priceVars, offerVars>>
Owing == /\ service = "seller"
         /\ UNCHANGED <<service, affVars, cardVars, priceVars, offerVars>>
Billing == /\ service = "cards"
           /\ UNCHANGED <<service, affVars, sellerVars, priceVars, offerVars>>
Pricing == /\ service = "pricing"
           /\ UNCHANGED <<service, affVars, sellerVars, cardVars, offerVars>>
Haggling == /\ service = "offers"
            /\ UNCHANGED <<service, affVars, sellerVars, cardVars, priceVars>>

\* The services' next-state relations, disjunct by disjunct, so that TLC
\* counts each.
Next ==
  \/ \E o \in Purchases : Paying /\ PurchasePaid(o)
  \/ \E o \in Purchases : Paying /\ PurchaseDelivered(o)
  \/ \E h \in Handlers, o \in Purchases : Paying /\ ReadForCreate(h, o)
  \/ \E h \in Handlers, o \in Purchases : Paying /\ ReadForConfirm(h, o)
  \/ \E h \in Handlers, o \in Purchases : Paying /\ PurchaseRefunded(h, o)
  \/ \E h \in Handlers, p \in Withdrawals, amount \in Asks :
       Paying /\ ReadForPayout(h, p, amount)
  \/ \E h \in Handlers, p \in Withdrawals : Paying /\ ReadForPaid(h, p)
  \/ \E h \in Handlers, p \in Withdrawals : Paying /\ ReadForReject(h, p)
  \/ \E h \in Handlers : Paying /\ CreateForOrder(h)
  \/ \E h \in Handlers : Paying /\ ConfirmCommission(h)
  \/ \E h \in Handlers : Paying /\ ReadForCancel(h)
  \/ \E h \in Handlers : Paying /\ CancelCommission(h)
  \/ \E h \in Handlers : Paying /\ RemoveLockJob(h)
  \/ \E h \in Handlers : Paying /\ RequestAffiliatePayout(h)
  \/ \E h \in Handlers : Paying /\ MarkAffiliatePayoutPaid(h)
  \/ \E h \in Handlers : Paying /\ RejectPayout(h)
  \/ \E h \in Handlers : Paying /\ AffiliateTrouble(h)
  \/ \E h \in Handlers : Paying /\ ConfirmStalls(h)
  \/ \E h \in Handlers : Paying /\ ConfirmThenDie(h)
  \/ \E active \in BOOLEAN : Paying /\ SetAffiliateStatus(active)
  \/ \E l \in Listings : Owing /\ CreateHidden(l)
  \/ \E l \in Listings : Owing /\ DeleteForStore(l)
  \/ \E l \in Listings, status \in {"INACTIVE", "ARCHIVED"} :
       Owing /\ BulkHide(l, status)
  \/ \E l \in Listings, status \in ProductStatus \ {"none"} :
       Owing /\ ImportRow(l, status)
  \/ Owing /\ SuspendStore
  \/ \E c \in Clerks, l \in Listings : Owing /\ ReadForUnpublish(c, l)
  \/ \E c \in Clerks, l \in Listings : Owing /\ CreateLive(c, l)
  \/ \E c \in Clerks, p \in Payouts : Owing /\ ReadForSellerPayout(c, p)
  \/ \E c \in Clerks : Owing /\ Unpublish(c)
  \/ \E c \in Clerks : Owing /\ BeginPublish(c)
  \/ \E c \in Clerks : Owing /\ PublishProducts(c)
  \/ \E c \in Clerks : Owing /\ RequestSellerPayout(c)
  \/ \E c \in Clerks : Owing /\ ClerkDies(c)
  \/ \E s \in Sales : Owing /\ CheckoutSale(s)
  \/ \E s \in Sales, outcome \in {"paid", "cancelled"} :
       Owing /\ SettleSale(s, outcome)
  \/ \E p \in Payouts : Owing /\ MarkSellerPayoutPaid(p)
  \/ \E m \in Methods : Billing /\ StripeAttaches(m)
  \/ \E d \in Desks, m \in Methods : Billing /\ ConfirmBillingCard(d, m)
  \/ \E d \in Desks, m \in Methods : Billing /\ ReadForDefault(d, m)
  \/ \E d \in Desks, m \in Methods : Billing /\ ReadForDelete(d, m)
  \/ \E d \in Desks : Billing /\ LockAndCheck(d)
  \/ \E d \in Desks : Billing /\ InsertCard(d)
  \/ \E d \in Desks : Billing /\ DetachRefused(d)
  \/ \E d \in Desks : Billing /\ SetDefaultBillingCard(d)
  \/ \E d \in Desks : Billing /\ DeleteCard(d)
  \/ \E d \in Desks : Billing /\ FindOldest(d)
  \/ \E d \in Desks : Billing /\ PromoteOldest(d)
  \/ \E d \in Desks : Billing /\ DeskDies(d)
  \/ Pricing /\ ShowCart
  \/ Pricing /\ Checkout
  \/ \E t \in Tabs : Haggling /\ MakeOffer(t)
  \/ \E t \in Tabs : Haggling /\ Overwrite(t)
  \/ \E t \in Tabs : Haggling /\ GiveUp(t)
  \/ \E t \in Tabs : Haggling /\ FireOffer(t)
  \/ \E t \in Tabs : Haggling /\ Redeem(t)
  \/ \E t \in Tabs, o \in Offers : Haggling /\ CreateOffer(t, o)
  \/ \E t \in Tabs, o \in Offers, what \in DOMAIN AnswerTo :
       Haggling /\ Answer(t, o, what)
  \/ \E t \in Tabs, c \in Codes : Haggling /\ Accept(t, c)
  \/ \E t \in Tabs, c \in Codes : Haggling /\ CreateTargeted(t, c)
  \/ \E t \in Tabs, c \in Codes, u \in Users : Haggling /\ UseCoupon(t, c, u)
  \/ Haggling /\ ExpireStale
  \/ \E o \in Offers : Haggling /\ OfferFallsDue(o)
  \/ \E c \in Codes : Haggling /\ CodeLapses(c)
  \/ \E c \in Codes : Haggling /\ RemoveCode(c)
  \/ \E c \in Codes, form \in Forms : Haggling /\ EditCode(c, form)

Spec == Init /\ [][Next]_<<service, affVars, sellerVars, cardVars, priceVars,
                          offerVars>>

\* The coupon is used and edited, or an offer haggled over: the promotions
\* of the one are never read by the other.
OneCodeAtATime ==
  \/ /\ \A o \in Offers : offer[o].status = "none"
     /\ \A c \in Codes \ {ShopCode} : code[c] = NoCode
  \/ /\ edits = 0 /\ ~code[ShopCode].lapsed
     /\ code[ShopCode].state = "there" /\ given[ShopCode] = 0
     /\ \A t \in Tabs : tabs[t].code # ShopCode

\* A suspension is read by a withdrawal's two steps and by nothing else.
SuspendedInFlight ==
  account.active \/ \E h \in Handlers : handlers[h].op = "request"

\* After a write by an outdated check only the credits are still in question,
\* and no withdrawal bears on them.
OutdatedPaysNobody ==
  outdated => \A h \in Handlers :
                handlers[h].op \notin {"request", "pay", "reject"}

Alike == Permutations(Purchases) \cup Permutations(Handlers)

MoneyTypeOK ==
  CASE service = "affiliates" -> AffTypeOK
    [] service = "seller" -> SellerTypeOK
    [] service = "cards" -> CardTypeOK
    [] service = "pricing" -> PriceTypeOK
    [] service = "offers" -> OfferTypeOK
=============================================================================
