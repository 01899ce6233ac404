----------------------------- MODULE OfferCodes -----------------------------
(***************************************************************************)
(* What a buyer haggles for and what a coupon is good for.                 *)
(*                                                                         *)
(*   buyer-offers.service.ts     createOffer, sellerAccept, sellerReject,  *)
(*                               sellerCounter, respondToCounter, accept,  *)
(*                               expireIfPast, expireStale                 *)
(*   targeted-offers.service.ts  fireOffer                                 *)
(*   orders.service.ts           checkout, as far as it redeems a coupon   *)
(*   promotions.service.ts       update, patch, deactivate, remove         *)
(*                                                                         *)
(* An offer that is accepted mints a code of one use; a checkout redeems   *)
(* it, or a shop's coupon.  Every request reads, checks, and writes later. *)
(* accept re-checks in its UPDATE; reject, counter and expireIfPast write  *)
(* by id alone.  Checkout re-checks the coupon's total in its UPDATE, but  *)
(* not how often this buyer has used it.                                   *)
(*                                                                         *)
(* The offers are those of one buyer on one listing, and the targeted code *)
(* is for one shop and occasion: others share no row.  Left out: prices    *)
(* (CheckoutPricing takes a coupon off), the shop's offer settings, mails, *)
(* and a promotion without a cap, which is one with a cap out of reach.    *)
(***************************************************************************)
EXTENDS Integers, FiniteSets, Functions

CONSTANTS
  Offers,       \* BuyerOffer rows there may come to be
  Codes,        \* Promotion rows there may come to be
  ShopCode,     \* the one of them that the shop made itself
  Buyers,       \* customers that are signed in
  Guest,        \* a checkout without userId
  Tabs,         \* requests under way at one time
  Nobody,       \* no offer, code or buyer
  MaxUses,      \* bound: maxUses and maxUsesPerUser of a promotion
  Forms,        \* what a shop may fill in when it edits one
  MaxEdits      \* bound: times the shop edits a promotion

VARIABLES
  offer,        \* the BuyerOffer rows
  code,         \* the Promotion rows
  usage,        \* PromotionUsage rows of a code and a buyer
  online,       \* ONLINE_PAYMENTS_ENABLED
  tabs,         \* what each request is doing
  edits,        \* edits so far
  minted,       \* history: codes made for an offer
  reopened,     \* history: times an offer was ACCEPTED and written over
  given,        \* history: orders that got the code's discount
  allowed       \* history: the most a promotion ever allowed

offerVars == <<offer, code, usage, online, tabs, edits, minted, reopened,
               given, allowed>>

ASSUME OfferKeysAssumption == /\ ShopCode \in Codes
                              /\ Guest \notin Buyers
                              /\ Nobody \notin Offers \cup Codes \cup Buyers
                              /\ IsFiniteSet(Tabs) /\ Tabs # {}
                              /\ IsFiniteSet(Buyers)
ASSUME OfferBoundsAssumption ==
  /\ MaxUses \in Nat \ {0} /\ MaxEdits \in Nat
  /\ Forms \subseteq [most : 1 .. MaxUses, each : 1 .. MaxUses,
                      active : BOOLEAN, lapsed : BOOLEAN]

-----------------------------------------------------------------------------
Active == {"PENDING", "COUNTERED"}
OfferStatus == Active \cup {"ACCEPTED", "REJECTED", "EXPIRED"}
Users == Buyers \cup {Guest}

\* due: expiresAt has passed.
OfferRow == [status : OfferStatus \cup {"none"}, due : BOOLEAN]

\* state: a promotion that was removed never comes back.  lapsed: expiresAt
\* has passed, or startsAt has not.
CodeRow == [state : {"none", "there", "removed"}, active : BOOLEAN,
            lapsed : BOOLEAN, targeted : BOOLEAN,
            uses : Nat, most : 0 .. MaxUses, each : 0 .. MaxUses]
NoCode == [state |-> "none", active |-> FALSE, lapsed |-> FALSE,
           targeted |-> FALSE, uses |-> 0, most |-> 0, each |-> 0]
OneUse(targeted) ==
          [state |-> "there", active |-> TRUE, lapsed |-> FALSE,
           targeted |-> targeted, uses |-> 0, most |-> 1, each |-> 1]

Tab == [at : {"idle", "create", "accept", "reject", "counter", "expire",
              "fire", "redeem"},
        on : Offers \cup {Nobody}, code : Codes \cup {Nobody},
        user : Users \cup {Nobody}]
Shut == [at |-> "idle", on |-> Nobody, code |-> Nobody, user |-> Nobody]

OfferTypeOK ==
  /\ offer \in [Offers -> OfferRow]
  /\ code \in [Codes -> CodeRow]
  /\ usage \in [Codes -> [Users -> Nat]]
  /\ online \in BOOLEAN
  /\ tabs \in [Tabs -> Tab]
  /\ edits \in 0 .. MaxEdits
  /\ minted \in [Offers -> Nat]
  /\ reopened \in [Offers -> Nat]
  /\ given \in [Codes -> Nat]
  /\ allowed \in [Codes -> [most : 0 .. MaxUses, each : 0 .. MaxUses]]

OfferInit ==
  /\ offer = [o \in Offers |-> [status |-> "none", due |-> FALSE]]
  /\ code = [c \in Codes |->
               IF c = ShopCode THEN [OneUse(FALSE) EXCEPT !.most = MaxUses]
                               ELSE NoCode]
  /\ usage = [c \in Codes |-> [u \in Users |-> 0]]
  /\ online \in BOOLEAN
  /\ tabs = [t \in Tabs |-> Shut]
  /\ edits = 0
  /\ minted = [o \in Offers |-> 0]
  /\ reopened = [o \in Offers |-> 0]
  /\ given = [c \in Codes |-> 0]
  /\ allowed = [c \in Codes |-> [most |-> code[c].most,
                                 each |-> code[c].each]]

Go(t, work) == tabs[t] = Shut /\ tabs' = [tabs EXCEPT ![t] = work]
Done(t) == tabs' = [tabs EXCEPT ![t] = Shut]

codeVars == <<code, usage, given, allowed>>
haggleVars == <<offer, minted, reopened>>

-----------------------------------------------------------------------------
(* The buyer's offer                                                       *)

\* findFirst of an offer that is still active, due or not.
MakeOffer(t) ==
  /\ \A o \in Offers : offer[o].status \notin Active
  /\ Go(t, [Shut EXCEPT !.at = "create"])
  /\ UNCHANGED <<haggleVars, codeVars, online, edits>>

CreateOffer(t, o) ==
  /\ tabs[t].at = "create"
  /\ offer[o].status = "none"
  /\ offer' = [offer EXCEPT ![o] = [status |-> "PENDING", due |-> FALSE]]
  /\ Done(t)
  /\ UNCHANGED <<codeVars, minted, reopened, online, edits>>

OfferFallsDue(o) ==
  /\ offer[o].status # "none" /\ ~offer[o].due
  /\ offer' = [offer EXCEPT ![o].due = TRUE]
  /\ UNCHANGED <<codeVars, minted, reopened, online, tabs, edits>>

\* What a request may be made of: only a pending offer is countered.  The
\* buyer's answer to a counter is an accept or a reject like the seller's.
AnswerTo == [accept |-> Active, reject |-> Active, counter |-> {"PENDING"}]

\* requireOwnedOffer, expireIfPast's look at it, and the caller's check.
Answer(t, o, what) ==
  /\ offer[o].status \in IF offer[o].due THEN Active ELSE AnswerTo[what]
  /\ Go(t, [Shut EXCEPT !.at = IF offer[o].due THEN "expire" ELSE what,
                        !.on = o])
  /\ UNCHANGED <<haggleVars, codeVars, online, edits>>

\* status is overwritten whatever it has become.
Overwrite(t) ==
  LET o == tabs[t].on
      status == CASE tabs[t].at = "reject" -> "REJECTED"
                  [] tabs[t].at = "counter" -> "COUNTERED"
                  [] tabs[t].at = "expire" -> "EXPIRED" IN
  /\ tabs[t].at \in {"reject", "counter", "expire"}
  /\ offer' = [offer EXCEPT ![o].status = status]
  /\ reopened' = [reopened EXCEPT
                    ![o] = IF offer[o].status = "ACCEPTED" THEN @ + 1 ELSE @]
  /\ Done(t)
  /\ UNCHANGED <<codeVars, minted, online, edits>>

\* MUTANT of MayAccept: updated by id, on the strength of the check before.
MayAcceptById(o) == offer[o].status # "none"

\* The WHERE of accept's updateMany.
MayAccept(o) == offer[o].status \in Active /\ ~offer[o].due

\* One transaction: the offer and its code, or neither.
Accept(t, c) ==
  LET o == tabs[t].on IN
  /\ tabs[t].at = "accept"
  /\ MayAccept(o)
  /\ code[c].state = "none"
  /\ offer' = [offer EXCEPT ![o].status = "ACCEPTED"]
  /\ code' = [code EXCEPT ![c] = OneUse(FALSE)]
  /\ allowed' = [allowed EXCEPT ![c] = [most |-> 1, each |-> 1]]
  /\ minted' = [minted EXCEPT ![o] = @ + 1]
  /\ Done(t)
  /\ UNCHANGED <<usage, given, reopened, online, edits>>

\* The requests that end without a write: ERR_INVALID_STATE,
\* ERR_COUPON_RACE, a transaction that fails, a process that dies.
GiveUp(t) ==
  /\ tabs[t] # Shut
  /\ Done(t)
  /\ UNCHANGED <<haggleVars, codeVars, online, edits>>

\* Before a list of offers is read.
ExpireStale ==
  /\ \E o \in Offers : offer[o].status \in Active /\ offer[o].due
  /\ offer' = [o \in Offers |-> IF offer[o].status \in Active /\ offer[o].due
                                  THEN [offer[o] EXCEPT !.status = "EXPIRED"]
                                  ELSE offer[o]]
  /\ UNCHANGED <<codeVars, minted, reopened, online, tabs, edits>>

-----------------------------------------------------------------------------
(* Codes without an offer                                                  *)

\* findFirst of a code fired within lookbackDays, which do not pass here; a
\* promotion removed since is not found.
FireOffer(t) ==
  /\ \A c \in Codes : ~(code[c].state = "there" /\ code[c].targeted)
  /\ Go(t, [Shut EXCEPT !.at = "fire"])
  /\ UNCHANGED <<haggleVars, codeVars, online, edits>>

CreateTargeted(t, c) ==
  /\ tabs[t].at = "fire"
  /\ code[c].state = "none"
  /\ code' = [code EXCEPT ![c] = OneUse(TRUE)]
  /\ allowed' = [allowed EXCEPT ![c] = [most |-> 1, each |-> 1]]
  /\ Done(t)
  /\ UNCHANGED <<haggleVars, usage, given, online, edits>>

CodeLapses(c) ==
  /\ code[c].state = "there" /\ ~code[c].lapsed
  /\ code' = [code EXCEPT ![c].lapsed = TRUE]
  /\ UNCHANGED <<haggleVars, usage, given, allowed, online, tabs, edits>>

AtLeast(a, b) == IF a < b THEN b ELSE a

\* update, patch and deactivate write what the form holds, whatever was used.
EditCode(c, form) ==
  /\ code[c].state = "there"
  /\ edits < MaxEdits
  /\ edits' = edits + 1
  /\ code' = [code EXCEPT ![c].most = form.most,
                          ![c].each = form.each,
                          ![c].active = form.active,
                          ![c].lapsed = form.lapsed]
  /\ allowed' = [allowed EXCEPT ![c] = [most |-> AtLeast(@.most, form.most),
                                        each |-> AtLeast(@.each, form.each)]]
  /\ UNCHANGED <<haggleVars, usage, given, online, tabs>>

\* The count comes first, and the foreign key refuses what it missed.
RemoveCode(c) ==
  /\ code[c].state = "there"
  /\ \A u \in Users : usage[c][u] = 0
  /\ code' = [code EXCEPT ![c].state = "removed"]
  /\ UNCHANGED <<haggleVars, usage, given, allowed, online, tabs, edits>>

-----------------------------------------------------------------------------
(* Checkout                                                                *)

\* MUTANT of MayRedeem: the buyer's own cap is left to the cart.
MayRedeemUncounted(c, u) ==
  /\ code[c].state = "there" /\ code[c].active /\ ~code[c].lapsed
  /\ code[c].uses < code[c].most

\* The cart has checked the same; a guest has no uses to count.
MayRedeem(c, u) ==
  /\ code[c].state = "there" /\ code[c].active /\ ~code[c].lapsed
  /\ code[c].uses < code[c].most
  /\ u # Guest => usage[c][u] < code[c].each

UseCoupon(t, c, u) ==
  /\ MayRedeem(c, u)
  /\ Go(t, [Shut EXCEPT !.at = "redeem", !.code = c, !.user = u])
  /\ UNCHANGED <<haggleVars, codeVars, online, edits>>

\* Inside the order's transaction.  An order request, while payments are not
\* online, takes the discount and counts nothing.
Redeem(t) ==
  LET c == tabs[t].code  u == tabs[t].user IN
  /\ tabs[t].at = "redeem"
  /\ IF online
       THEN /\ code[c].state = "there" /\ code[c].active
            /\ code[c].uses < code[c].most
            /\ code' = [code EXCEPT ![c].uses = @ + 1]
            /\ usage' = [usage EXCEPT ![c][u] = @ + 1]
       ELSE given[c] < MaxUses /\ UNCHANGED <<code, usage>>
  /\ given' = [given EXCEPT ![c] = @ + 1]
  /\ Done(t)
  /\ UNCHANGED <<haggleVars, allowed, online, edits>>

OfferNext ==
  \/ \E t \in Tabs :
       \/ MakeOffer(t) \/ Overwrite(t) \/ GiveUp(t) \/ FireOffer(t)
       \/ Redeem(t)
       \/ \E o \in Offers : CreateOffer(t, o)
       \/ \E o \in Offers : \E what \in DOMAIN AnswerTo : Answer(t, o, what)
       \/ \E c \in Codes : Accept(t, c) \/ CreateTargeted(t, c)
       \/ \E c \in Codes : \E u \in Users : UseCoupon(t, c, u)
  \/ ExpireStale
  \/ \E o \in Offers : OfferFallsDue(o)
  \/ \E c \in Codes :
       \/ CodeLapses(c) \/ RemoveCode(c)
       \/ \E form \in Forms : EditCode(c, form)

OfferSpec == OfferInit /\ [][OfferNext]_offerVars

-----------------------------------------------------------------------------
\* An agreement gets one code: accepting twice, from two tabs or from both
\* sides, mints none too many, and none is lost, however requests overlap.
\* Only an ACCEPTED offer that a late rejection, counter or expiry writes
\* over can be agreed on again.
OneCodeEach ==
  \A o \in Offers :
    minted[o] = reopened[o] + (IF offer[o].status = "ACCEPTED" THEN 1 ELSE 0)

\* A coupon is used as often as its shop ever allowed, every discount given
\* is on record, and a buyer exceeds the cap per user only by the checkouts
\* that were under way at one time.  Guests count as everybody.
CapsKept ==
  online =>
    \A c \in Codes :
      /\ given[c] = code[c].uses
      /\ code[c].uses = SumFunction(usage[c])
      /\ code[c].uses <= allowed[c].most
      /\ \A u \in Buyers :
           usage[c][u] < allowed[c].each + Cardinality(Tabs)
=============================================================================
