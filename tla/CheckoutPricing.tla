--------------------------- MODULE CheckoutPricing ---------------------------
(***************************************************************************)
(* What a buyer is shown in the cart and then charged, and what each shop  *)
(* of the order is credited.                                               *)
(*                                                                         *)
(*   pricing.util.ts          the running sales of a listing               *)
(*   bundle-offers.service.ts the bundles a cart holds in full             *)
(*   shipping.service.ts      resolveSellerShippingCost, the free-shipping *)
(*                            badge                                        *)
(*   free-shipping-policy.ts  who pays for delivery                        *)
(*   fees.util.ts             the fees of a shop's part                    *)
(*   cart.service.ts          mapToDto, estimateShipping                   *)
(*   orders.service.ts        checkout, up to the rows it writes           *)
(*                                                                         *)
(* The market, what is on sale and on what terms, and the basket are       *)
(* chosen once; the cart is shown and the order placed, in either order.   *)
(* Money is in whole cents and rounded halves up, as Math.round does; the  *)
(* residue of binary fractions is not modelled.  Left out: carts with a    *)
(* listing of no shop, the rewards of links, names, days and addresses.    *)
(***************************************************************************)
EXTENDS Integers, Sequences, FiniteSets, FiniteSetsExt

CONSTANTS
  Shops,
  Catalogue,     \* what a cart may hold, in cart order: a sequence of lines
                 \* [shop, good, price, snapshot, profile, digital]
  Baskets,       \* quantities: functions from the lines
  SaleChoices,   \* the auto-apply promotions running
  BundleChoices, \* the active bundle offers
  Coupons,       \* the coupon on the cart, NoCoupon among them
  ProfileTables, \* delivery profiles by name
  QuoteChoices,  \* what connected providers ask: by shop, or NoQuote
  Destinations,  \* countries
  Thresholds,    \* freeShippingThreshold, 0 to disable it
  ReferralRates, \* resolveAffiliate's discountRate, in percent
  Wraps,         \* dto.giftWrapping
  FeeRates,      \* transaction, processing, regulatory and VAT rates in
                 \* basis points, and the fixed processing fee
  NoCoupon, NoQuote, Anywhere, Platform

VARIABLES
  market,   \* the terms the platform and the shops set
  basket,   \* what the buyer has put in the cart, and where it goes
  preview,  \* what the cart page showed
  placed    \* the order, as the rows of checkout hold it

priceVars == <<market, basket, preview, placed>>

Lines == 1 .. Len(Catalogue)

\* What the DTOs and the columns admit: nothing is priced below zero; a
\* discount in percent has no upper bound.
ASSUME TermsAssumption ==
  /\ Len(Catalogue) \in Nat
  /\ \A l \in Lines : /\ Catalogue[l].shop \in Shops
                      /\ Catalogue[l].price \in Nat
                      /\ Catalogue[l].snapshot \in Nat
  /\ Platform \notin Shops
  /\ Baskets \subseteq [Lines -> Nat]
  /\ ReferralRates \subseteq Nat
  /\ \A sales \in SaleChoices : \A p \in sales : p.value \in Nat
  /\ \A bundles \in BundleChoices :
       /\ IsFiniteSet(bundles)
       /\ \A b \in bundles : b.percent \in Nat /\ IsFiniteSet(b.goods)
  /\ \A c \in Coupons \ {NoCoupon} : c.value \in Nat
  /\ \A table \in ProfileTables, l \in Lines :
       LET methods == table[Catalogue[l].profile].methods IN
       \A to \in DOMAIN methods :
         methods[to].price \in Nat /\ methods[to].extra \in Nat
  /\ \A quotes \in QuoteChoices \ {NoQuote} : \A s \in Shops :
       quotes[s] \in Nat

Market == [sales : SaleChoices, bundles : BundleChoices, coupon : Coupons,
           profiles : ProfileTables, quotes : QuoteChoices,
           threshold : Thresholds, referral : ReferralRates]
Basket == [quantity : Baskets, country : Destinations, wrap : Wraps]
NotYet == [known |-> FALSE]
Refused == [known |-> TRUE, accepted |-> FALSE]

GiftWrappingPrice == 499

-----------------------------------------------------------------------------
(* Cents                                                                   *)

NotBelowZero(n) == IF n < 0 THEN 0 ELSE n
RoundedDiv(n, d) == (2 * n + d) \div (2 * d)
PercentOf(amount, percent) == RoundedDiv(amount * percent, 100)
BasisPoints(amount, rate) == RoundedDiv(amount * rate, 10000)
SumOver(S, f(_)) == SumFunction([x \in S |-> f(x)])

-----------------------------------------------------------------------------
(* Sales                                                                   *)

\* A sale for one country is open to a buyer whose country is not known.
OpenTo(promo, country) ==
  Anywhere \in {promo.country, country} \/ promo.country = country

OnSale(promo, l, country) ==
  /\ promo.shop = Catalogue[l].shop
  /\ promo.listed => Catalogue[l].good \in promo.goods
  /\ OpenTo(promo, country)

Discounted(promo, price) ==
  NotBelowZero(price - IF promo.type = "PERCENTAGE"
                         THEN PercentOf(price, promo.value)
                         ELSE promo.value)

ApplyBestPromo(price, promos) ==
  Min({price} \cup {Discounted(p, price) : p \in promos})

UnitPrice(l) ==
  ApplyBestPromo(Catalogue[l].price,
                 {p \in market.sales : OnSale(p, l, basket.country)})

-----------------------------------------------------------------------------
(* The cart, by shop                                                       *)

InCart == {l \in Lines : basket.quantity[l] > 0}
ShopsInCart == {Catalogue[l].shop : l \in InCart}
LinesOf(s) == {l \in InCart : Catalogue[l].shop = s}
DigitalOnly == \A l \in InCart : Catalogue[l].digital
MixedCart == ~DigitalOnly /\ \E l \in InCart : Catalogue[l].digital

ValueOf(lines) == SumOver(lines, LAMBDA l : UnitPrice(l) * basket.quantity[l])

\* A bundle counts as often as its scarcest listing allows, each listing at
\* the price of its first line.
BundleMatches(b) ==
  /\ Cardinality(b.goods) >= 2
  /\ b.goods \subseteq {Catalogue[l].good : l \in LinesOf(b.shop)}

LinesOfGood(b, g) == {l \in LinesOf(b.shop) : Catalogue[l].good = g}

BundleSets(b) ==
  Min({SumOver(LinesOfGood(b, g), LAMBDA l : basket.quantity[l])
         : g \in b.goods})

BundleDiscount(s) ==
  LET matches == {b \in market.bundles : b.shop = s /\ BundleMatches(b)} IN
  RoundedDiv(SumOver(matches, LAMBDA b :
               SumOver(b.goods, LAMBDA g : UnitPrice(Min(LinesOfGood(b, g))))
                 * BundleSets(b) * b.percent),
             100)

-----------------------------------------------------------------------------
(* The coupon                                                              *)

CouponLines ==
  {l \in InCart :
     /\ market.coupon.shop \in {Platform, Catalogue[l].shop}
     /\ market.coupon.listed => Catalogue[l].good \in market.coupon.goods}

CouponRefused ==
  /\ market.coupon # NoCoupon
  /\ \/ /\ market.coupon.shop # Platform \/ market.coupon.listed
        /\ ValueOf(CouponLines) <= 0
     \/ ValueOf(CouponLines) < market.coupon.minOrder

CouponDiscount ==
  LET base == ValueOf(CouponLines) IN
  IF market.coupon = NoCoupon THEN 0
  ELSE CASE market.coupon.type = "PERCENTAGE" ->
              PercentOf(base, market.coupon.value)
         [] market.coupon.type = "FIXED_AMOUNT" ->
              Min({base, market.coupon.value})
         [] OTHER -> 0

CouponFreeShipping ==
  market.coupon # NoCoupon /\ market.coupon.type = "FREE_SHIPPING"

-----------------------------------------------------------------------------
(* Delivery                                                                *)

\* methods is a function: a destination has at most one row.
MethodFor(profile, country) ==
  LET fallback == IF country = profile.origin THEN "domestic"
                                              ELSE "everywhere_else" IN
  IF country \in DOMAIN profile.methods THEN {profile.methods[country]}
  ELSE IF fallback \in DOMAIN profile.methods
    THEN {profile.methods[fallback]} ELSE {}

MethodCost(method, quantity) ==
  IF method.free THEN 0
  ELSE method.price + method.extra * NotBelowZero(quantity - 1)

\* The lines of one shop that share a profile ship as one group.
GroupQuantity(s, name) ==
  SumOver({l \in LinesOf(s) : Catalogue[l].profile = name},
          LAMBDA l : basket.quantity[l])
ProfilesOf(lines) == {Catalogue[l].profile : l \in lines}
Resolvable(lines) ==
  \A name \in ProfilesOf(lines) :
    MethodFor(market.profiles[name], basket.country) # {}

SellerShippingCost(s) ==
  SumOver(ProfilesOf(LinesOf(s)), LAMBDA name :
    LET method == CHOOSE m \in MethodFor(market.profiles[name],
                                         basket.country) : TRUE
    IN MethodCost(method, GroupQuantity(s, name)))

\* MUTANT of BadgedFree: the surcharge of further items is forgotten.
BadgedFirstItem(profile) ==
  /\ DOMAIN profile.methods # {}
  /\ \A to \in DOMAIN profile.methods :
       profile.methods[to].free \/ profile.methods[to].price = 0

\* freeShippingListingIds: free wherever the profile delivers.
BadgedFree(profile) ==
  /\ DOMAIN profile.methods # {}
  /\ \A to \in DOMAIN profile.methods :
       LET m == profile.methods[to] IN
       m.free \/ (m.price = 0 /\ m.extra = 0)

QualifiesForFreeShipping(subtotal) ==
  market.threshold > 0 /\ subtotal >= market.threshold

Settlement(quote, platformSponsored, couponWaived) ==
  IF platformSponsored
    THEN [buyerCharge |-> 0, platformSubsidy |-> quote, sellerCredit |-> 0]
  ELSE IF couponWaived
    THEN [buyerCharge |-> 0, platformSubsidy |-> 0, sellerCredit |-> 0]
  ELSE [buyerCharge |-> quote, platformSubsidy |-> 0, sellerCredit |-> quote]

-----------------------------------------------------------------------------
(* The cart page                                                           *)

\* resolveCurrentPrices: a listing with no price of its own keeps the price
\* it was added at.
CartPrice(l, country) ==
  ApplyBestPromo(IF Catalogue[l].price > 0 THEN Catalogue[l].price
                                           ELSE Catalogue[l].snapshot,
                 {p \in market.sales : OnSale(p, l, country)})

CartSubtotal(country) ==
  SumOver(InCart, LAMBDA l : CartPrice(l, country) * basket.quantity[l])

\* MUTANT of EstimateCountry: the estimate prices the cart as the cart page.
EstimateAnywhere == Anywhere

\* estimateShipping prices the cart for the country it was asked about.
EstimateCountry == basket.country

\* estimateShipping asks no provider.
ShippingEstimate ==
  LET physical == {l \in InCart : ~Catalogue[l].digital}
      settled(s) ==
        Settlement(SellerShippingCost(s),
                   QualifiesForFreeShipping(CartSubtotal(EstimateCountry)),
                   CouponFreeShipping)
      shops == {Catalogue[l].shop : l \in physical}
      charge(s) == settled(s).buyerCharge
      subsidy(s) == settled(s).platformSubsidy IN
  IF Resolvable(physical)
    THEN [resolvable |-> TRUE, cost |-> SumOver(shops, charge),
          subsidy |-> SumOver(shops, subsidy)]
    ELSE [resolvable |-> FALSE, cost |-> 0, subsidy |-> 0]

ShowCart ==
  /\ preview = NotYet
  /\ InCart # {} /\ ~MixedCart
  /\ preview' = [known |-> TRUE, subtotal |-> CartSubtotal(Anywhere),
                 estimate |-> ShippingEstimate]
  /\ UNCHANGED <<market, basket, placed>>

-----------------------------------------------------------------------------
(* Checkout                                                                *)

QuoteOf(s) ==
  IF DigitalOnly THEN 0
  ELSE IF market.quotes # NoQuote THEN market.quotes[s]
  ELSE SellerShippingCost(s)

ShippingFor(quote) ==
  Settlement(quote, QualifiesForFreeShipping(ValueOf(InCart)),
             CouponFreeShipping)

\* MUTANT of CouponShare: every shop in the cart pays for the coupon.
CouponShareOfAll(s) ==
  IF market.coupon # NoCoupon THEN Min({CouponDiscount, ValueOf(LinesOf(s))})
                              ELSE 0

\* A shop funds its own coupon, the platform one of its own.
CouponShare(s) ==
  IF market.coupon # NoCoupon /\ market.coupon.shop = s
    THEN Min({CouponDiscount, ValueOf(LinesOf(s))}) ELSE 0

StoreDiscount(s) ==
  Min({CouponShare(s) + BundleDiscount(s), ValueOf(LinesOf(s))})

\* Fees are taken of what the goods and the credited delivery come to.
TotalFees(base, regulated) ==
  LET sale == BasisPoints(base, FeeRates.transaction)
      processing == BasisPoints(base, FeeRates.processing) + FeeRates.fixed
      regulatory == IF regulated THEN BasisPoints(base, FeeRates.regulatory)
                                 ELSE 0
      fees == sale + processing + regulatory IN
  fees + BasisPoints(fees, FeeRates.vat)

StoreOrderOf(s) ==
  LET shipping == ShippingFor(QuoteOf(s))
      base == ValueOf(LinesOf(s)) - StoreDiscount(s) + shipping.sellerCredit
  IN [subtotal |-> ValueOf(LinesOf(s)), discount |-> StoreDiscount(s),
      credit |-> shipping.sellerCredit, subsidy |-> shipping.platformSubsidy,
      earnings |-> base - TotalFees(base, s \in FeeRates.regulatedShops)]

OrderTotals ==
  LET subtotal == ValueOf(InCart)
      bundles == SumOver(ShopsInCart, BundleDiscount)
      shipping == ShippingFor(SumOver(ShopsInCart, QuoteOf))
      wrapping == IF basket.wrap /\ ~DigitalOnly THEN GiftWrappingPrice ELSE 0
      referral == PercentOf(subtotal, market.referral) IN
  [known |-> TRUE, accepted |-> TRUE, subtotal |-> subtotal,
   discount |-> CouponDiscount + bundles, referral |-> referral,
   wrapping |-> wrapping,
   shipping |-> shipping.buyerCharge, subsidy |-> shipping.platformSubsidy,
   total |-> NotBelowZero(NotBelowZero(subtotal - CouponDiscount - bundles)
                            + shipping.buyerCharge + wrapping - referral),
   stores |-> [s \in ShopsInCart |-> StoreOrderOf(s)]]

Checkout ==
  /\ placed = NotYet
  /\ InCart # {}
  /\ placed' = IF \/ MixedCart
                  \/ CouponRefused
                  \/ /\ ~DigitalOnly
                     /\ market.quotes = NoQuote
                     /\ ~Resolvable(InCart)
                 THEN Refused ELSE OrderTotals
  /\ UNCHANGED <<market, basket, preview>>

PriceTypeOK ==
  /\ market \in Market
  /\ basket \in Basket
  /\ preview = NotYet \/ preview.known
  /\ placed \in {NotYet, Refused} \/ placed.total \in Nat

PriceInit ==
  /\ market \in Market
  /\ basket \in Basket
  /\ preview = NotYet
  /\ placed = NotYet

PriceNext == ShowCart \/ Checkout

PriceSpec == PriceInit /\ [][PriceNext]_priceVars

-----------------------------------------------------------------------------
Ordered == placed.known /\ placed.accepted
SellersShip == market.quotes = NoQuote /\ ~DigitalOnly
AllPriced == \A l \in InCart : Catalogue[l].price > 0

CartPriceIsCharged ==
  /\ preview.subtotal <= placed.subtotal
  /\ (\A p \in market.sales : p.country = Anywhere)
       => preview.subtotal = placed.subtotal

EstimateIsCharged ==
  SellersShip =>
    /\ preview.estimate.resolvable
    /\ preview.estimate.cost = placed.shipping
    /\ preview.estimate.subsidy = placed.subsidy

\* The cart page and checkout price the same cart in two services, from
\* different subtotals.  The goods are never shown dearer than charged, and
\* exactly as charged unless a sale is for one country ("used identically for
\* display (product page, cart) and checkout"); the delivery, when the sellers
\* ship, is what was estimated; and only a coupon makes checkout refuse a cart
\* that the page could price.
CartIsCharged ==
  preview.known /\ placed.known /\ AllPriced =>
    /\ placed.accepted => CartPriceIsCharged /\ EstimateIsCharged
    /\ SellersShip /\ preview.estimate.resolvable
         => placed.accepted \/ CouponRefused

\* A cart of listings with the free-shipping badge is delivered free by their
\* seller, to any country and in any number.
BadgeNeverLies ==
  Ordered /\ SellersShip
    /\ (\A l \in InCart : BadgedFree(market.profiles[Catalogue[l].profile]))
    => placed.shipping = 0 /\ placed.subsidy = 0

\* The split of an order among its shops loses and makes nothing: goods,
\* delivery and subsidies add up, and what the shops are credited, less the
\* platform's own coupon and the referral, is what the buyer pays for goods
\* and delivery; unless a shop's coupon and bundles exceed its goods, the
\* platform's coupon and the bundles exceed all goods, or the referral exceeds
\* all there is to pay.
SharesAddUp ==
  LET shops == ShopsInCart
      part(f) == SumOver(shops, LAMBDA s : placed.stores[s][f])
      couponOf(s) == IF market.coupon # NoCoupon /\ market.coupon.shop = s
                       THEN CouponDiscount ELSE 0 IN
  Ordered =>
    /\ placed.shipping = part("credit")
    /\ placed.subsidy = part("subsidy")
    /\ placed.subtotal = part("subtotal")
    /\ (\A s \in shops : couponOf(s) + BundleDiscount(s)
                           <= placed.stores[s].subtotal)
         => /\ placed.discount = part("discount") + couponOf(Platform)
            /\ placed.total > 0 /\ placed.discount <= placed.subtotal =>
                 placed.total - placed.wrapping
                   = part("subtotal") - part("discount") + part("credit")
                       - couponOf(Platform) - placed.referral
=============================================================================
