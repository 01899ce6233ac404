---------------------------- MODULE CheckoutProofs ---------------------------
(***************************************************************************)
(* What TLAPS proves of the price of an order and of the codes that lower  *)
(* it.                                                                     *)
(*                                                                         *)
(* CheckoutPricing, for any catalogue, cart, sale, bundle, coupon and      *)
(* postage: the buyer is charged what the cart showed, the badge on the    *)
(* cart never claims more than the order takes off, and what the shops'    *)
(* parts of an order bear adds up to the order.  The argument: preview and *)
(* order, if both are there, were computed from one market and one basket  *)
(* (PriceInv); the rest is arithmetic, whose sums over the lines and the   *)
(* shops are taken apart with SumTheorems.                                 *)
(*                                                                         *)
(* OfferCodes, for any offers, codes, buyers, requests and edits: types,   *)
(* that an agreement gets one code, and that a code is used no more often  *)
(* than its shop ever allowed, by one buyer or by all.  The argument: an   *)
(* offer becomes ACCEPTED, and is counted as minted, in one UPDATE that    *)
(* asks for its status; whoever writes over an acceptance counts it as     *)
(* reopened.  Checkout's UPDATE asks for the cap that the row has then,    *)
(* which is never above the highest it ever had, and the uses it counts    *)
(* are those of the orders that hold the code (CapsInv).                   *)
(*                                                                         *)
(* MCMoney, the five services of FinanceProofs and of this module side by  *)
(* side: each behaves as it does alone (EachServiceAlone).                 *)
(***************************************************************************)
EXTENDS MCMoney, FinanceProofs

-----------------------------------------------------------------------------
(* CheckoutPricing                                                         *)

-----------------------------------------------------------------------------
(* Cents                                                                   *)

\* The least of some naturals is one of them.
LEMMA LeastNat ==
  ASSUME NEW S \in SUBSET Nat, S # {}
  PROVE  Min(S) \in S /\ Min(S) \in Nat /\ \A n \in S : Min(S) <= n
<1>1. PICK m \in S : \A n \in S : <<n, m>> \notin OpToRel(<, Nat)
  BY NatLessThanWellFounded, WFMin
<1>2. ASSUME NEW n \in S PROVE m <= n
  <2>1. <<n, m>> \in Nat \X Nat /\ n \in Nat /\ m \in Nat
    OBVIOUS
  <2>2. ~ n < m
    BY <1>1, <2>1 DEF OpToRel
  <2> QED
    BY <2>1, <2>2
<1> QED
  BY <1>2 DEF Min

\* Of more naturals no larger a least.
LEMMA LeastOfMore ==
  ASSUME NEW S \in SUBSET Nat, NEW T \in SUBSET S, T # {}
  PROVE  Min(S) <= Min(T)
BY LeastNat

LEMMA RoundedIsNat ==
  ASSUME NEW n \in Nat, NEW d \in Nat \ {0}
  PROVE  RoundedDiv(n, d) \in Nat
<1>1. 2 * n + d \in Nat /\ 2 * d \in Nat \ {0}
  OBVIOUS
<1>2. \A a \in Nat, b \in Nat \ {0} : a \div b \in Nat
  OBVIOUS
<1> QED
  BY <1>1, <1>2 DEF RoundedDiv

LEMMA PercentIsNat ==
  ASSUME NEW n \in Nat, NEW percent \in Nat
  PROVE  PercentOf(n, percent) \in Nat
<1>1. n * percent \in Nat
  OBVIOUS
<1> QED
  BY <1>1, RoundedIsNat DEF PercentOf

\* What SumOver is of a set of lines or shops.
LEMMA SumOfNats ==
  ASSUME NEW S, IsFiniteSet(S), NEW f \in [S -> Nat]
  PROVE  SumFunction(f) \in Nat
<1>1. DOMAIN f = S /\ \A x \in S : f[x] \in Int /\ 0 <= f[x]
  OBVIOUS
<1>2. PICK zero : zero = [x \in S |-> 0]
  OBVIOUS
<1>3. SumFunctionOnSet(f, S) \in Int
  BY <1>1, SumIsInt
<1>4. SumFunctionOnSet(zero, S) = 0
  BY <1>2, SumOfZeros
<1>5. SumFunctionOnSet(zero, S) <= SumFunctionOnSet(f, S)
  BY <1>1, <1>2, SumGrows
<1> QED
  BY <1>1, <1>3, <1>4, <1>5 DEF SumFunction

-----------------------------------------------------------------------------
(* The cart                                                                *)

PriceInputs == market \in Market /\ basket \in Basket

LEMMA CartIsFinite ==
  ASSUME PriceInputs
  PROVE  /\ IsFiniteSet(InCart) /\ InCart \subseteq Lines
         /\ \A l \in InCart : basket.quantity[l] \in Nat
         /\ \A l \in InCart : Catalogue[l].shop \in Shops
         /\ IsFiniteSet(ShopsInCart) /\ ShopsInCart \subseteq Shops
         /\ \A s : IsFiniteSet(LinesOf(s)) /\ LinesOf(s) \subseteq InCart
<1>1. IsFiniteSet(Lines)
  BY TermsAssumption, FS_Interval DEF Lines
<1>2. InCart \subseteq Lines /\ basket.quantity \in [Lines -> Nat]
  BY TermsAssumption DEF InCart, PriceInputs, Basket
<1>3. IsFiniteSet(InCart)
  BY <1>1, <1>2, FS_Subset
<1>4. PICK g : g = [l \in InCart |-> Catalogue[l].shop]
  OBVIOUS
<1>5. g \in Surjection(InCart, ShopsInCart)
  BY <1>4 DEF Surjection, ShopsInCart
<1>6. IsFiniteSet(ShopsInCart)
  BY <1>3, <1>5, FS_Surjection
<1>7. \A l \in InCart : Catalogue[l].shop \in Shops
  BY <1>2, TermsAssumption
<1>8. \A s : LinesOf(s) \subseteq InCart
  BY DEF LinesOf
<1>9. \A s : IsFiniteSet(LinesOf(s))
  BY <1>3, <1>8, FS_Subset
<1> QED
  BY <1>2, <1>3, <1>6, <1>7, <1>8, <1>9 DEF ShopsInCart

\* A price is not raised by a sale, and no sale goes below nothing.
LEMMA BestPromo ==
  ASSUME NEW price \in Nat, NEW promos, \A p \in promos : p.value \in Nat
  PROVE  /\ {price} \cup {Discounted(p, price) : p \in promos} \subseteq Nat
         /\ ApplyBestPromo(price, promos) \in Nat
<1>1. ASSUME NEW p \in promos PROVE Discounted(p, price) \in Nat
  <2>1. PercentOf(price, p.value) \in Nat /\ p.value \in Nat
    BY PercentIsNat
  <2> QED
    BY <2>1 DEF Discounted, NotBelowZero
<1>2. {price} \cup {Discounted(p, price) : p \in promos} \subseteq Nat
  BY <1>1
<1> QED
  BY <1>2, LeastNat DEF ApplyBestPromo

LEMMA MoreSales ==
  ASSUME NEW price \in Nat, NEW more, NEW promos \in SUBSET more,
         \A p \in more : p.value \in Nat
  PROVE  ApplyBestPromo(price, more) <= ApplyBestPromo(price, promos)
<1>1. /\ {price} \cup {Discounted(p, price) : p \in more} \in SUBSET Nat
      /\ {price} \cup {Discounted(p, price) : p \in promos}
           \in SUBSET ({price} \cup {Discounted(p, price) : p \in more})
  BY BestPromo
<1> QED
  BY <1>1, LeastOfMore DEF ApplyBestPromo

LEMMA PricesAreNat ==
  ASSUME PriceInputs, NEW l \in Lines
  PROVE  /\ UnitPrice(l) \in Nat
         /\ \A country : CartPrice(l, country) \in Nat
<1>1. \A p \in market.sales : p.value \in Nat
  BY TermsAssumption DEF PriceInputs, Market
<1>2. Catalogue[l].price \in Nat /\ Catalogue[l].snapshot \in Nat
  BY TermsAssumption
<1>3. \A country, price : price \in Nat =>
        ApplyBestPromo(price, {p \in market.sales : OnSale(p, l, country)})
          \in Nat
  BY <1>1, BestPromo
<1> QED
  BY <1>2, <1>3 DEF UnitPrice, CartPrice

\* What the lines of a part of the cart come to.
LEMMA ValuesAreNat ==
  ASSUME PriceInputs, NEW S \in SUBSET InCart
  PROVE  /\ IsFiniteSet(S) /\ ValueOf(S) \in Nat
         /\ \A l \in S : UnitPrice(l) * basket.quantity[l] \in Nat
<1>1. IsFiniteSet(S) /\ S \subseteq Lines
  BY CartIsFinite, FS_Subset
<1>2. ASSUME NEW l \in S PROVE UnitPrice(l) * basket.quantity[l] \in Nat
  <2>1. UnitPrice(l) \in Nat /\ basket.quantity[l] \in Nat
    BY <1>1, CartIsFinite, PricesAreNat
  <2> QED
    BY <2>1
<1>3. PICK f : f = [l \in S |-> UnitPrice(l) * basket.quantity[l]]
  OBVIOUS
<1>4. f \in [S -> Nat]
  BY <1>2, <1>3
<1>5. ValueOf(S) = SumFunction(f)
  BY <1>3 DEF ValueOf, SumOver
<1> QED
  BY <1>1, <1>2, <1>4, <1>5, SumOfNats

LEMMA QuantitiesAreNat ==
  ASSUME PriceInputs, NEW S \in SUBSET InCart
  PROVE  SumOver(S, LAMBDA l : basket.quantity[l]) \in Nat
<1>1. IsFiniteSet(S)
  BY CartIsFinite, FS_Subset
<1>2. PICK f : f = [l \in S |-> basket.quantity[l]]
  OBVIOUS
<1>3. f \in [S -> Nat]
  BY <1>2, CartIsFinite
<1> QED
  BY <1>1, <1>2, <1>3, SumOfNats DEF SumOver

\* A bundle is worth nothing below zero.
LEMMA BundlesAreNat ==
  ASSUME PriceInputs, NEW s
  PROVE  BundleDiscount(s) \in Nat
<1> DEFINE matches == {b \in market.bundles : b.shop = s /\ BundleMatches(b)}
           goods(b) == SumOver(b.goods,
                               LAMBDA g : UnitPrice(Min(LinesOfGood(b, g))))
           worth(b) == goods(b) * BundleSets(b) * b.percent
<1>1. /\ IsFiniteSet(matches)
      /\ \A b \in matches : b.percent \in Nat /\ IsFiniteSet(b.goods)
  BY TermsAssumption, FS_Subset DEF PriceInputs, Market
<1>2. ASSUME NEW b \in matches PROVE worth(b) \in Nat
  <2>1. ASSUME NEW g \in b.goods
        PROVE  /\ UnitPrice(Min(LinesOfGood(b, g))) \in Nat
               /\ SumOver(LinesOfGood(b, g), LAMBDA l : basket.quantity[l])
                    \in Nat
    <3>1. LinesOfGood(b, g) \in SUBSET InCart /\ LinesOfGood(b, g) # {}
      BY DEF LinesOfGood, LinesOf, BundleMatches
    <3>2. LinesOfGood(b, g) \in SUBSET Nat /\ InCart \subseteq Lines
      BY <3>1, CartIsFinite DEF Lines
    <3>3. Min(LinesOfGood(b, g)) \in Lines
      BY <3>1, <3>2, LeastNat
    <3> QED
      BY <3>1, <3>3, PricesAreNat, QuantitiesAreNat
  <2>2. PICK f : f = [g \in b.goods |-> UnitPrice(Min(LinesOfGood(b, g)))]
    OBVIOUS
  <2>3. f \in [b.goods -> Nat]
    BY <2>1, <2>2
  <2>4. goods(b) \in Nat
    BY <1>1, <2>2, <2>3, SumOfNats DEF SumOver
  <2>5. b.goods # {}
    BY FS_EmptySet DEF BundleMatches
  <2>6. BundleSets(b) \in Nat
    <3> DEFINE sets == {SumOver(LinesOfGood(b, g),
                                LAMBDA l : basket.quantity[l]) : g \in b.goods}
    <3>1. sets \in SUBSET Nat /\ sets # {}
      BY <2>1, <2>5
    <3>2. BundleSets(b) = Min(sets)
      BY DEF BundleSets
    <3> HIDE DEF sets
    <3> QED
      BY <3>1, <3>2, LeastNat
  <2> QED
    BY <1>1, <2>4, <2>6
<1>3. PICK f : f = [b \in matches |-> worth(b)]
  OBVIOUS
<1>4. SumOver(matches, worth) \in Nat
  <2>1. f \in [matches -> Nat]
    BY <1>2, <1>3
  <2>2. SumOver(matches, worth) = SumFunction(f)
    BY <1>3 DEF SumOver
  <2> QED
    BY <1>1, <2>1, <2>2, SumOfNats
<1>5. BundleDiscount(s) = RoundedDiv(SumOver(matches, worth), 100)
  BY DEF BundleDiscount
<1> HIDE DEF matches, worth
<1> QED
  BY <1>4, <1>5, RoundedIsNat

LEMMA CouponIsNat ==
  ASSUME PriceInputs
  PROVE  CouponDiscount \in Nat
<1>1. ValueOf(CouponLines) \in Nat
  BY ValuesAreNat DEF CouponLines
<1>2. market.coupon # NoCoupon => market.coupon.value \in Nat
  BY TermsAssumption DEF PriceInputs, Market
<1>3. ASSUME market.coupon # NoCoupon
      PROVE  Min({ValueOf(CouponLines), market.coupon.value}) \in Nat
  BY <1>1, <1>2, <1>3, LeastNat
<1>4. ASSUME market.coupon # NoCoupon
      PROVE  PercentOf(ValueOf(CouponLines), market.coupon.value) \in Nat
  BY <1>1, <1>2, <1>4, PercentIsNat
<1>5. CASE market.coupon = NoCoupon
  BY <1>5 DEF CouponDiscount
<1>6. CASE market.coupon # NoCoupon /\ market.coupon.type = "PERCENTAGE"
  <2>1. CouponDiscount = PercentOf(ValueOf(CouponLines), market.coupon.value)
    BY <1>6 DEF CouponDiscount
  <2> QED
    BY <1>4, <1>6, <2>1
<1>7. CASE market.coupon # NoCoupon /\ market.coupon.type = "FIXED_AMOUNT"
  <2>1. CouponDiscount = Min({ValueOf(CouponLines), market.coupon.value})
    BY <1>7 DEF CouponDiscount
  <2> QED
    BY <1>3, <1>7, <2>1
<1>8. CASE /\ market.coupon # NoCoupon
           /\ market.coupon.type \notin {"PERCENTAGE", "FIXED_AMOUNT"}
  BY <1>8 DEF CouponDiscount
<1> QED
  BY <1>5, <1>6, <1>7, <1>8

LEMMA ProfilesAreFinite ==
  ASSUME PriceInputs, NEW s
  PROVE  IsFiniteSet(ProfilesOf(LinesOf(s)))
<1>1. PICK g : g = [l \in LinesOf(s) |-> Catalogue[l].profile]
  OBVIOUS
<1>2. g \in Surjection(LinesOf(s), ProfilesOf(LinesOf(s)))
  BY <1>1 DEF Surjection, ProfilesOf
<1> QED
  BY <1>2, CartIsFinite, FS_Surjection

\* A profile a group ships by asks nothing below zero.
LEMMA DeliveryIsNat ==
  ASSUME PriceInputs, NEW s, Resolvable(LinesOf(s))
  PROVE  SellerShippingCost(s) \in Nat
<1> DEFINE method(name) ==
             CHOOSE m \in MethodFor(market.profiles[name], basket.country) : TRUE
           cost(name) == MethodCost(method(name), GroupQuantity(s, name))
<1>1. ASSUME NEW name \in ProfilesOf(LinesOf(s)) PROVE cost(name) \in Nat
  <2>1. PICK l \in Lines : name = Catalogue[l].profile
    BY CartIsFinite DEF ProfilesOf
  <2>2. method(name) \in MethodFor(market.profiles[name], basket.country)
    BY DEF Resolvable
  <2>3. PICK to \in DOMAIN market.profiles[name].methods :
          method(name) = market.profiles[name].methods[to]
    BY <2>2 DEF MethodFor
  <2>4. method(name).price \in Nat /\ method(name).extra \in Nat
    BY <2>1, <2>3, TermsAssumption DEF PriceInputs, Market
  <2>5. GroupQuantity(s, name) \in Nat
    <3>1. {l2 \in LinesOf(s) : Catalogue[l2].profile = name} \in SUBSET InCart
      BY CartIsFinite
    <3> QED
      BY <3>1, QuantitiesAreNat DEF GroupQuantity
  <2>6. NotBelowZero(GroupQuantity(s, name) - 1) \in Nat
    BY <2>5 DEF NotBelowZero
  <2> HIDE DEF method
  <2>7. method(name).extra * NotBelowZero(GroupQuantity(s, name) - 1) \in Nat
    BY <2>4, <2>6
  <2> QED
    BY <2>4, <2>7 DEF MethodCost
<1>2. IsFiniteSet(ProfilesOf(LinesOf(s)))
  BY ProfilesAreFinite
<1>3. PICK f : f = [name \in ProfilesOf(LinesOf(s)) |-> cost(name)]
  OBVIOUS
<1>4. f \in [ProfilesOf(LinesOf(s)) -> Nat]
  BY <1>1, <1>3
<1>5. SellerShippingCost(s) = SumFunction(f)
  BY <1>3 DEF SellerShippingCost, SumOver
<1> QED
  BY <1>2, <1>4, <1>5, SumOfNats

-----------------------------------------------------------------------------
(* What checkout writes                                                    *)

\* Checkout refuses the cart.
TillRefuses ==
  \/ MixedCart
  \/ CouponRefused
  \/ ~DigitalOnly /\ market.quotes = NoQuote /\ ~Resolvable(InCart)

LEMMA QuotesAreNat ==
  ASSUME PriceInputs, ~TillRefuses, NEW s \in ShopsInCart
  PROVE  QuoteOf(s) \in Nat
<1>1. CASE DigitalOnly
  BY <1>1 DEF QuoteOf
<1>2. CASE ~DigitalOnly /\ market.quotes # NoQuote
  <2>1. market.quotes[s] \in Nat
    BY <1>2, CartIsFinite, TermsAssumption DEF PriceInputs, Market
  <2> QED
    BY <1>2, <2>1 DEF QuoteOf
<1>3. CASE SellersShip
  <2>1. Resolvable(LinesOf(s))
    BY <1>3 DEF TillRefuses, SellersShip, Resolvable, ProfilesOf, LinesOf
  <2> QED
    BY <1>3, <2>1, DeliveryIsNat DEF QuoteOf, SellersShip
<1> QED
  BY <1>1, <1>2, <1>3 DEF SellersShip

\* The quotes of the shops, summed and settled once, or settled one by one.
LEMMA SettledTogether ==
  ASSUME NEW K, IsFiniteSet(K), NEW q \in [K -> Nat]
  PROVE  /\ \A charge :
              (\A s \in K : charge[s] = ShippingFor(q[s]).buyerCharge)
                => SumFunctionOnSet(charge, K)
                     = ShippingFor(SumFunctionOnSet(q, K)).buyerCharge
         /\ \A subsidy :
              (\A s \in K : subsidy[s] = ShippingFor(q[s]).platformSubsidy)
                => SumFunctionOnSet(subsidy, K)
                     = ShippingFor(SumFunctionOnSet(q, K)).platformSubsidy
         /\ \A credit :
              (\A s \in K : credit[s] = ShippingFor(q[s]).sellerCredit)
                => SumFunctionOnSet(credit, K)
                     = ShippingFor(SumFunctionOnSet(q, K)).buyerCharge
<1>0. /\ \A f : (\A s \in K : f[s] = 0) => SumFunctionOnSet(f, K) = 0
      /\ \A f : (\A s \in K : f[s] = q[s])
                 => SumFunctionOnSet(f, K) = SumFunctionOnSet(q, K)
  BY SumOfZeros, SumOfSame
<1>1. CASE QualifiesForFreeShipping(ValueOf(InCart))
  <2>1. \A quote : /\ ShippingFor(quote).buyerCharge = 0
                   /\ ShippingFor(quote).platformSubsidy = quote
                   /\ ShippingFor(quote).sellerCredit = 0
    BY <1>1 DEF ShippingFor, Settlement
  <2> QED
    BY <1>0, <2>1
<1>2. CASE ~QualifiesForFreeShipping(ValueOf(InCart)) /\ CouponFreeShipping
  <2>1. \A quote : /\ ShippingFor(quote).buyerCharge = 0
                   /\ ShippingFor(quote).platformSubsidy = 0
                   /\ ShippingFor(quote).sellerCredit = 0
    BY <1>2 DEF ShippingFor, Settlement
  <2> QED
    BY <1>0, <2>1
<1>3. CASE ~QualifiesForFreeShipping(ValueOf(InCart)) /\ ~CouponFreeShipping
  <2>1. \A quote : /\ ShippingFor(quote).buyerCharge = quote
                   /\ ShippingFor(quote).platformSubsidy = 0
                   /\ ShippingFor(quote).sellerCredit = quote
    BY <1>3 DEF ShippingFor, Settlement
  <2> QED
    BY <1>0, <2>1
<1> QED
  BY <1>1, <1>2, <1>3

\* The goods of an order are those of its shops.
LEMMA GoodsAddUp ==
  ASSUME PriceInputs, NEW part, \A s \in ShopsInCart : part[s] = ValueOf(LinesOf(s))
  PROVE  SumFunctionOnSet(part, ShopsInCart) = ValueOf(InCart)
<1> DEFINE f == [l \in InCart |-> UnitPrice(l) * basket.quantity[l]]
           lines == [s \in ShopsInCart |-> LinesOf(s)]
<1>1. /\ IsFiniteSet(InCart) /\ \A l \in InCart : f[l] \in Int
      /\ IsFiniteSet(ShopsInCart)
  BY ValuesAreNat, CartIsFinite
<1>2. ValueOf(InCart) = SumFunctionOnSet(f, InCart)
  BY DEF ValueOf, SumOver, SumFunction
<1>3. ASSUME NEW s \in ShopsInCart
      PROVE  part[s] = SumFunctionOnSet(f, lines[s]) /\ lines[s] \in SUBSET InCart
  <2>1. IsFiniteSet(LinesOf(s)) /\ LinesOf(s) \subseteq InCart
    BY CartIsFinite
  <2>2. PICK g : g = [l \in LinesOf(s) |-> UnitPrice(l) * basket.quantity[l]]
    OBVIOUS
  <2>3. part[s] = SumFunctionOnSet(g, LinesOf(s))
    BY <2>2 DEF ValueOf, SumOver, SumFunction
  <2>4. \A l \in LinesOf(s) : g[l] = f[l]
    BY <2>1, <2>2
  <2> HIDE DEF f
  <2> QED
    BY <2>1, <2>3, <2>4, SumOfSame
<1>4. \A s, t \in ShopsInCart : s # t => lines[s] \cap lines[t] = {}
  BY DEF LinesOf
<1>5. UNION {lines[s] : s \in ShopsInCart} = InCart
  <2>1. \A l \in InCart : Catalogue[l].shop \in ShopsInCart
                         /\ l \in LinesOf(Catalogue[l].shop)
    BY DEF LinesOf, ShopsInCart
  <2>2. \A s \in ShopsInCart : lines[s] \subseteq InCart
    BY <1>3
  <2>3. \A l \in InCart : \E s \in ShopsInCart : l \in lines[s]
    BY <2>1
  <2> HIDE DEF lines
  <2> QED
    BY <2>2, <2>3
<1> HIDE DEF f, lines
<1>6. SumFunctionOnSet(part, ShopsInCart)
        = SumFunctionOnSet(f, UNION {lines[s] : s \in ShopsInCart})
  BY <1>1, <1>3, <1>4, SumOfParts
<1> QED
  BY <1>2, <1>5, <1>6

LEMMA LessOfTwo ==
  ASSUME NEW m \in Nat, NEW n \in Nat, m <= n
  PROVE  Min({m, n}) = m
<1>1. Min({m, n}) \in {m, n} /\ Min({m, n}) <= m
  BY LeastNat
<1> QED
  BY <1>1

\* What shop s, or the platform, pays of the coupon.
CouponOf(s) ==
  IF market.coupon # NoCoupon /\ market.coupon.shop = s
    THEN CouponDiscount ELSE 0

\* A coupon that was not refused is one shop's of the cart, or the platform's.
LEMMA CouponAddsUp ==
  ASSUME PriceInputs, ~TillRefuses, NEW share,
         \A s \in ShopsInCart : share[s] = CouponOf(s)
  PROVE  /\ SumFunctionOnSet(share, ShopsInCart) \in Int
         /\ SumFunctionOnSet(share, ShopsInCart) + CouponOf(Platform)
              = CouponDiscount
<1>1. /\ CouponDiscount \in Nat /\ IsFiniteSet(ShopsInCart)
      /\ ShopsInCart \subseteq Shops /\ Platform \notin Shops
  BY CouponIsNat, CartIsFinite, TermsAssumption
<1>2. CASE market.coupon = NoCoupon
  <2>1. CouponDiscount = 0 /\ \A s : CouponOf(s) = 0
    BY <1>2 DEF CouponDiscount, CouponOf
  <2>2. SumFunctionOnSet(share, ShopsInCart) = 0
    BY <1>1, <2>1, SumOfZeros
  <2> QED
    BY <2>1, <2>2
<1>3. CASE market.coupon # NoCoupon /\ market.coupon.shop = Platform
  <2>1. /\ CouponOf(Platform) = CouponDiscount
        /\ \A s \in ShopsInCart : CouponOf(s) = 0
    BY <1>1, <1>3 DEF CouponOf
  <2>2. SumFunctionOnSet(share, ShopsInCart) = 0
    BY <1>1, <2>1, SumOfZeros
  <2> QED
    BY <1>1, <2>1, <2>2
<1>4. CASE market.coupon # NoCoupon /\ market.coupon.shop # Platform
  <2>1. ValueOf(CouponLines) \in Nat /\ ~ValueOf(CouponLines) <= 0
    <3>1. CouponLines \in SUBSET InCart
      BY DEF CouponLines
    <3> QED
      BY <1>4, <3>1, ValuesAreNat DEF TillRefuses, CouponRefused
  <2>2. CouponLines # {}
    <3>1. SUFFICES ASSUME CouponLines = {} PROVE ValueOf(CouponLines) = 0
      BY <2>1
    <3>2. PICK f : f = [l \in CouponLines |-> UnitPrice(l) * basket.quantity[l]]
      OBVIOUS
    <3>3. ValueOf(CouponLines) = SumFunctionOnSet(f, CouponLines)
      BY <3>2 DEF ValueOf, SumOver, SumFunction
    <3> QED
      BY <3>1, <3>3, SumOfNone
  <2>3. market.coupon.shop \in ShopsInCart
    BY <1>4, <2>2 DEF CouponLines, ShopsInCart
  <2>4. PICK zero : zero = [s \in ShopsInCart |-> 0]
    OBVIOUS
  <2>5. /\ share[market.coupon.shop] = CouponDiscount
        /\ \A s \in ShopsInCart : s # market.coupon.shop => share[s] = 0
        /\ CouponOf(Platform) = 0
    BY <1>4, <2>3 DEF CouponOf
  <2>6. SumFunctionOnSet(zero, ShopsInCart) = 0
    BY <1>1, <2>4, SumOfZeros
  <2>7. /\ \A s \in ShopsInCart : zero[s] \in Int /\ share[s] \in Int
        /\ \A s \in ShopsInCart : s # market.coupon.shop => share[s] = zero[s]
        /\ zero[market.coupon.shop] = 0
    BY <1>1, <2>3, <2>4, <2>5
  <2>8. SumFunctionOnSet(share, ShopsInCart)
          = SumFunctionOnSet(zero, ShopsInCart) + share[market.coupon.shop]
              - zero[market.coupon.shop]
    BY ONLY <1>1, <2>3, <2>7, SumChanges
  <2> QED
    BY <1>1, <2>5, <2>6, <2>7, <2>8
<1> QED
  BY <1>2, <1>3, <1>4

LEMMA DiscountsAddUp ==
  ASSUME PriceInputs, ~TillRefuses, NEW part,
         \A s \in ShopsInCart :
           /\ part[s] = StoreDiscount(s)
           /\ CouponOf(s) + BundleDiscount(s) <= ValueOf(LinesOf(s))
  PROVE  /\ SumFunctionOnSet(part, ShopsInCart) \in Int
         /\ CouponDiscount + SumOver(ShopsInCart, BundleDiscount)
              = SumFunctionOnSet(part, ShopsInCart) + CouponOf(Platform)
<1> DEFINE K == ShopsInCart
           share == [s \in K |-> CouponOf(s)]
           bundle == [s \in K |-> BundleDiscount(s)]
<1>1. ASSUME NEW s \in K
      PROVE  /\ CouponOf(s) \in Nat /\ BundleDiscount(s) \in Nat
             /\ StoreDiscount(s) = CouponOf(s) + BundleDiscount(s)
  <2>1. /\ CouponDiscount \in Nat /\ BundleDiscount(s) \in Nat
        /\ ValueOf(LinesOf(s)) \in Nat
    BY CouponIsNat, BundlesAreNat, ValuesAreNat, CartIsFinite
  <2>2. CouponOf(s) \in Nat
    BY <2>1 DEF CouponOf
  <2>3. CouponOf(s) <= ValueOf(LinesOf(s))
    BY <2>1, <2>2
  <2>4. CouponShare(s) = CouponOf(s)
    <3>1. CASE CouponOf(s) = CouponDiscount
      <4>1. Min({CouponDiscount, ValueOf(LinesOf(s))}) = CouponDiscount
        BY <2>1, <2>3, <3>1, LessOfTwo
      <4> QED
        BY <4>1 DEF CouponShare, CouponOf
    <3>2. CASE ~(market.coupon # NoCoupon /\ market.coupon.shop = s)
      BY <3>2 DEF CouponShare, CouponOf
    <3> QED
      BY <3>1, <3>2 DEF CouponOf
  <2>5. Min({CouponOf(s) + BundleDiscount(s), ValueOf(LinesOf(s))})
          = CouponOf(s) + BundleDiscount(s)
    BY <2>1, <2>2, LessOfTwo
  <2> QED
    BY <2>1, <2>2, <2>4, <2>5 DEF StoreDiscount
<1>2. IsFiniteSet(K)
  BY CartIsFinite
<1>3. /\ SumFunctionOnSet(share, K) \in Int
      /\ SumFunctionOnSet(share, K) + CouponOf(Platform) = CouponDiscount
  <2>1. \A s \in K : share[s] = CouponOf(s)
    OBVIOUS
  <2> HIDE DEF share
  <2> QED
    BY <2>1, CouponAddsUp
<1>4. SumOver(ShopsInCart, BundleDiscount) = SumFunctionOnSet(bundle, K)
  BY DEF SumOver, SumFunction
<1>5. /\ SumFunctionOnSet(bundle, K) \in Int
      /\ SumFunctionOnSet(part, K)
           = SumFunctionOnSet(share, K) + SumFunctionOnSet(bundle, K)
  <2>1. \A s \in K : share[s] \in Int /\ bundle[s] \in Int
                    /\ part[s] = share[s] + bundle[s]
    BY <1>1
  <2> HIDE DEF share, bundle
  <2> QED
    BY <1>2, <2>1, SumOfBoth
<1>6. CouponOf(Platform) \in Int
  BY CouponIsNat DEF CouponOf
<1> HIDE DEF share, bundle
<1> QED
  BY <1>3, <1>4, <1>5, <1>6

\* Delivery and subsidies: settled for the order and for each shop.
LEMMA DeliveryAddsUp ==
  ASSUME PriceInputs, ~TillRefuses, placed = OrderTotals, NEW credit, NEW subsidy,
         \A s \in ShopsInCart :
           /\ credit[s] = ShippingFor(QuoteOf(s)).sellerCredit
           /\ subsidy[s] = ShippingFor(QuoteOf(s)).platformSubsidy
  PROVE  /\ placed.shipping \in Nat
         /\ placed.shipping = SumFunctionOnSet(credit, ShopsInCart)
         /\ placed.subsidy = SumFunctionOnSet(subsidy, ShopsInCart)
<1>0. PICK q : q = [s \in ShopsInCart |-> QuoteOf(s)]
  OBVIOUS
<1>1. IsFiniteSet(ShopsInCart) /\ q \in [ShopsInCart -> Nat]
  BY <1>0, CartIsFinite, QuotesAreNat
<1>2. SumOver(ShopsInCart, QuoteOf) = SumFunctionOnSet(q, ShopsInCart)
  BY <1>0 DEF SumOver, SumFunction
<1>3. \A s \in ShopsInCart :
        /\ subsidy[s] = ShippingFor(q[s]).platformSubsidy
        /\ credit[s] = ShippingFor(q[s]).sellerCredit
  BY <1>0
<1>4. /\ placed.shipping
            = ShippingFor(SumFunctionOnSet(q, ShopsInCart)).buyerCharge
      /\ placed.subsidy
            = ShippingFor(SumFunctionOnSet(q, ShopsInCart)).platformSubsidy
  BY <1>2 DEF OrderTotals
<1>5. SumFunctionOnSet(q, ShopsInCart) \in Nat
  BY <1>1, SumOfNats DEF SumFunction
<1>6. /\ SumFunctionOnSet(subsidy, ShopsInCart)
            = ShippingFor(SumFunctionOnSet(q, ShopsInCart)).platformSubsidy
      /\ SumFunctionOnSet(credit, ShopsInCart)
            = ShippingFor(SumFunctionOnSet(q, ShopsInCart)).buyerCharge
  BY ONLY <1>1, <1>3, SettledTogether
<1>7. ShippingFor(SumFunctionOnSet(q, ShopsInCart)).buyerCharge \in Nat
  BY <1>5 DEF ShippingFor, Settlement
<1> QED
  BY <1>4, <1>6, <1>7


\* What the buyer pays is a sum of naturals, less naturals, and not below zero.
LEMMA TotalIsNat ==
  ASSUME PriceInputs, ~TillRefuses, placed = OrderTotals
  PROVE  /\ placed.total \in Nat /\ placed.subtotal \in Nat
         /\ placed.discount \in Int /\ placed.referral \in Nat
         /\ placed.wrapping \in Nat /\ placed.shipping \in Nat
         /\ placed.total = NotBelowZero(NotBelowZero(placed.subtotal
                                                       - placed.discount)
                              + placed.shipping + placed.wrapping
                              - placed.referral)
<1>1. /\ placed.subtotal = ValueOf(InCart)
      /\ placed.discount = CouponDiscount + SumOver(ShopsInCart, BundleDiscount)
      /\ placed.referral = PercentOf(ValueOf(InCart), market.referral)
      /\ placed.wrapping = IF basket.wrap /\ ~DigitalOnly
                             THEN GiftWrappingPrice ELSE 0
      /\ placed.total =
           NotBelowZero(NotBelowZero(placed.subtotal - CouponDiscount
                                       - SumOver(ShopsInCart, BundleDiscount))
                          + placed.shipping + placed.wrapping - placed.referral)
  BY DEF OrderTotals
<1>2. ValueOf(InCart) \in Nat /\ CouponDiscount \in Nat
  BY ValuesAreNat, CouponIsNat
<1>3. SumOver(ShopsInCart, BundleDiscount) \in Nat
  <2>1. PICK f : f = [s \in ShopsInCart |-> BundleDiscount(s)]
    OBVIOUS
  <2>2. f \in [ShopsInCart -> Nat] /\ IsFiniteSet(ShopsInCart)
    BY <2>1, BundlesAreNat, CartIsFinite
  <2> QED
    BY <2>1, <2>2, SumOfNats DEF SumOver
<1>4. market.referral \in Nat
  BY TermsAssumption DEF PriceInputs, Market
<1>5. placed.referral \in Nat /\ placed.wrapping \in Nat
  <2>1. PercentOf(ValueOf(InCart), market.referral) \in Nat
    BY <1>2, <1>4, PercentIsNat
  <2>2. placed.wrapping \in Nat
    BY <1>1 DEF GiftWrappingPrice
  <2> QED
    BY <1>1, <2>1, <2>2
<1>6. placed.shipping \in Nat
  <2>1. PICK credit, subsidy :
          /\ credit = [s \in ShopsInCart |-> ShippingFor(QuoteOf(s)).sellerCredit]
          /\ subsidy = [s \in ShopsInCart |->
                          ShippingFor(QuoteOf(s)).platformSubsidy]
    OBVIOUS
  <2>2. \A s \in ShopsInCart :
          /\ credit[s] = ShippingFor(QuoteOf(s)).sellerCredit
          /\ subsidy[s] = ShippingFor(QuoteOf(s)).platformSubsidy
    BY <2>1
  <2> QED
    BY <2>2, DeliveryAddsUp
<1>7. placed.subtotal - CouponDiscount - SumOver(ShopsInCart, BundleDiscount)
        = placed.subtotal - placed.discount
  BY <1>1, <1>2, <1>3
<1>8. placed.discount \in Int /\ placed.subtotal \in Nat
  BY <1>1, <1>2, <1>3
<1>9. placed.total = NotBelowZero(NotBelowZero(placed.subtotal - placed.discount)
                                    + placed.shipping + placed.wrapping
                                    - placed.referral)
  BY <1>1, <1>7
<1>10. placed.total \in Nat
  BY <1>5, <1>6, <1>8, <1>9 DEF NotBelowZero
<1> QED
  BY <1>5, <1>6, <1>8, <1>9, <1>10

LEMMA OrderAddsUp ==
  ASSUME PriceInputs, ~TillRefuses, placed = OrderTotals
  PROVE  SharesAddUp
<1> DEFINE K == ShopsInCart
           credit == [s \in K |-> placed.stores[s]["credit"]]
           subsidy == [s \in K |-> placed.stores[s]["subsidy"]]
           subtotal == [s \in K |-> placed.stores[s]["subtotal"]]
           discount == [s \in K |-> placed.stores[s]["discount"]]
<1>1. \A s \in K : placed.stores[s] = StoreOrderOf(s)
  BY DEF OrderTotals
<1>2. \A s \in K : /\ credit[s] = ShippingFor(QuoteOf(s)).sellerCredit
                  /\ subsidy[s] = ShippingFor(QuoteOf(s)).platformSubsidy
                  /\ subtotal[s] = ValueOf(LinesOf(s))
                  /\ discount[s] = StoreDiscount(s)
                  /\ placed.stores[s].subtotal = ValueOf(LinesOf(s))
  <2> TAKE s \in K
  <2>1. /\ credit[s] = StoreOrderOf(s).credit
        /\ subsidy[s] = StoreOrderOf(s).subsidy
        /\ subtotal[s] = StoreOrderOf(s).subtotal
        /\ discount[s] = StoreOrderOf(s).discount
        /\ placed.stores[s].subtotal = StoreOrderOf(s).subtotal
    BY <1>1
  <2>2. /\ StoreOrderOf(s).credit = ShippingFor(QuoteOf(s)).sellerCredit
        /\ StoreOrderOf(s).subsidy = ShippingFor(QuoteOf(s)).platformSubsidy
        /\ StoreOrderOf(s).subtotal = ValueOf(LinesOf(s))
        /\ StoreOrderOf(s).discount = StoreDiscount(s)
    BY DEF StoreOrderOf
  <2> QED
    BY ONLY <2>1, <2>2
<1>3. /\ placed.subtotal = ValueOf(InCart)
      /\ placed.discount = CouponDiscount + SumOver(ShopsInCart, BundleDiscount)
  BY DEF OrderTotals
<1>4. \A s : CouponOf(s) = IF market.coupon # NoCoupon /\ market.coupon.shop = s
                             THEN CouponDiscount ELSE 0
  BY DEF CouponOf
<1> HIDE DEF credit, subsidy, subtotal, discount
<1>5. /\ placed.shipping = SumFunctionOnSet(credit, K)
      /\ placed.subsidy = SumFunctionOnSet(subsidy, K)
  BY <1>2, DeliveryAddsUp
<1>6. placed.subtotal = SumFunctionOnSet(subtotal, K)
  BY <1>2, <1>3, GoodsAddUp
<1>7. ASSUME \A s \in K : CouponOf(s) + BundleDiscount(s)
                            <= placed.stores[s].subtotal
      PROVE  /\ SumFunctionOnSet(discount, K) \in Int
             /\ placed.discount
                  = SumFunctionOnSet(discount, K) + CouponOf(Platform)
  BY <1>2, <1>3, <1>7, DiscountsAddUp
<1>8. CouponOf(Platform) \in Int
  BY CouponIsNat DEF CouponOf
<1>9. ASSUME \A s \in K : CouponOf(s) + BundleDiscount(s)
                            <= placed.stores[s].subtotal,
             placed.total > 0, placed.discount <= placed.subtotal
      PROVE  placed.total - placed.wrapping
               = SumFunctionOnSet(subtotal, K) - SumFunctionOnSet(discount, K)
                   + SumFunctionOnSet(credit, K) - CouponOf(Platform)
                   - placed.referral
  <2>1. /\ placed.discount
             = SumFunctionOnSet(discount, K) + CouponOf(Platform)
        /\ SumFunctionOnSet(discount, K) \in Int
    BY <1>7, <1>9
  <2>2. placed.total - placed.wrapping
          = placed.subtotal - placed.discount + placed.shipping - placed.referral
    BY <1>9, TotalIsNat DEF NotBelowZero
  <2>3. placed.subtotal \in Nat /\ placed.shipping \in Nat /\ placed.referral \in Nat
    BY TotalIsNat
  <2> QED
    BY ONLY <1>5, <1>6, <1>8, <2>1, <2>2, <2>3
<1>10. /\ SumOver(K, LAMBDA s : placed.stores[s]["credit"])
            = SumFunctionOnSet(credit, K)
       /\ SumOver(K, LAMBDA s : placed.stores[s]["subsidy"])
            = SumFunctionOnSet(subsidy, K)
       /\ SumOver(K, LAMBDA s : placed.stores[s]["subtotal"])
            = SumFunctionOnSet(subtotal, K)
       /\ SumOver(K, LAMBDA s : placed.stores[s]["discount"])
            = SumFunctionOnSet(discount, K)
  BY DEF SumOver, SumFunction, credit, subsidy, subtotal, discount
<1> QED
  BY <1>4, <1>5, <1>6, <1>7, <1>9, <1>10 DEF SharesAddUp

-----------------------------------------------------------------------------
(* The badge and the cart page                                             *)

\* Where every listing has the badge, no seller asks for delivery.
LEMMA BadgesCostNothing ==
  ASSUME PriceInputs, NEW s, Resolvable(LinesOf(s)),
         \A l \in LinesOf(s) : BadgedFree(market.profiles[Catalogue[l].profile])
  PROVE  SellerShippingCost(s) = 0
<1> DEFINE method(name) ==
             CHOOSE m \in MethodFor(market.profiles[name], basket.country) : TRUE
           cost(name) == MethodCost(method(name), GroupQuantity(s, name))
<1>1. ASSUME NEW name \in ProfilesOf(LinesOf(s)) PROVE cost(name) = 0
  <2>1. PICK l \in LinesOf(s) : name = Catalogue[l].profile
    BY DEF ProfilesOf
  <2>2. method(name) \in MethodFor(market.profiles[name], basket.country)
    BY DEF Resolvable
  <2>3. PICK to \in DOMAIN market.profiles[name].methods :
          method(name) = market.profiles[name].methods[to]
    BY <2>2 DEF MethodFor
  <2>4. \/ method(name).free
        \/ method(name).price = 0 /\ method(name).extra = 0
    BY <2>1, <2>3 DEF BadgedFree
  <2>5. NotBelowZero(GroupQuantity(s, name) - 1) \in Nat
    <3>1. {l2 \in LinesOf(s) : Catalogue[l2].profile = name} \in SUBSET InCart
      BY CartIsFinite
    <3>2. GroupQuantity(s, name) \in Nat
      BY <3>1, QuantitiesAreNat DEF GroupQuantity
    <3> QED
      BY <3>2 DEF NotBelowZero
  <2> HIDE DEF method
  <2> QED
    BY <2>4, <2>5 DEF MethodCost
<1>2. IsFiniteSet(ProfilesOf(LinesOf(s)))
  BY ProfilesAreFinite
<1>3. PICK f : f = [name \in ProfilesOf(LinesOf(s)) |-> cost(name)]
  OBVIOUS
<1>4. \A name \in ProfilesOf(LinesOf(s)) : f[name] = 0
  BY <1>1, <1>3
<1>5. SellerShippingCost(s) = SumFunctionOnSet(f, ProfilesOf(LinesOf(s)))
  BY <1>3 DEF SellerShippingCost, SumOver, SumFunction
<1> QED
  BY <1>2, <1>4, <1>5, SumOfZeros

LEMMA BadgeIsTrue ==
  ASSUME PriceInputs, ~TillRefuses, placed = OrderTotals
  PROVE  BadgeNeverLies
<1> SUFFICES ASSUME SellersShip,
                    \A l \in InCart :
                      BadgedFree(market.profiles[Catalogue[l].profile])
             PROVE  placed.shipping = 0 /\ placed.subsidy = 0
  BY DEF BadgeNeverLies
<1>1. PICK q : q = [s \in ShopsInCart |-> QuoteOf(s)]
  OBVIOUS
<1>2. ASSUME NEW s \in ShopsInCart PROVE q[s] = 0
  <2>1. Resolvable(LinesOf(s))
    BY DEF TillRefuses, SellersShip, Resolvable, ProfilesOf, LinesOf
  <2>2. \A l \in LinesOf(s) : BadgedFree(market.profiles[Catalogue[l].profile])
    BY DEF LinesOf
  <2>3. SellerShippingCost(s) = 0
    BY <2>1, <2>2, BadgesCostNothing
  <2> QED
    BY <1>1, <2>3 DEF QuoteOf, SellersShip
<1>3. SumOver(ShopsInCart, QuoteOf) = 0
  <2>1. SumFunctionOnSet(q, ShopsInCart) = 0
    BY <1>2, CartIsFinite, SumOfZeros
  <2> QED
    BY <1>1, <2>1 DEF SumOver, SumFunction
<1>4. /\ placed.shipping = ShippingFor(0).buyerCharge
      /\ placed.subsidy = ShippingFor(0).platformSubsidy
  BY <1>3 DEF OrderTotals
<1> QED
  BY <1>4 DEF ShippingFor, Settlement

Shown == [known |-> TRUE, subtotal |-> CartSubtotal(Anywhere),
          estimate |-> ShippingEstimate]

\* The cart page knows no country and so every sale: it is never dearer.
LEMMA CartPriceMatches ==
  ASSUME PriceInputs, AllPriced
  PROVE  /\ CartSubtotal(basket.country) = ValueOf(InCart)
         /\ CartSubtotal(Anywhere) <= ValueOf(InCart)
         /\ (\A p \in market.sales : p.country = Anywhere)
              => CartSubtotal(Anywhere) = ValueOf(InCart)
<1> DEFINE sales(l, country) == {p \in market.sales : OnSale(p, l, country)}
<1>1. \A l \in InCart : \A country :
        CartPrice(l, country)
          = ApplyBestPromo(Catalogue[l].price, sales(l, country))
  BY DEF AllPriced, CartPrice
<1>2. \A l \in InCart : UnitPrice(l) = CartPrice(l, basket.country)
  BY <1>1 DEF UnitPrice
<1>3. \A p \in market.sales : p.value \in Nat
  BY TermsAssumption DEF PriceInputs, Market
<1>4. ASSUME NEW l \in InCart
      PROVE  /\ CartPrice(l, Anywhere) \in Nat /\ UnitPrice(l) \in Nat
             /\ CartPrice(l, Anywhere) <= UnitPrice(l)
             /\ basket.quantity[l] \in Nat
  <2>1. l \in Lines /\ basket.quantity[l] \in Nat /\ Catalogue[l].price \in Nat
    BY CartIsFinite, TermsAssumption
  <2>2. sales(l, basket.country) \in SUBSET sales(l, Anywhere)
    BY DEF OnSale, OpenTo
  <2>3. \A p \in sales(l, Anywhere) : p.value \in Nat
    BY <1>3
  <2> HIDE DEF sales
  <2>4. ApplyBestPromo(Catalogue[l].price, sales(l, Anywhere))
          <= ApplyBestPromo(Catalogue[l].price, sales(l, basket.country))
    BY <2>1, <2>2, <2>3, MoreSales
  <2> QED
    BY <1>1, <1>2, <2>1, <2>4, PricesAreNat
<1>5. ASSUME \A p \in market.sales : p.country = Anywhere
      PROVE  \A l \in InCart : CartPrice(l, Anywhere) = UnitPrice(l)
  <2>1. \A l : sales(l, Anywhere) = sales(l, basket.country)
    BY <1>5 DEF OnSale, OpenTo
  <2> HIDE DEF sales
  <2> QED
    BY <1>1, <1>2, <2>1
<1>6. PICK value, page, asked :
        /\ value = [l \in InCart |-> UnitPrice(l) * basket.quantity[l]]
        /\ page = [l \in InCart |-> CartPrice(l, Anywhere) * basket.quantity[l]]
        /\ asked = [l \in InCart |->
                      CartPrice(l, basket.country) * basket.quantity[l]]
  OBVIOUS
<1>7. /\ ValueOf(InCart) = SumFunctionOnSet(value, InCart)
      /\ CartSubtotal(Anywhere) = SumFunctionOnSet(page, InCart)
      /\ CartSubtotal(basket.country) = SumFunctionOnSet(asked, InCart)
  BY <1>6 DEF ValueOf, CartSubtotal, SumOver, SumFunction
<1>8. IsFiniteSet(InCart)
  BY CartIsFinite
<1>9. value = asked
  BY <1>2, <1>6
<1>10. ASSUME NEW l \in InCart
       PROVE  value[l] \in Int /\ page[l] \in Int /\ page[l] <= value[l]
  <2>1. \A a, b, n \in Nat : a <= b => a * n <= b * n
    OBVIOUS
  <2>2. /\ CartPrice(l, Anywhere) * basket.quantity[l] \in Int
        /\ UnitPrice(l) * basket.quantity[l] \in Int
        /\ CartPrice(l, Anywhere) * basket.quantity[l]
             <= UnitPrice(l) * basket.quantity[l]
    BY <1>4, <2>1
  <2> QED
    BY <1>6, <2>2
<1>11. SumFunctionOnSet(page, InCart) <= SumFunctionOnSet(value, InCart)
  BY <1>8, <1>10, SumGrows
<1>12. ASSUME \A p \in market.sales : p.country = Anywhere PROVE page = value
  BY <1>5, <1>6, <1>12
<1> QED
  BY <1>7, <1>9, <1>11, <1>12

\* The estimate settles what the sellers ask shop by shop, checkout at once.
LEMMA EstimateMatches ==
  ASSUME PriceInputs, ~TillRefuses, placed = OrderTotals, AllPriced, SellersShip
  PROVE  /\ ShippingEstimate.resolvable
         /\ ShippingEstimate.cost = placed.shipping
         /\ ShippingEstimate.subsidy = placed.subsidy
<1> DEFINE physical == {l \in InCart : ~Catalogue[l].digital}
           settled(s) ==
             Settlement(SellerShippingCost(s),
                        QualifiesForFreeShipping(CartSubtotal(EstimateCountry)),
                        CouponFreeShipping)
           shops == {Catalogue[l].shop : l \in physical}
           charge == [s \in ShopsInCart |-> settled(s).buyerCharge]
           subsidy == [s \in ShopsInCart |-> settled(s).platformSubsidy]
<1>1. physical = InCart /\ shops = ShopsInCart
  BY DEF SellersShip, TillRefuses, MixedCart, ShopsInCart
<1>2. Resolvable(physical)
  BY <1>1 DEF TillRefuses, SellersShip
<1>3. ShippingEstimate
        = [resolvable |-> TRUE,
           cost |-> SumFunction([s \in shops |-> settled(s).buyerCharge]),
           subsidy |-> SumFunction([s \in shops |-> settled(s).platformSubsidy])]
  BY <1>2 DEF ShippingEstimate, SumOver
<1>4. /\ ShippingEstimate.resolvable
      /\ ShippingEstimate.cost = SumFunctionOnSet(charge, ShopsInCart)
      /\ ShippingEstimate.subsidy = SumFunctionOnSet(subsidy, ShopsInCart)
  <2> HIDE DEF settled, shops, physical
  <2> QED
    BY <1>1, <1>3 DEF SumFunction
<1>5. PICK q : q = [s \in ShopsInCart |-> QuoteOf(s)]
  OBVIOUS
<1>6. IsFiniteSet(ShopsInCart) /\ q \in [ShopsInCart -> Nat]
  BY <1>5, CartIsFinite, QuotesAreNat
<1>7. \A s \in ShopsInCart : settled(s) = ShippingFor(q[s])
  <2>1. CartSubtotal(EstimateCountry) = ValueOf(InCart)
    BY CartPriceMatches DEF EstimateCountry
  <2>2. \A s \in ShopsInCart : q[s] = SellerShippingCost(s)
    BY <1>5 DEF QuoteOf, SellersShip
  <2> QED
    BY <2>1, <2>2 DEF ShippingFor
<1>8. /\ \A s \in ShopsInCart : charge[s] = ShippingFor(q[s]).buyerCharge
      /\ \A s \in ShopsInCart : subsidy[s] = ShippingFor(q[s]).platformSubsidy
  <2> HIDE DEF settled
  <2> QED
    BY <1>7
<1> HIDE DEF charge, subsidy
<1>9. /\ SumFunctionOnSet(charge, ShopsInCart)
            = ShippingFor(SumFunctionOnSet(q, ShopsInCart)).buyerCharge
      /\ SumFunctionOnSet(subsidy, ShopsInCart)
            = ShippingFor(SumFunctionOnSet(q, ShopsInCart)).platformSubsidy
  BY <1>6, <1>8, SettledTogether
<1>10. SumOver(ShopsInCart, QuoteOf) = SumFunctionOnSet(q, ShopsInCart)
  BY <1>5 DEF SumOver, SumFunction
<1>11. /\ placed.shipping
            = ShippingFor(SumFunctionOnSet(q, ShopsInCart)).buyerCharge
       /\ placed.subsidy
            = ShippingFor(SumFunctionOnSet(q, ShopsInCart)).platformSubsidy
  BY <1>10 DEF OrderTotals
<1> QED
  BY <1>4, <1>9, <1>11

-----------------------------------------------------------------------------
(* The inductive invariant                                                 *)

\* The terms are what they were; what was shown and what was written is what
\* the two services make of them.
PriceInv ==
  /\ PriceInputs
  /\ \/ preview = NotYet
     \/ preview = Shown /\ ~MixedCart
  /\ \/ placed = NotYet
     \/ placed = Refused /\ TillRefuses
     \/ placed = OrderTotals /\ ~TillRefuses

\* Both work from the terms alone.
LEMMA TermsStay ==
  ASSUME UNCHANGED <<market, basket>>
  PROVE  /\ PriceInputs' = PriceInputs /\ MixedCart' = MixedCart
         /\ TillRefuses' = TillRefuses
         /\ OrderTotals' = OrderTotals /\ Shown' = Shown
<1>1. /\ InCart' = InCart /\ DigitalOnly' = DigitalOnly
      /\ MixedCart' = MixedCart /\ PriceInputs' = PriceInputs
  BY DEF InCart, DigitalOnly, MixedCart, PriceInputs
<1>2. TillRefuses' = TillRefuses
  BY <1>1 DEF TillRefuses, CouponRefused, CouponLines, ValueOf, UnitPrice,
              SumOver, InCart, Resolvable
<1>3. OrderTotals' = OrderTotals
  BY DEF OrderTotals, StoreOrderOf, ValueOf, UnitPrice, SumOver, InCart,
         ShopsInCart, DigitalOnly, LinesOf, LinesOfGood, BundleDiscount,
         BundleMatches, BundleSets, CouponDiscount, CouponLines, CouponShare,
         StoreDiscount, ShippingFor, QualifiesForFreeShipping,
         CouponFreeShipping, QuoteOf, SellerShippingCost, GroupQuantity
<1>4. Shown' = Shown
  BY DEF Shown, CartSubtotal, CartPrice, SumOver, InCart, ShippingEstimate,
         Resolvable, LinesOf, QualifiesForFreeShipping, CouponFreeShipping,
         SellerShippingCost, GroupQuantity, EstimateCountry
<1> QED
  BY <1>1, <1>2, <1>3, <1>4

LEMMA PriceStepInv == PriceInv /\ [PriceNext]_priceVars => PriceInv'
<1> SUFFICES ASSUME PriceInv, [PriceNext]_priceVars PROVE PriceInv'
  OBVIOUS
<1>1. UNCHANGED <<market, basket>>
  BY DEF PriceNext, ShowCart, Checkout, priceVars
<1>2. /\ PriceInputs' = PriceInputs /\ MixedCart' = MixedCart
      /\ TillRefuses' = TillRefuses
      /\ OrderTotals' = OrderTotals /\ Shown' = Shown
  BY <1>1, TermsStay
<1>3. CASE ShowCart
  BY <1>2, <1>3 DEF PriceInv, ShowCart, Shown
<1>4. CASE Checkout
  <2>1. placed' = IF TillRefuses THEN Refused ELSE OrderTotals
    BY <1>4 DEF Checkout, TillRefuses
  <2> QED
    BY <1>2, <1>4, <2>1 DEF PriceInv, Checkout
<1>5. CASE UNCHANGED priceVars
  BY <1>2, <1>5 DEF PriceInv, priceVars
<1> QED
  BY <1>3, <1>4, <1>5 DEF PriceNext

LEMMA PriceInitInv == PriceInit => PriceInv
<1> SUFFICES ASSUME PriceInit PROVE PriceInv
  OBVIOUS
<1>1. PriceInputs /\ preview = NotYet /\ placed = NotYet
  BY DEF PriceInit, PriceInputs
<1> QED
  BY <1>1 DEF PriceInv

LEMMA AlwaysPriceInv == PriceSpec => []PriceInv
BY PriceInitInv, PriceStepInv, PTL DEF PriceSpec

LEMMA NothingOrdered == placed \in {NotYet, Refused} => ~Ordered
BY DEF Ordered, NotYet, Refused

LEMMA PriceTypes == PriceInv => PriceTypeOK
<1> SUFFICES ASSUME PriceInv PROVE PriceTypeOK
  OBVIOUS
<1>1. placed = OrderTotals /\ ~TillRefuses => placed.total \in Nat
  BY TotalIsNat DEF PriceInv
<1> QED
  BY <1>1 DEF PriceInv, PriceInputs, PriceTypeOK, Shown

\* The market and the basket are of the terms admitted, and an order that was
\* placed has a total, never below zero.
THEOREM PriceTypeCorrect == PriceSpec => []PriceTypeOK
BY PriceTypes, AlwaysPriceInv, PTL

\* Whatever the catalogue, the sales, bundles, coupons, profiles and quotes:
\* the parts of the shops that checkout writes add up to the order it writes.
THEOREM SharesAlwaysAddUp == PriceSpec => []SharesAddUp
<1>1. PriceInv => SharesAddUp
  <2>1. ~Ordered => SharesAddUp
    BY DEF SharesAddUp
  <2> QED
    BY <2>1, OrderAddsUp, NothingOrdered DEF PriceInv
<1> QED
  BY <1>1, AlwaysPriceInv, PTL

\* A cart of listings with the badge of freeShippingListingIds is delivered
\* free wherever the sellers ship, whatever their profiles.
THEOREM BadgeNeverEverLies == PriceSpec => []BadgeNeverLies
<1>1. PriceInv => BadgeNeverLies
  <2>1. ~Ordered => BadgeNeverLies
    BY DEF BadgeNeverLies
  <2> QED
    BY <2>1, BadgeIsTrue, NothingOrdered DEF PriceInv
<1> QED
  BY <1>1, AlwaysPriceInv, PTL

\* What the cart page shows and the shipping estimate asks is what checkout
\* charges, whatever the catalogue and the terms.
THEOREM CartIsAlwaysCharged == PriceSpec => []CartIsCharged
<1>1. PriceInv => CartIsCharged
  <2> SUFFICES ASSUME PriceInv, preview.known, placed.known, AllPriced
               PROVE  /\ placed.accepted => CartPriceIsCharged /\ EstimateIsCharged
                      /\ SellersShip /\ preview.estimate.resolvable
                           => placed.accepted \/ CouponRefused
    BY DEF CartIsCharged
  <2>1. preview = Shown /\ ~MixedCart /\ PriceInputs
    BY DEF PriceInv, NotYet
  <2>2. /\ preview.subtotal = CartSubtotal(Anywhere)
        /\ preview.estimate = ShippingEstimate
    BY <2>1 DEF Shown
  <2>3. CASE placed = OrderTotals /\ ~TillRefuses
    <3>1. placed.accepted /\ placed.subtotal = ValueOf(InCart)
      BY <2>3 DEF OrderTotals
    <3>2. CartPriceIsCharged
      BY <2>1, <2>2, <3>1, CartPriceMatches DEF CartPriceIsCharged
    <3>3. EstimateIsCharged
      BY <2>1, <2>2, <2>3, EstimateMatches DEF EstimateIsCharged
    <3> QED
      BY <3>1, <3>2, <3>3
  <2>4. CASE placed = Refused /\ TillRefuses
    <3>1. ~placed.accepted
      BY <2>4 DEF Refused
    <3>2. ASSUME SellersShip, ShippingEstimate.resolvable, ~CouponRefused
          PROVE  FALSE
      <4>1. ~Resolvable(InCart)
        BY <2>1, <2>4, <3>2 DEF TillRefuses
      <4>2. {l \in InCart : ~Catalogue[l].digital} = InCart
        BY <2>1, <3>2 DEF SellersShip, MixedCart
      <4>3. ~Resolvable({l \in InCart : ~Catalogue[l].digital})
        BY <4>1, <4>2
      <4>4. ~ShippingEstimate.resolvable
        BY <4>3 DEF ShippingEstimate
      <4> QED
        BY <3>2, <4>4
    <3> QED
      BY <2>2, <3>1, <3>2
  <2> QED
    BY <2>3, <2>4 DEF PriceInv, NotYet
<1> QED
  BY <1>1, AlwaysPriceInv, PTL

-----------------------------------------------------------------------------
(* OfferCodes                                                              *)

-----------------------------------------------------------------------------
(* The inductive invariant                                                 *)

OffersType ==
  /\ offer \in [Offers -> OfferRow]
  /\ minted \in [Offers -> Nat]
  /\ reopened \in [Offers -> Nat]

Allowance == [most : 0 .. MaxUses, each : 0 .. MaxUses]

CodesType ==
  /\ code \in [Codes -> CodeRow]
  /\ usage \in [Codes -> [Users -> Nat]]
  /\ given \in [Codes -> Nat]
  /\ allowed \in [Codes -> Allowance]
  /\ edits \in 0 .. MaxEdits
  /\ online \in BOOLEAN

Answers == {"accept", "reject", "counter", "expire"}

TabsType ==
  /\ tabs \in [Tabs -> Tab]
  /\ \A t \in Tabs :
       /\ tabs[t].at \in Answers => tabs[t].on \in Offers
       /\ tabs[t].at = "redeem" => /\ tabs[t].code \in Codes
                                   /\ tabs[t].user \in Users

\* Row r of a code against what its shop ever allowed, a, and g discounts.
Within(r, a, g) ==
  /\ r.most <= a.most
  /\ online => g = r.uses /\ r.uses <= a.most
  /\ r.state = "none" => r.uses = 0

TotalKept == \A c \in Codes : Within(code[c], allowed[c], given[c])

OfferInv == OffersType /\ CodesType /\ TabsType /\ OneCodeEach /\ TotalKept

-----------------------------------------------------------------------------
LEMMA ShutTab == Shut \in Tab /\ Shut.at = "idle"
BY DEF Shut, Tab

\* A request begins, goes on or ends, with something to answer or redeem.
LEMMA TabTurns ==
  ASSUME TabsType, NEW t \in Tabs, NEW r \in Tab,
         r.at \in Answers => r.on \in Offers,
         r.at = "redeem" => r.code \in Codes /\ r.user \in Users,
         tabs' = [tabs EXCEPT ![t] = r]
  PROVE  TabsType'
BY DEF TabsType

LEMMA TabEnds ==
  ASSUME TabsType, NEW t \in Tabs, Done(t) PROVE TabsType'
BY ShutTab, TabTurns DEF Done, Answers

\* What haggling does not touch.
LEMMA CodesStay ==
  ASSUME OfferInv, UNCHANGED <<codeVars, online, edits>>
  PROVE  CodesType' /\ TotalKept'
BY DEF OfferInv, CodesType, TotalKept, Within, codeVars

\* What checkout and the shop do not touch.
LEMMA OffersStay ==
  ASSUME OfferInv, UNCHANGED haggleVars
  PROVE  OffersType' /\ OneCodeEach'
BY DEF OfferInv, OffersType, OneCodeEach, haggleVars

\* One offer gets a new row, its counts going along.
LEMMA OfferTurns ==
  ASSUME OfferInv, NEW o \in Offers, NEW r \in OfferRow,
         NEW m \in Nat, NEW n \in Nat,
         offer' = [offer EXCEPT ![o] = r],
         minted' = [minted EXCEPT ![o] = m],
         reopened' = [reopened EXCEPT ![o] = n],
         m = n + (IF r.status = "ACCEPTED" THEN 1 ELSE 0)
  PROVE  OffersType' /\ OneCodeEach'
<1>1. OffersType'
  BY DEF OfferInv, OffersType
<1>2. ASSUME NEW p \in Offers
      PROVE  minted'[p] = reopened'[p]
               + (IF offer'[p].status = "ACCEPTED" THEN 1 ELSE 0)
  <2>1. CASE p = o
    BY <2>1 DEF OfferInv, OffersType
  <2>2. CASE p # o
    BY <2>2 DEF OfferInv, OffersType, OneCodeEach
  <2> QED
    BY <2>1, <2>2
<1> QED
  BY <1>1, <1>2 DEF OneCodeEach

\* One code gets a new row, its allowance and discounts going along.
LEMMA CodeTurns ==
  ASSUME OfferInv, NEW c \in Codes, NEW r \in CodeRow, NEW a \in Allowance,
         NEW g \in Nat,
         code' = [code EXCEPT ![c] = r],
         allowed' = [allowed EXCEPT ![c] = a],
         given' = [given EXCEPT ![c] = g],
         usage' \in [Codes -> [Users -> Nat]], edits' \in 0 .. MaxEdits,
         UNCHANGED online, Within(r, a, g)
  PROVE  CodesType' /\ TotalKept'
<1>1. CodesType'
  BY DEF OfferInv, CodesType
<1>2. ASSUME NEW d \in Codes
      PROVE  Within(code'[d], allowed'[d], given'[d])
  <2>1. CASE d = c
    BY <2>1 DEF OfferInv, CodesType
  <2>2. CASE d # c
    BY <2>2 DEF OfferInv, CodesType, TotalKept
  <2> QED
    BY <2>1, <2>2
<1>3. ASSUME NEW d \in Codes
      PROVE  Within(code[d], allowed[d], given[d])'
  BY <1>2 DEF Within
<1> QED
  BY <1>1, <1>3 DEF TotalKept

\* A code with a cap in bounds is a row.
LEMMA FreshRow ==
  ASSUME NEW targeted \in BOOLEAN, NEW n \in 0 .. MaxUses, 1 \in 0 .. MaxUses
  PROVE  [state |-> "there", active |-> TRUE, lapsed |-> FALSE,
          targeted |-> targeted, uses |-> 0, most |-> n, each |-> 1] \in CodeRow
BY DEF CodeRow

-----------------------------------------------------------------------------
LEMMA OfferInitInv == OfferInit => OfferInv
<1> SUFFICES ASSUME OfferInit PROVE OfferInv
  OBVIOUS
<1>1. MaxUses \in Nat /\ 1 <= MaxUses /\ MaxEdits \in Nat
  BY OfferBoundsAssumption
<1>2. OffersType /\ OneCodeEach
  BY DEF OfferInit, OffersType, OneCodeEach, OfferRow, OfferStatus, Active
<1>3. TabsType
  BY ShutTab DEF OfferInit, TabsType, Answers
<1>4. NoCode \in CodeRow /\ [OneUse(FALSE) EXCEPT !.most = MaxUses] \in CodeRow
  <2>1. 0 \in 0 .. MaxUses /\ 1 \in 0 .. MaxUses /\ MaxUses \in 0 .. MaxUses
    BY <1>1
  <2>2. NoCode \in CodeRow
    BY <2>1 DEF NoCode, CodeRow
  <2>3. OneUse(FALSE) \in CodeRow
    BY <2>1, FreshRow DEF OneUse
  <2>4. \A r \in CodeRow : [r EXCEPT !.most = MaxUses] \in CodeRow
    BY <2>1 DEF CodeRow
  <2> QED
    BY <2>2, <2>3, <2>4
<1>5. CodesType
  <2>1. /\ code \in [Codes -> CodeRow] /\ usage \in [Codes -> [Users -> Nat]]
        /\ given \in [Codes -> Nat] /\ edits \in 0 .. MaxEdits
    BY <1>1, <1>4 DEF OfferInit
  <2>2. \A c \in Codes :
          [most |-> code[c].most, each |-> code[c].each] \in Allowance
    BY <2>1 DEF CodeRow, Allowance
  <2>3. allowed \in [Codes -> Allowance]
    BY <2>2 DEF OfferInit
  <2> QED
    BY <2>1, <2>3 DEF OfferInit, CodesType
<1>6. TotalKept
  <2>1. \A c \in Codes : /\ allowed[c].most = code[c].most
                         /\ given[c] = 0 /\ code[c].uses = 0
    BY DEF OfferInit, NoCode, OneUse
  <2>2. \A c \in Codes : code[c].most \in 0 .. MaxUses
    BY <1>5 DEF CodesType, CodeRow
  <2> QED
    BY <1>1, <2>1, <2>2 DEF TotalKept, Within
<1> QED
  BY <1>2, <1>3, <1>5, <1>6 DEF OfferInv

-----------------------------------------------------------------------------
\* Requests that read, and requests that end without a write.
LEMMA TabOnlyInv ==
  ASSUME OfferInv, NEW t \in Tabs,
         \/ MakeOffer(t) \/ FireOffer(t) \/ GiveUp(t)
         \/ \E o \in Offers, what \in DOMAIN AnswerTo : Answer(t, o, what)
         \/ \E c \in Codes, u \in Users : UseCoupon(t, c, u)
  PROVE  OfferInv'
<1>1. UNCHANGED <<haggleVars, codeVars, online, edits>>
  BY DEF MakeOffer, FireOffer, GiveUp, Answer, UseCoupon
<1>2. TabsType'
  <2>1. CASE MakeOffer(t)
    <3>1. [Shut EXCEPT !.at = "create"] \in Tab
          /\ [Shut EXCEPT !.at = "create"].at = "create"
      BY DEF Shut, Tab
    <3> QED
      BY <2>1, <3>1, TabTurns DEF MakeOffer, Go, OfferInv, Answers
  <2>2. CASE FireOffer(t)
    <3>1. [Shut EXCEPT !.at = "fire"] \in Tab
          /\ [Shut EXCEPT !.at = "fire"].at = "fire"
      BY DEF Shut, Tab
    <3> QED
      BY <2>2, <3>1, TabTurns DEF FireOffer, Go, OfferInv, Answers
  <2>3. CASE GiveUp(t)
    BY <2>3, TabEnds DEF GiveUp, OfferInv
  <2>4. ASSUME NEW o \in Offers, NEW what \in DOMAIN AnswerTo,
               Answer(t, o, what)
        PROVE  TabsType'
    <3>1. PICK at : at = IF offer[o].due THEN "expire" ELSE what
      OBVIOUS
    <3>2. at \in Answers
      BY <3>1 DEF AnswerTo, Answers
    <3> DEFINE r == [Shut EXCEPT !.at = at, !.on = o]
    <3>3. r \in Tab /\ r.at = at /\ r.on = o
      BY <3>2 DEF Shut, Tab, Answers
    <3>4. tabs' = [tabs EXCEPT ![t] = r]
      BY <2>4, <3>1 DEF Answer, Go
    <3> HIDE DEF r
    <3> QED
      BY <3>2, <3>3, <3>4, TabTurns DEF OfferInv, Answers
  <2>5. ASSUME NEW c \in Codes, NEW u \in Users, UseCoupon(t, c, u)
        PROVE  TabsType'
    <3> DEFINE r == [Shut EXCEPT !.at = "redeem", !.code = c, !.user = u]
    <3>1. r \in Tab /\ r.at = "redeem" /\ r.code = c /\ r.user = u
      BY DEF Shut, Tab
    <3>2. tabs' = [tabs EXCEPT ![t] = r]
      BY <2>5 DEF UseCoupon, Go
    <3> HIDE DEF r
    <3> QED
      BY <3>1, <3>2, TabTurns DEF OfferInv, Answers
  <2> QED
    BY <2>1, <2>2, <2>3, <2>4, <2>5
<1>3. UNCHANGED haggleVars /\ UNCHANGED <<codeVars, online, edits>>
  BY <1>1
<1> QED
  BY <1>2, <1>3, CodesStay, OffersStay DEF OfferInv

LEMMA CreateOfferInv ==
  ASSUME OfferInv, NEW t \in Tabs, NEW o \in Offers, CreateOffer(t, o)
  PROVE  OfferInv'
<1> DEFINE r == [status |-> "PENDING", due |-> FALSE]
<1>1. r \in OfferRow /\ r.status = "PENDING"
  BY DEF OfferRow, OfferStatus, Active
<1>2. offer' = [offer EXCEPT ![o] = r]
  BY DEF CreateOffer
<1>3. /\ minted[o] \in Nat /\ reopened[o] \in Nat
      /\ minted' = [minted EXCEPT ![o] = minted[o]]
      /\ reopened' = [reopened EXCEPT ![o] = reopened[o]]
  BY DEF CreateOffer, OfferInv, OffersType
<1>4. minted[o] = reopened[o] + (IF r.status = "ACCEPTED" THEN 1 ELSE 0)
  BY <1>1, <1>3 DEF CreateOffer, OfferInv, OneCodeEach
<1> HIDE DEF r
<1>5. OffersType' /\ OneCodeEach'
  BY <1>1, <1>2, <1>3, <1>4, OfferTurns
<1> QED
  BY <1>5, CodesStay, TabEnds DEF CreateOffer, OfferInv

\* Who writes over an acceptance counts it.
LEMMA OverwriteInv ==
  ASSUME OfferInv, NEW t \in Tabs, Overwrite(t) PROVE OfferInv'
<1>1. PICK o : o = tabs[t].on
  OBVIOUS
<1>2. PICK status : status = CASE tabs[t].at = "reject" -> "REJECTED"
                               [] tabs[t].at = "counter" -> "COUNTERED"
                               [] tabs[t].at = "expire" -> "EXPIRED"
  OBVIOUS
<1>3. o \in Offers /\ status \in {"REJECTED", "COUNTERED", "EXPIRED"}
  BY <1>1, <1>2 DEF Overwrite, OfferInv, TabsType, Answers
<1> DEFINE r == [offer[o] EXCEPT !.status = status]
<1>4. r \in OfferRow /\ r.status = status
  BY <1>3 DEF OfferInv, OffersType, OfferRow, OfferStatus, Active
<1>5. offer' = [offer EXCEPT ![o] = r]
  BY <1>1, <1>2 DEF Overwrite
<1>6. PICK n : n = IF offer[o].status = "ACCEPTED" THEN reopened[o] + 1
                                                   ELSE reopened[o]
  OBVIOUS
<1>7. reopened' = [reopened EXCEPT ![o] = n]
  BY <1>1, <1>3, <1>6 DEF Overwrite, OfferInv, OffersType
<1>8. /\ minted[o] \in Nat /\ n \in Nat /\ minted[o] = n
      /\ minted' = [minted EXCEPT ![o] = minted[o]]
  BY <1>3, <1>6 DEF Overwrite, OfferInv, OffersType, OneCodeEach
<1>9. minted[o] = n + (IF r.status = "ACCEPTED" THEN 1 ELSE 0)
  BY <1>3, <1>4, <1>8
<1> HIDE DEF r
<1>10. OffersType' /\ OneCodeEach'
  BY <1>3, <1>4, <1>5, <1>7, <1>8, <1>9, OfferTurns
<1> QED
  BY <1>10, CodesStay, TabEnds DEF Overwrite, OfferInv

\* A code made for an offer, or for an occasion.
LEMMA NewCode ==
  ASSUME OfferInv, NEW c \in Codes, NEW targeted \in BOOLEAN,
         code[c].state = "none",
         code' = [code EXCEPT ![c] = OneUse(targeted)],
         allowed' = [allowed EXCEPT ![c] = [most |-> 1, each |-> 1]],
         UNCHANGED <<usage, given, online, edits>>
  PROVE  CodesType' /\ TotalKept'
<1>1. PICK r : r = OneUse(targeted)
  OBVIOUS
<1>2. PICK a : a = [most |-> 1, each |-> 1]
  OBVIOUS
<1>3. /\ r \in CodeRow /\ r.most = 1 /\ r.uses = 0 /\ r.state = "there"
      /\ a \in Allowance /\ a.most = 1
  <2>1. 1 \in 0 .. MaxUses
    BY OfferBoundsAssumption
  <2> QED
    BY <1>1, <1>2, <2>1, FreshRow DEF OneUse, Allowance
<1>4. given[c] \in Nat /\ (online => given[c] = 0)
  BY DEF OfferInv, CodesType, TotalKept, Within
<1>5. Within(r, a, given[c])
  BY <1>3, <1>4 DEF Within
<1>6. /\ given' = [given EXCEPT ![c] = given[c]]
      /\ usage' \in [Codes -> [Users -> Nat]] /\ edits' \in 0 .. MaxEdits
  BY DEF OfferInv, CodesType
<1> QED
  BY <1>1, <1>2, <1>3, <1>4, <1>5, <1>6, CodeTurns

LEMMA AcceptInv ==
  ASSUME OfferInv, NEW t \in Tabs, NEW c \in Codes, Accept(t, c)
  PROVE  OfferInv'
<1>1. PICK o : o = tabs[t].on
  OBVIOUS
<1>2. o \in Offers /\ offer[o].status \in Active
  BY <1>1 DEF Accept, MayAccept, OfferInv, TabsType, Answers
<1> DEFINE r == [offer[o] EXCEPT !.status = "ACCEPTED"]
<1>3. r \in OfferRow /\ r.status = "ACCEPTED"
  BY <1>2 DEF OfferInv, OffersType, OfferRow, OfferStatus
<1>4. /\ offer' = [offer EXCEPT ![o] = r]
      /\ minted' = [minted EXCEPT ![o] = minted[o] + 1]
      /\ reopened' = [reopened EXCEPT ![o] = reopened[o]]
  BY <1>1, <1>2 DEF Accept, OfferInv, OffersType
<1>5. /\ minted[o] + 1 \in Nat /\ reopened[o] \in Nat
      /\ minted[o] = reopened[o]
  BY <1>2 DEF OfferInv, OffersType, OneCodeEach, Active
<1> HIDE DEF r
<1>6. OffersType' /\ OneCodeEach'
  BY <1>2, <1>3, <1>4, <1>5, OfferTurns
<1>7. CodesType' /\ TotalKept'
  BY NewCode DEF Accept
<1> QED
  BY <1>6, <1>7, TabEnds DEF Accept, OfferInv

LEMMA CreateTargetedInv ==
  ASSUME OfferInv, NEW t \in Tabs, NEW c \in Codes, CreateTargeted(t, c)
  PROVE  OfferInv'
<1>1. CodesType' /\ TotalKept'
  BY NewCode DEF CreateTargeted
<1> QED
  BY <1>1, OffersStay, TabEnds DEF CreateTargeted, OfferInv

\* Time passes for offers: none becomes, or ceases to be, ACCEPTED.
LEMMA TimePassesInv ==
  ASSUME OfferInv, ExpireStale \/ \E o \in Offers : OfferFallsDue(o)
  PROVE  OfferInv'
<1>1. /\ offer' \in [Offers -> OfferRow]
      /\ \A o \in Offers : (offer'[o].status = "ACCEPTED")
                             <=> (offer[o].status = "ACCEPTED")
  <2>1. CASE ExpireStale
    <3>1. \A o \in Offers : [offer[o] EXCEPT !.status = "EXPIRED"] \in OfferRow
      BY DEF OfferInv, OffersType, OfferRow, OfferStatus
    <3> QED
      BY <2>1, <3>1 DEF ExpireStale, Active, OfferInv, OffersType, OfferRow
  <2>2. ASSUME NEW o \in Offers, OfferFallsDue(o)
        PROVE  /\ offer' \in [Offers -> OfferRow]
               /\ \A p \in Offers : offer'[p].status = offer[p].status
    BY <2>2 DEF OfferFallsDue, OfferInv, OffersType, OfferRow
  <2> QED
    BY <2>1, <2>2
<1>2. UNCHANGED <<codeVars, minted, reopened, online, tabs, edits>>
  BY DEF ExpireStale, OfferFallsDue
<1>3. OffersType' /\ OneCodeEach'
  BY <1>1, <1>2 DEF OfferInv, OffersType, OneCodeEach
<1>4. TabsType'
  BY <1>2 DEF OfferInv, TabsType
<1>5. UNCHANGED <<codeVars, online, edits>>
  BY <1>2
<1> QED
  BY <1>3, <1>4, <1>5, CodesStay DEF OfferInv

LEMMA ShopInv ==
  ASSUME OfferInv, NEW c \in Codes,
         \/ CodeLapses(c) \/ RemoveCode(c)
         \/ \E form \in Forms : EditCode(c, form)
  PROVE  OfferInv'
<1>1. UNCHANGED haggleVars /\ UNCHANGED <<tabs, online, given, usage>>
  BY DEF CodeLapses, RemoveCode, EditCode, codeVars
<1>2. /\ code[c] \in CodeRow /\ allowed[c] \in Allowance /\ given[c] \in Nat
      /\ Within(code[c], allowed[c], given[c])
      /\ code[c].state = "there"
  BY DEF OfferInv, CodesType, TotalKept, CodeLapses, RemoveCode, EditCode
<1>3. /\ given' = [given EXCEPT ![c] = given[c]]
      /\ usage' \in [Codes -> [Users -> Nat]]
  BY <1>1 DEF OfferInv, CodesType
<1>4. CASE CodeLapses(c) \/ RemoveCode(c)
  <2>1. PICK r \in CodeRow : /\ code' = [code EXCEPT ![c] = r]
                             /\ r.most = code[c].most /\ r.uses = code[c].uses
                             /\ r.state # "none"
    <3>1. CASE CodeLapses(c)
      <4> DEFINE r == [code[c] EXCEPT !.lapsed = TRUE]
      <4>1. /\ r \in CodeRow /\ r.most = code[c].most
            /\ r.uses = code[c].uses /\ r.state = code[c].state
        BY <1>2 DEF CodeRow
      <4>2. code' = [code EXCEPT ![c] = r]
        BY <3>1 DEF CodeLapses
      <4> HIDE DEF r
      <4> QED
        BY <1>2, <4>1, <4>2
    <3>2. CASE RemoveCode(c)
      <4> DEFINE r == [code[c] EXCEPT !.state = "removed"]
      <4>1. /\ r \in CodeRow /\ r.most = code[c].most
            /\ r.uses = code[c].uses /\ r.state = "removed"
        BY <1>2 DEF CodeRow
      <4>2. code' = [code EXCEPT ![c] = r]
        BY <3>2 DEF RemoveCode
      <4> HIDE DEF r
      <4> QED
        BY <4>1, <4>2
    <3> QED
      BY <1>4, <3>1, <3>2
  <2>2. /\ allowed' = [allowed EXCEPT ![c] = allowed[c]]
        /\ edits' \in 0 .. MaxEdits
    BY <1>4 DEF CodeLapses, RemoveCode, OfferInv, CodesType
  <2>3. Within(r, allowed[c], given[c])
    BY <1>2, <2>1 DEF Within
  <2>4. CodesType' /\ TotalKept'
    BY <1>1, <1>2, <1>3, <2>1, <2>2, <2>3, CodeTurns
  <2> QED
    BY <1>1, <2>4, OffersStay DEF OfferInv, TabsType
<1>5. ASSUME NEW form \in Forms, EditCode(c, form) PROVE OfferInv'
  <2>1. /\ form.most \in 0 .. MaxUses /\ form.each \in 0 .. MaxUses
        /\ form.active \in BOOLEAN /\ form.lapsed \in BOOLEAN
    BY OfferBoundsAssumption
  <2> DEFINE r == [code[c] EXCEPT !.most = form.most, !.each = form.each,
                                  !.active = form.active,
                                  !.lapsed = form.lapsed]
  <2> DEFINE a == [most |-> AtLeast(allowed[c].most, form.most),
                   each |-> AtLeast(allowed[c].each, form.each)]
  <2>2. /\ r \in CodeRow /\ r.most = form.most /\ r.uses = code[c].uses
        /\ r.state = code[c].state
    BY <1>2, <2>1 DEF CodeRow
  <2>3. /\ a \in Allowance
        /\ form.most <= a.most /\ allowed[c].most <= a.most
    BY <1>2, <2>1, OfferBoundsAssumption DEF Allowance, AtLeast
  <2>4. code' = [code EXCEPT ![c] = r] /\ allowed' = [allowed EXCEPT ![c] = a]
    BY <1>5 DEF EditCode, OfferInv, CodesType
  <2>5. edits' \in 0 .. MaxEdits
    <3>1. edits \in 0 .. MaxEdits /\ edits < MaxEdits /\ edits' = edits + 1
      BY <1>5 DEF EditCode, OfferInv, CodesType
    <3> QED
      BY <3>1, OfferBoundsAssumption
  <2>6. a.most \in Int /\ allowed[c].most \in Int /\ code[c].uses \in Int
    BY <1>2, <2>3, OfferBoundsAssumption DEF Allowance, CodeRow
  <2> HIDE DEF r, a
  <2>7. Within(r, a, given[c])
    BY <1>2, <2>2, <2>3, <2>6 DEF Within
  <2>8. CodesType' /\ TotalKept'
    BY <1>1, <1>2, <1>3, <2>2, <2>3, <2>4, <2>5, <2>7, CodeTurns
  <2> QED
    BY <1>1, <2>8, OffersStay DEF OfferInv, TabsType
<1> QED
  BY <1>4, <1>5

\* Checkout's UPDATE asks for the cap the row has then.
LEMMA RedeemInv ==
  ASSUME OfferInv, NEW t \in Tabs, Redeem(t) PROVE OfferInv'
<1>1. PICK c : c = tabs[t].code
  OBVIOUS
<1>2. PICK u : u = tabs[t].user
  OBVIOUS
<1>3. c \in Codes /\ u \in Users
  BY <1>1, <1>2 DEF Redeem, OfferInv, TabsType
<1>4. /\ code[c] \in CodeRow /\ allowed[c] \in Allowance /\ given[c] \in Nat
      /\ usage[c] \in [Users -> Nat]
      /\ Within(code[c], allowed[c], given[c])
  BY <1>3 DEF OfferInv, CodesType, TotalKept
<1>5. /\ given' = [given EXCEPT ![c] = given[c] + 1]
      /\ allowed' = [allowed EXCEPT ![c] = allowed[c]]
      /\ UNCHANGED <<online, edits>> /\ UNCHANGED haggleVars /\ Done(t)
  BY <1>1, <1>3 DEF Redeem, OfferInv, CodesType
<1>6. edits' \in 0 .. MaxEdits /\ UNCHANGED online /\ given[c] + 1 \in Nat
  BY <1>4, <1>5 DEF OfferInv, CodesType
<1>7. CodesType' /\ TotalKept'
  <2>1. CASE online
    <3> DEFINE r == [code[c] EXCEPT !.uses = code[c].uses + 1]
    <3>1. /\ r \in CodeRow /\ r.most = code[c].most
          /\ r.uses = code[c].uses + 1 /\ r.state = code[c].state
      BY <1>4 DEF CodeRow
    <3>2. /\ code[c].state = "there" /\ code[c].uses < code[c].most
          /\ code' = [code EXCEPT ![c] = r]
          /\ usage' = [usage EXCEPT ![c][u] = @ + 1]
      BY <1>1, <1>2, <2>1 DEF Redeem
    <3>3. usage' \in [Codes -> [Users -> Nat]]
      BY <1>3, <3>2 DEF OfferInv, CodesType
    <3>4. /\ code[c].uses \in Int /\ code[c].most \in Int
          /\ allowed[c].most \in Int
      BY <1>4, OfferBoundsAssumption DEF CodeRow, Allowance
    <3> HIDE DEF r
    <3>5. Within(r, allowed[c], given[c] + 1)
      BY <1>4, <2>1, <3>1, <3>2, <3>4 DEF Within
    <3> QED
      BY <1>3, <1>4, <1>5, <1>6, <3>1, <3>2, <3>3, <3>5, CodeTurns
  <2>2. CASE ~online
    <3>1. /\ code' = [code EXCEPT ![c] = code[c]]
          /\ usage' \in [Codes -> [Users -> Nat]]
      BY <2>2 DEF Redeem, OfferInv, CodesType
    <3>2. Within(code[c], allowed[c], given[c] + 1)
      BY <1>4, <2>2 DEF Within
    <3> QED
      BY <1>3, <1>4, <1>5, <1>6, <3>1, <3>2, CodeTurns
  <2> QED
    BY <2>1, <2>2
<1> QED
  BY <1>5, <1>7, OffersStay, TabEnds DEF OfferInv

LEMMA OfferStepInv == OfferInv /\ [OfferNext]_offerVars => OfferInv'
<1> SUFFICES ASSUME OfferInv, [OfferNext]_offerVars PROVE OfferInv'
  OBVIOUS
<1>1. CASE UNCHANGED offerVars
  <2>1. UNCHANGED haggleVars /\ UNCHANGED <<codeVars, online, edits>>
        /\ UNCHANGED tabs
    BY <1>1 DEF offerVars, haggleVars, codeVars
  <2> QED
    BY <2>1, CodesStay, OffersStay DEF OfferInv, TabsType
<1>2. ASSUME NEW t \in Tabs,
             \/ MakeOffer(t) \/ FireOffer(t) \/ GiveUp(t)
             \/ \E o \in Offers, what \in DOMAIN AnswerTo : Answer(t, o, what)
             \/ \E c \in Codes, u \in Users : UseCoupon(t, c, u)
      PROVE  OfferInv'
  BY <1>2, TabOnlyInv
<1>3. ASSUME NEW t \in Tabs,
             \/ Overwrite(t) \/ Redeem(t)
             \/ \E o \in Offers : CreateOffer(t, o)
             \/ \E c \in Codes : Accept(t, c) \/ CreateTargeted(t, c)
      PROVE  OfferInv'
  BY <1>3, OverwriteInv, RedeemInv, CreateOfferInv, AcceptInv,
     CreateTargetedInv
<1>4. CASE ExpireStale \/ \E o \in Offers : OfferFallsDue(o)
  BY <1>4, TimePassesInv
<1>5. ASSUME NEW c \in Codes,
             \/ CodeLapses(c) \/ RemoveCode(c)
             \/ \E form \in Forms : EditCode(c, form)
      PROVE  OfferInv'
  BY <1>5, ShopInv
<1> QED
  BY <1>1, <1>2, <1>3, <1>4, <1>5 DEF OfferNext

LEMMA AlwaysOfferInv == OfferSpec => []OfferInv
BY OfferInitInv, OfferStepInv, PTL DEF OfferSpec

-----------------------------------------------------------------------------
\* Offers, promotions, their uses and the requests always have their types.
THEOREM OfferTypeCorrect == OfferSpec => []OfferTypeOK
<1>1. OfferInv => OfferTypeOK
  BY DEF OfferInv, OffersType, CodesType, TabsType, Allowance, OfferTypeOK
<1> QED
  BY <1>1, AlwaysOfferInv, PTL

\* An agreement gets one code, for any offers and overlapping requests: the
\* UPDATE of accept asks for the status, and makes the code with it.
THEOREM AlwaysOneCodeEach == OfferSpec => []OneCodeEach
<1>1. OfferInv => OneCodeEach
  BY DEF OfferInv
<1> QED
  BY <1>1, AlwaysOfferInv, PTL

\* What the shop can count on of a code, whoever the buyers are.
CodeTotalKept ==
  online => \A c \in Codes : given[c] = code[c].uses
                              /\ code[c].uses <= allowed[c].most

\* While payments are online every discount is on record, and no code is used
\* more often than its shop ever allowed, whatever checkouts overlap and
\* whatever the shop fills in: checkout's UPDATE asks for the cap.
THEOREM NeverOverTotal == OfferSpec => []CodeTotalKept
<1>1. OfferInv => CodeTotalKept
  BY DEF OfferInv, TotalKept, Within, CodeTotalKept
<1> QED
  BY <1>1, AlwaysOfferInv, PTL

-----------------------------------------------------------------------------
(* A buyer's own cap                                                       *)

\* The checkouts under way in which u redeems c.
Redeeming(c, u) == {t \in Tabs : /\ tabs[t].at = "redeem"
                                 /\ tabs[t].code = c /\ tabs[t].user = u}

UsesOnRecord ==
  \A c \in Codes : code[c].uses = SumFunctionOnSet(usage[c], Users)

\* Nobody redeems, or has used, a code before there is one.
NotBeforeItIs ==
  /\ \A c \in Codes : code[c].state = "none" => \A u \in Users : usage[c][u] = 0
  /\ \A t \in Tabs : tabs[t].at = "redeem" => code[tabs[t].code].state # "none"

\* What a buyer has used and is about to use.
BuyersCapped ==
  \A c \in Codes :
    /\ code[c].each <= allowed[c].each
    /\ \A u \in Buyers : usage[c][u] + Cardinality(Redeeming(c, u))
                           < allowed[c].each + Cardinality(Tabs)

CapsInv == OfferInv /\ UsesOnRecord /\ NotBeforeItIs /\ BuyersCapped

LEMMA TabsCounted ==
  ASSUME NEW S \in SUBSET Tabs
  PROVE  /\ IsFiniteSet(S) /\ Cardinality(S) \in Nat
         /\ Cardinality(S) <= Cardinality(Tabs)
         /\ Cardinality(Tabs) \in Nat /\ Cardinality(Tabs) > 0
<1>1. /\ IsFiniteSet(S) /\ IsFiniteSet(Tabs) /\ Tabs # {}
      /\ Cardinality(S) <= Cardinality(Tabs)
  BY OfferKeysAssumption, FS_Subset
<1>2. Cardinality(S) \in Nat /\ Cardinality(Tabs) \in Nat
  BY <1>1, FS_CardinalityType
<1>3. Cardinality(Tabs) # 0
  BY <1>1, FS_EmptySet
<1> QED
  BY <1>1, <1>2, <1>3

LEMMA FewerTabs ==
  ASSUME NEW S \in SUBSET Tabs, NEW T \in SUBSET S
  PROVE  Cardinality(T) <= Cardinality(S)
BY TabsCounted, FS_Subset

LEMMA CapTypes ==
  ASSUME OfferInv, NEW c \in Codes
  PROVE  /\ code[c].each \in Int /\ code[c].most \in Int
         /\ code[c].uses \in Nat
         /\ allowed[c].each \in Nat
         /\ \A u \in Users : usage[c][u] \in Nat
         /\ \A u : Redeeming(c, u) \in SUBSET Tabs
BY OfferBoundsAssumption DEF OfferInv, CodesType, CodeRow, Allowance, Redeeming

\* A step that uses no code: fewer redeem each, and no cap goes down.
LEMMA NobodyUses ==
  ASSUME CapsInv, OfferInv', UNCHANGED usage,
         \A c \in Codes :
           /\ code'[c].uses = code[c].uses
           /\ code'[c].state = "none" => code[c].state = "none"
           /\ code'[c].each <= allowed'[c].each
           /\ \/ allowed[c].each <= allowed'[c].each
              \/ code[c].state = "none" /\ allowed'[c].each \in Nat,
         \A t \in Tabs : tabs'[t].at = "redeem" => tabs'[t] = tabs[t]
  PROVE  CapsInv'
<1>1. UsesOnRecord'
  BY DEF CapsInv, UsesOnRecord
<1>2. NotBeforeItIs'
  <2>1. \A t \in Tabs : tabs[t].at = "redeem" => tabs[t].code \in Codes
    BY DEF CapsInv, OfferInv, TabsType
  <2> QED
    BY <2>1 DEF CapsInv, NotBeforeItIs
<1>3. BuyersCapped'
  <2> SUFFICES ASSUME NEW c \in Codes, NEW u \in Buyers
               PROVE  usage[c][u] + Cardinality(Redeeming(c, u)')
                        < allowed'[c].each + Cardinality(Tabs)
    BY DEF BuyersCapped
  <2>1. Redeeming(c, u)' \subseteq Redeeming(c, u)
    BY DEF Redeeming
  <2>2. /\ Redeeming(c, u) \in SUBSET Tabs /\ Redeeming(c, u)' \in SUBSET Tabs
        /\ usage[c][u] \in Nat /\ allowed[c].each \in Nat
        /\ allowed'[c].each \in Nat
    <3>1. u \in Users
      BY DEF Users
    <3>2. allowed'[c].each \in Nat
      BY OfferBoundsAssumption DEF OfferInv, CodesType, Allowance
    <3> QED
      BY <3>1, <3>2, <2>1, CapTypes DEF CapsInv
  <2>3. /\ Cardinality(Redeeming(c, u)') <= Cardinality(Redeeming(c, u))
        /\ Cardinality(Redeeming(c, u)') \in Nat
        /\ Cardinality(Redeeming(c, u)) \in Nat
        /\ Cardinality(Tabs) \in Nat /\ Cardinality(Tabs) > 0
    BY <2>1, <2>2, TabsCounted, FewerTabs
  <2>4. usage[c][u] + Cardinality(Redeeming(c, u))
          < allowed[c].each + Cardinality(Tabs)
    BY DEF CapsInv, BuyersCapped
  <2>5. CASE allowed[c].each <= allowed'[c].each
    BY <2>2, <2>3, <2>4, <2>5
  <2>6. CASE code[c].state = "none"
    <3>1. usage[c][u] = 0
      BY <2>6 DEF CapsInv, NotBeforeItIs, Users
    <3>2. Redeeming(c, u) = {}
      BY <2>6 DEF CapsInv, NotBeforeItIs, Redeeming
    <3>3. Redeeming(c, u)' = {}
      BY <2>1, <3>2
    <3>4. Cardinality(Redeeming(c, u)') = 0
      BY <3>3, FS_EmptySet
    <3> QED
      BY <2>2, <2>3, <3>1, <3>4
  <2> QED
    BY <2>5, <2>6
<1> QED
  BY <1>1, <1>2, <1>3 DEF CapsInv

\* The steps that write no code, and begin no checkout.
LEMMA OthersUseNone ==
  ASSUME CapsInv, OfferInv',
         \/ UNCHANGED offerVars
         \/ ExpireStale \/ \E o \in Offers : OfferFallsDue(o)
         \/ \E t \in Tabs :
              \/ MakeOffer(t) \/ FireOffer(t) \/ GiveUp(t) \/ Overwrite(t)
              \/ \E o \in Offers, what \in DOMAIN AnswerTo : Answer(t, o, what)
              \/ \E o \in Offers : CreateOffer(t, o)
  PROVE  CapsInv'
<1>1. UNCHANGED <<code, usage, allowed>>
  BY DEF offerVars, codeVars, ExpireStale, OfferFallsDue, MakeOffer, FireOffer,
     GiveUp, Overwrite, Answer, CreateOffer
<1>2. tabs \in [Tabs -> Tab]
  BY DEF CapsInv, OfferInv, TabsType
<1>3. ASSUME NEW t \in Tabs, tabs'[t].at = "redeem" PROVE tabs'[t] = tabs[t]
  <2>1. ASSUME NEW s \in Tabs, Done(s) PROVE tabs'[t] = tabs[t]
    BY <1>2, <1>3, <2>1, ShutTab DEF Done
  <2>2. ASSUME NEW s \in Tabs, NEW r, Go(s, r), r.at # "redeem"
        PROVE  tabs'[t] = tabs[t]
    BY <1>2, <1>3, <2>2 DEF Go
  <2>3. ASSUME NEW s \in Tabs, MakeOffer(s) PROVE tabs'[t] = tabs[t]
    BY <2>2, <2>3 DEF MakeOffer, Shut
  <2>4. ASSUME NEW s \in Tabs, FireOffer(s) PROVE tabs'[t] = tabs[t]
    BY <2>2, <2>4 DEF FireOffer, Shut
  <2>5. ASSUME NEW s \in Tabs, NEW o \in Offers, NEW what \in DOMAIN AnswerTo,
               Answer(s, o, what)
        PROVE  tabs'[t] = tabs[t]
    <3>1. PICK at : at = IF offer[o].due THEN "expire" ELSE what
      OBVIOUS
    <3>2. at # "redeem"
      BY <3>1 DEF AnswerTo
    <3>3. PICK r : r = [Shut EXCEPT !.at = at, !.on = o]
      OBVIOUS
    <3>4. Go(s, r) /\ r.at = at
      BY <2>5, <3>1, <3>3 DEF Answer, Shut
    <3> QED
      BY <2>2, <3>2, <3>4
  <2> QED
    BY <2>1, <2>3, <2>4, <2>5
    DEF offerVars, ExpireStale, OfferFallsDue, GiveUp, Overwrite, CreateOffer
<1>4. \A c \in Codes : /\ code[c].each <= allowed[c].each
                       /\ allowed[c].each \in Nat
  BY CapTypes DEF CapsInv, BuyersCapped
<1> QED
  BY <1>1, <1>3, <1>4, NobodyUses

\* A code that is made, edited, removed, or out of date.
LEMMA CodesChange ==
  ASSUME CapsInv, OfferInv', NEW c \in Codes,
         \/ \E t \in Tabs : Accept(t, c) \/ CreateTargeted(t, c)
         \/ CodeLapses(c) \/ RemoveCode(c)
         \/ \E form \in Forms : EditCode(c, form)
  PROVE  CapsInv'
<1>1. /\ code \in [Codes -> CodeRow] /\ code[c] \in CodeRow
      /\ allowed \in [Codes -> Allowance] /\ allowed[c] \in Allowance
      /\ tabs \in [Tabs -> Tab]
      /\ \A d \in Codes : /\ code[d].each <= allowed[d].each
                          /\ allowed[d].each \in Nat
  BY CapTypes DEF CapsInv, OfferInv, CodesType, TabsType, BuyersCapped
<1>2. UNCHANGED usage
  BY DEF Accept, CreateTargeted, CodeLapses, RemoveCode, EditCode
<1>3. ASSUME NEW t \in Tabs, tabs'[t].at = "redeem" PROVE tabs'[t] = tabs[t]
  BY <1>1, <1>3, ShutTab
  DEF Accept, CreateTargeted, Done, CodeLapses, RemoveCode, EditCode
<1>4. \A d \in Codes : d # c => code'[d] = code[d] /\ allowed'[d] = allowed[d]
  BY <1>1 DEF Accept, CreateTargeted, CodeLapses, RemoveCode, EditCode
<1>5. /\ code'[c].uses = code[c].uses
      /\ code'[c].state = "none" => code[c].state = "none"
      /\ code'[c].each <= allowed'[c].each
      /\ \/ allowed[c].each <= allowed'[c].each
         \/ code[c].state = "none" /\ allowed'[c].each \in Nat
  <2>1. ASSUME NEW t \in Tabs, Accept(t, c) \/ CreateTargeted(t, c)
        PROVE  <1>5!1 /\ <1>5!2 /\ <1>5!3 /\ <1>5!4
    <3>1. PICK targeted : code' = [code EXCEPT ![c] = OneUse(targeted)]
      BY <2>1 DEF Accept, CreateTargeted
    <3>2. code'[c].uses = 0 /\ code'[c].state = "there" /\ code'[c].each = 1
      BY <1>1, <3>1 DEF OneUse
    <3>3. allowed'[c].each = 1 /\ code[c].state = "none"
      <4>1. code[c].state = "none"
        BY <2>1 DEF Accept, CreateTargeted
      <4>2. allowed' = [allowed EXCEPT ![c] = [most |-> 1, each |-> 1]]
        BY <2>1 DEF Accept, CreateTargeted
      <4>3. allowed'[c] = [most |-> 1, each |-> 1]
        BY <1>1, <4>2
      <4> QED
        BY <4>1, <4>3
    <3>4. code[c].uses = 0
      BY <3>3 DEF CapsInv, OfferInv, TotalKept, Within
    <3> QED
      BY <3>2, <3>3, <3>4
  <2>2. CASE CodeLapses(c) \/ RemoveCode(c)
    BY <1>1, <2>2 DEF CodeLapses, RemoveCode, CodeRow
  <2>3. ASSUME NEW form \in Forms, EditCode(c, form)
        PROVE  <1>5!1 /\ <1>5!2 /\ <1>5!3 /\ <1>5!4
    <3>1. form.each \in Nat
      BY OfferBoundsAssumption
    <3>2. /\ code'[c].uses = code[c].uses /\ code'[c].state = code[c].state
          /\ code'[c].each = form.each
      BY <1>1, <2>3 DEF EditCode, CodeRow
    <3>3. allowed'[c].each = AtLeast(allowed[c].each, form.each)
      BY <1>1, <2>3 DEF EditCode
    <3> QED
      BY <1>1, <3>1, <3>2, <3>3 DEF AtLeast
  <2> QED
    BY <2>1, <2>2, <2>3
<1>6. \A d \in Codes :
           /\ code'[d].uses = code[d].uses
           /\ code'[d].state = "none" => code[d].state = "none"
           /\ code'[d].each <= allowed'[d].each
           /\ \/ allowed[d].each <= allowed'[d].each
              \/ code[d].state = "none" /\ allowed'[d].each \in Nat
  BY <1>1, <1>4, <1>5
<1> QED
  BY <1>2, <1>3, <1>6, NobodyUses

\* A checkout begins: the buyer's uses are below the cap, and the checkouts
\* under way are no more than there are.
LEMMA UseCouponCaps ==
  ASSUME CapsInv, OfferInv', NEW t \in Tabs, NEW c \in Codes, NEW u \in Users,
         UseCoupon(t, c, u)
  PROVE  CapsInv'
<1>1. PICK r : r = [Shut EXCEPT !.at = "redeem", !.code = c, !.user = u]
  OBVIOUS
<1>2. r.at = "redeem" /\ r.code = c /\ r.user = u
  BY <1>1 DEF Shut
<1>3. /\ tabs \in [Tabs -> Tab] /\ tabs' = [tabs EXCEPT ![t] = r]
      /\ UNCHANGED <<code, usage, allowed>>
  BY <1>1 DEF UseCoupon, Go, codeVars, CapsInv, OfferInv, TabsType
<1>4. UsesOnRecord'
  BY <1>3 DEF CapsInv, UsesOnRecord
<1>5. NotBeforeItIs'
  BY <1>2, <1>3 DEF CapsInv, NotBeforeItIs, UseCoupon, MayRedeem
<1>6. BuyersCapped'
  <2> SUFFICES ASSUME NEW d \in Codes, NEW v \in Buyers
               PROVE  usage[d][v] + Cardinality(Redeeming(d, v)')
                        < allowed[d].each + Cardinality(Tabs)
    BY <1>3 DEF BuyersCapped, CapsInv
  <2>1. usage[d][v] + Cardinality(Redeeming(d, v))
          < allowed[d].each + Cardinality(Tabs)
    BY DEF CapsInv, BuyersCapped
  <2>2. CASE d = c /\ v = u
    <3>1. u # Guest
      BY <2>2, OfferKeysAssumption
    <3>2. usage[d][v] < code[d].each /\ code[d].each <= allowed[d].each
      BY <2>2, <3>1 DEF UseCoupon, MayRedeem, CapsInv, BuyersCapped
    <3>3. Redeeming(d, v)' \in SUBSET Tabs
      BY DEF Redeeming
    <3>4. /\ usage[d][v] \in Nat /\ code[d].each \in Int
          /\ allowed[d].each \in Nat
      BY CapTypes DEF CapsInv, Users
    <3>5. /\ Cardinality(Redeeming(d, v)') <= Cardinality(Tabs)
          /\ Cardinality(Redeeming(d, v)') \in Nat
          /\ Cardinality(Tabs) \in Nat
      BY <3>3, TabsCounted
    <3> QED
      BY <3>2, <3>4, <3>5
  <2>3. CASE d # c \/ v # u
    <3>1. Redeeming(d, v)' \subseteq Redeeming(d, v)
      BY <1>2, <1>3, <2>3 DEF Redeeming
    <3>2. Redeeming(d, v) \in SUBSET Tabs /\ Redeeming(d, v)' \in SUBSET Tabs
      BY DEF Redeeming
    <3>3. /\ Cardinality(Redeeming(d, v)') <= Cardinality(Redeeming(d, v))
          /\ Cardinality(Redeeming(d, v)') \in Nat
          /\ Cardinality(Redeeming(d, v)) \in Nat /\ Cardinality(Tabs) \in Nat
      BY <3>1, <3>2, TabsCounted, FewerTabs
    <3>4. usage[d][v] \in Nat /\ allowed[d].each \in Nat
      BY CapTypes DEF CapsInv, Users
    <3> QED
      BY <2>1, <3>3, <3>4
  <2> QED
    BY <2>2, <2>3
<1> QED
  BY <1>4, <1>5, <1>6 DEF CapsInv

\* ... and ends with the use on record, or with nothing written.
LEMMA RedeemCaps ==
  ASSUME CapsInv, OfferInv', NEW t \in Tabs, Redeem(t) PROVE CapsInv'
<1>1. PICK c : c = tabs[t].code
  OBVIOUS
<1>2. PICK u : u = tabs[t].user
  OBVIOUS
<1>3. /\ c \in Codes /\ u \in Users /\ tabs \in [Tabs -> Tab]
      /\ code \in [Codes -> CodeRow] /\ usage \in [Codes -> [Users -> Nat]]
  BY <1>1, <1>2 DEF Redeem, CapsInv, OfferInv, TabsType, CodesType
<1>4. Done(t) /\ UNCHANGED allowed
  BY DEF Redeem
<1>5. \A s \in Tabs : tabs'[s].at = "redeem" => s # t /\ tabs'[s] = tabs[s]
  BY <1>3, <1>4, ShutTab DEF Done
<1>6. CASE ~online
  <2>1. UNCHANGED <<code, usage>>
    BY <1>6 DEF Redeem
  <2>2. \A d \in Codes : /\ code[d].each <= allowed[d].each
                         /\ allowed[d].each \in Nat
    BY CapTypes DEF CapsInv, BuyersCapped
  <2> QED
    BY <1>4, <1>5, <2>1, <2>2, NobodyUses
<1>7. CASE online
  <2>1. /\ code[c].state = "there"
        /\ code' = [code EXCEPT ![c].uses = @ + 1]
        /\ usage' = [usage EXCEPT ![c][u] = @ + 1]
    BY <1>1, <1>2, <1>7 DEF Redeem
  <2>2. /\ code'[c].uses = code[c].uses + 1
        /\ \A d \in Codes : /\ code'[d].each = code[d].each
                            /\ code'[d].state = code[d].state
                            /\ d # c => code'[d] = code[d]
    BY <1>3, <2>1 DEF CodeRow
  <2>3. /\ usage'[c] = [usage[c] EXCEPT ![u] = usage[c][u] + 1]
        /\ \A d \in Codes : d # c => usage'[d] = usage[d]
        /\ usage[c] \in [Users -> Nat]
    BY <1>3, <2>1
  <2>4. UsesOnRecord'
    <3>1. SumFunctionOnSet(usage'[c], Users)
            = SumFunctionOnSet(usage[c], Users) + 1
      <4>1. PICK was : was = usage[c]
        OBVIOUS
      <4>2. PICK now : now = usage'[c]
        OBVIOUS
      <4>3. PICK users : users = Users /\ IsFiniteSet(users)
        BY OfferKeysAssumption, FS_AddElement DEF Users
      <4>4. was \in [Users -> Nat] /\ now = [was EXCEPT ![u] = was[u] + 1]
        BY <2>3, <4>1, <4>2
      <4>5. /\ \A v \in users : was[v] \in Int /\ now[v] \in Int
            /\ \A v \in users : v # u => now[v] = was[v]
        BY <1>3, <2>3, <4>1, <4>2, <4>3, <4>4
      <4>6. now[u] = was[u] + 1 /\ was[u] \in Int /\ u \in users
        BY <1>3, <2>3, <4>1, <4>2, <4>3
      <4>7. /\ SumFunctionOnSet(was, users) \in Int
            /\ SumFunctionOnSet(now, users)
                 = SumFunctionOnSet(was, users) + now[u] - was[u]
        BY ONLY <4>3, <4>5, <4>6, SumChanges
      <4> QED
        BY <4>1, <4>2, <4>3, <4>6, <4>7
    <3>2. \A d \in Codes : code[d].uses = SumFunctionOnSet(usage[d], Users)
      BY DEF CapsInv, UsesOnRecord
    <3> QED
      BY <1>3, <2>2, <2>3, <3>1, <3>2 DEF UsesOnRecord
  <2>5. NotBeforeItIs'
    <3>1. \A d \in Codes : code'[d].state = "none" =>
            \A v \in Users : usage'[d][v] = 0
      BY <2>1, <2>2, <2>3 DEF CapsInv, NotBeforeItIs
    <3>2. \A s \in Tabs : tabs'[s].at = "redeem" =>
            code'[tabs'[s].code].state # "none"
      BY <1>5, <2>2 DEF CapsInv, NotBeforeItIs, OfferInv, TabsType
    <3> QED
      BY <3>1, <3>2 DEF NotBeforeItIs
  <2>6. BuyersCapped'
    <3>1. \A d \in Codes : code'[d].each <= allowed'[d].each
      BY <1>4, <2>2 DEF CapsInv, BuyersCapped
    <3>2. ASSUME NEW d \in Codes, NEW v \in Buyers
          PROVE  usage'[d][v] + Cardinality(Redeeming(d, v)')
                   < allowed[d].each + Cardinality(Tabs)
      <4>1. usage[d][v] + Cardinality(Redeeming(d, v))
              < allowed[d].each + Cardinality(Tabs)
        BY DEF CapsInv, BuyersCapped
      <4>2. /\ Redeeming(d, v) \in SUBSET Tabs
            /\ Redeeming(d, v)' \subseteq Redeeming(d, v) \ {t}
        BY <1>5 DEF Redeeming
      <4>3. /\ usage[d][v] \in Nat /\ allowed[d].each \in Nat /\ v \in Users
        BY CapTypes DEF CapsInv, Users
      <4>4. /\ IsFiniteSet(Redeeming(d, v)) /\ Cardinality(Redeeming(d, v)) \in Nat
            /\ Cardinality(Tabs) \in Nat
        BY <4>2, TabsCounted
      <4>5. Cardinality(Redeeming(d, v)') \in Nat
        BY <4>2, TabsCounted
      <4>6. CASE d = c /\ v = u
        <5>1. t \in Redeeming(d, v)
          BY <1>1, <1>2, <4>6 DEF Redeeming, Redeem
        <5>2. Cardinality(Redeeming(d, v) \ {t}) = Cardinality(Redeeming(d, v)) - 1
          BY <4>4, <5>1, FS_RemoveElement
        <5>3. Cardinality(Redeeming(d, v)') <= Cardinality(Redeeming(d, v) \ {t})
          BY <4>2, FewerTabs
        <5>4. usage'[d][v] = usage[d][v] + 1
          BY <1>3, <2>3, <4>6
        <5> QED
          BY <4>1, <4>3, <4>4, <4>5, <5>2, <5>3, <5>4
      <4>7. CASE d # c \/ v # u
        <5>1. usage'[d][v] = usage[d][v]
          BY <1>3, <2>3, <4>3, <4>7
        <5>2. Cardinality(Redeeming(d, v)') <= Cardinality(Redeeming(d, v))
          BY <4>2, FewerTabs
        <5> QED
          BY <4>1, <4>3, <4>4, <4>5, <5>1, <5>2
      <4> QED
        BY <4>6, <4>7
    <3> QED
      BY <1>4, <3>1, <3>2 DEF BuyersCapped
  <2> QED
    BY <2>4, <2>5, <2>6 DEF CapsInv
<1> QED
  BY <1>6, <1>7

LEMMA CapsInitInv == OfferInit => CapsInv
<1> SUFFICES ASSUME OfferInit PROVE CapsInv
  OBVIOUS
<1>1. OfferInv
  BY OfferInitInv
<1>2. /\ \A c \in Codes : /\ code[c].uses = 0 /\ code[c].each = allowed[c].each
                          /\ usage[c] = [u \in Users |-> 0]
      /\ \A t \in Tabs : tabs[t].at = "idle"
  BY ShutTab DEF OfferInit, NoCode, OneUse
<1>3. UsesOnRecord
  <2>1. IsFiniteSet(Users)
    BY OfferKeysAssumption, FS_AddElement DEF Users
  <2> QED
    BY <1>2, <2>1, SumOfZeros DEF UsesOnRecord
<1>4. NotBeforeItIs
  BY <1>2 DEF NotBeforeItIs
<1>5. BuyersCapped
  <2> SUFFICES ASSUME NEW c \in Codes
               PROVE  /\ code[c].each <= allowed[c].each
                      /\ \A u \in Buyers :
                           usage[c][u] + Cardinality(Redeeming(c, u))
                             < allowed[c].each + Cardinality(Tabs)
    BY DEF BuyersCapped
  <2>1. code[c].each \in Int /\ allowed[c].each \in Nat
    BY <1>1, CapTypes
  <2>2. \A u \in Buyers : usage[c][u] = 0 /\ Redeeming(c, u) = {}
    BY <1>2 DEF Redeeming, Users
  <2>3. Cardinality({}) = 0 /\ Cardinality(Tabs) \in Nat /\ Cardinality(Tabs) > 0
    BY FS_EmptySet, TabsCounted
  <2>4. code[c].each <= allowed[c].each
    BY <1>2, <2>1
  <2>5. \A u \in Buyers : Cardinality(Redeeming(c, u)) = 0
    BY <2>2, <2>3
  <2>6. \A u \in Buyers : usage[c][u] + Cardinality(Redeeming(c, u)) = 0
    BY <2>2, <2>5
  <2>7. 0 < allowed[c].each + Cardinality(Tabs)
    BY <2>1, <2>3
  <2> QED
    BY <2>4, <2>6, <2>7
<1> QED
  BY <1>1, <1>3, <1>4, <1>5 DEF CapsInv

LEMMA CapsStepInv == CapsInv /\ [OfferNext]_offerVars => CapsInv'
<1> SUFFICES ASSUME CapsInv, [OfferNext]_offerVars PROVE CapsInv'
  OBVIOUS
<1>1. OfferInv'
  BY OfferStepInv DEF CapsInv
<1> QED
  BY <1>1, OthersUseNone, CodesChange, UseCouponCaps, RedeemCaps DEF OfferNext

\* While payments are online a coupon is used as often as its rows say and no
\* more often than its shop ever allowed, and no buyer uses it more often than
\* the cap per user allows and checkouts can be under way at one time.
THEOREM CapsAlwaysKept == OfferSpec => []CapsKept
<1>1. CapsInv => CapsKept
  <2> SUFFICES ASSUME CapsInv, online, NEW c \in Codes
               PROVE  /\ given[c] = code[c].uses
                      /\ code[c].uses = SumFunction(usage[c])
                      /\ code[c].uses <= allowed[c].most
                      /\ \A u \in Buyers :
                           usage[c][u] < allowed[c].each + Cardinality(Tabs)
    BY DEF CapsKept
  <2>1. /\ given[c] = code[c].uses /\ code[c].uses <= allowed[c].most
        /\ usage[c] \in [Users -> Nat]
    BY DEF CapsInv, OfferInv, TotalKept, Within, CodesType
  <2>2. code[c].uses = SumFunction(usage[c])
    BY <2>1 DEF CapsInv, UsesOnRecord, SumFunction
  <2>3. ASSUME NEW u \in Buyers
        PROVE  usage[c][u] < allowed[c].each + Cardinality(Tabs)
    <3>1. usage[c][u] \in Nat /\ allowed[c].each \in Nat
      BY CapTypes DEF CapsInv, Users
    <3>2. /\ Cardinality(Redeeming(c, u)) \in Nat /\ Cardinality(Tabs) \in Nat
      BY TabsCounted DEF Redeeming
    <3>3. usage[c][u] + Cardinality(Redeeming(c, u))
            < allowed[c].each + Cardinality(Tabs)
      BY DEF CapsInv, BuyersCapped
    <3> QED
      BY <3>1, <3>2, <3>3
  <2> QED
    BY <2>1, <2>2, <2>3
<1> QED
  BY <1>1, CapsInitInv, CapsStepInv, PTL DEF OfferSpec

-----------------------------------------------------------------------------
(* The five services side by side                                          *)

moneyVars == <<service, affVars, sellerVars, cardVars, priceVars, offerVars>>

\* A step of the five is a step of the one the behaviour stays with, and one
\* that the others do not notice.
LEMMA OneServiceSteps ==
  ASSUME [Next]_moneyVars
  PROVE  /\ UNCHANGED service
         /\ [AffNext]_affVars /\ [SellerNext]_sellerVars /\ [CardNext]_cardVars
         /\ [PriceNext]_priceVars /\ [OfferNext]_offerVars
<1>1. CASE UNCHANGED moneyVars
  BY <1>1 DEF moneyVars
<1>2. ASSUME NEW h \in Handlers,
             \/ \E o \in Purchases : Paying /\ ReadForCreate(h, o)
             \/ \E o \in Purchases : Paying /\ ReadForConfirm(h, o)
             \/ \E o \in Purchases : Paying /\ PurchaseRefunded(h, o)
             \/ \E p \in Withdrawals, amount \in Asks :
                  Paying /\ ReadForPayout(h, p, amount)
             \/ \E p \in Withdrawals : Paying /\ ReadForPaid(h, p)
             \/ \E p \in Withdrawals : Paying /\ ReadForReject(h, p)
             \/ Paying /\ CreateForOrder(h)
             \/ Paying /\ ConfirmCommission(h)
             \/ Paying /\ ReadForCancel(h)
             \/ Paying /\ CancelCommission(h)
             \/ Paying /\ RemoveLockJob(h)
             \/ Paying /\ RequestAffiliatePayout(h)
             \/ Paying /\ MarkAffiliatePayoutPaid(h)
             \/ Paying /\ RejectPayout(h)
             \/ Paying /\ AffiliateTrouble(h)
             \/ Paying /\ ConfirmStalls(h)
             \/ Paying /\ ConfirmThenDie(h)
      PROVE  Paying /\ AffNext
  BY <1>2 DEF AffNext
<1>3. ASSUME \/ \E o \in Purchases : Paying /\ PurchasePaid(o)
             \/ \E o \in Purchases : Paying /\ PurchaseDelivered(o)
             \/ \E active \in BOOLEAN : Paying /\ SetAffiliateStatus(active)
      PROVE  Paying /\ AffNext
  BY <1>3 DEF AffNext
<1>4. ASSUME \/ \E l \in Listings : Owing /\ CreateHidden(l)
             \/ \E l \in Listings : Owing /\ DeleteForStore(l)
             \/ \E l \in Listings, status \in {"INACTIVE", "ARCHIVED"} :
                  Owing /\ BulkHide(l, status)
             \/ \E l \in Listings, status \in ProductStatus \ {"none"} :
                  Owing /\ ImportRow(l, status)
             \/ Owing /\ SuspendStore
             \/ \E s \in Sales : Owing /\ CheckoutSale(s)
             \/ \E s \in Sales, outcome \in {"paid", "cancelled"} :
                  Owing /\ SettleSale(s, outcome)
             \/ \E p \in Payouts : Owing /\ MarkSellerPayoutPaid(p)
      PROVE  Owing /\ SellerNext
  BY <1>4 DEF SellerNext
<1>5. ASSUME NEW c \in Clerks,
             \/ \E l \in Listings : Owing /\ ReadForUnpublish(c, l)
             \/ \E l \in Listings : Owing /\ CreateLive(c, l)
             \/ \E p \in Payouts : Owing /\ ReadForSellerPayout(c, p)
             \/ Owing /\ Unpublish(c)
             \/ Owing /\ BeginPublish(c)
             \/ Owing /\ PublishProducts(c)
             \/ Owing /\ RequestSellerPayout(c)
             \/ Owing /\ ClerkDies(c)
      PROVE  Owing /\ SellerNext
  BY <1>5 DEF SellerNext
<1>6. ASSUME \/ \E m \in Methods : Billing /\ StripeAttaches(m)
             \/ \E d \in Desks, m \in Methods :
                  Billing /\ ConfirmBillingCard(d, m)
             \/ \E d \in Desks, m \in Methods : Billing /\ ReadForDefault(d, m)
             \/ \E d \in Desks, m \in Methods : Billing /\ ReadForDelete(d, m)
             \/ \E d \in Desks : Billing /\ LockAndCheck(d)
             \/ \E d \in Desks : Billing /\ InsertCard(d)
             \/ \E d \in Desks : Billing /\ DetachRefused(d)
             \/ \E d \in Desks : Billing /\ SetDefaultBillingCard(d)
             \/ \E d \in Desks : Billing /\ DeleteCard(d)
             \/ \E d \in Desks : Billing /\ FindOldest(d)
             \/ \E d \in Desks : Billing /\ PromoteOldest(d)
             \/ \E d \in Desks : Billing /\ DeskDies(d)
      PROVE  Billing /\ CardNext
  BY <1>6 DEF CardNext
<1>7. ASSUME (Pricing /\ ShowCart) \/ (Pricing /\ Checkout)
      PROVE  Pricing /\ PriceNext
  BY <1>7 DEF PriceNext
<1>8. ASSUME NEW t \in Tabs,
             \/ Haggling /\ MakeOffer(t)
             \/ Haggling /\ Overwrite(t)
             \/ Haggling /\ GiveUp(t)
             \/ Haggling /\ FireOffer(t)
             \/ Haggling /\ Redeem(t)
             \/ \E o \in Offers : Haggling /\ CreateOffer(t, o)
             \/ \E o \in Offers, what \in DOMAIN AnswerTo :
                  Haggling /\ Answer(t, o, what)
             \/ \E c \in Codes : Haggling /\ Accept(t, c)
             \/ \E c \in Codes : Haggling /\ CreateTargeted(t, c)
             \/ \E c \in Codes, u \in Users : Haggling /\ UseCoupon(t, c, u)
      PROVE  Haggling /\ OfferNext
  BY <1>8 DEF OfferNext
<1>9. ASSUME \/ Haggling /\ ExpireStale
             \/ \E o \in Offers : Haggling /\ OfferFallsDue(o)
             \/ \E c \in Codes : Haggling /\ CodeLapses(c)
             \/ \E c \in Codes : Haggling /\ RemoveCode(c)
             \/ \E c \in Codes, form \in Forms : Haggling /\ EditCode(c, form)
      PROVE  Haggling /\ OfferNext
  BY <1>9 DEF OfferNext
<1>10. Next => \/ Paying /\ AffNext
               \/ Owing /\ SellerNext
               \/ Billing /\ CardNext
               \/ Pricing /\ PriceNext
               \/ Haggling /\ OfferNext
  BY <1>2, <1>3, <1>4, <1>5, <1>6, <1>7, <1>8, <1>9 DEF Next
<1>11. CASE Next
  BY <1>10, <1>11 DEF Paying, Owing, Billing, Pricing, Haggling
<1> QED
  BY <1>1, <1>11

\* Whoever has no customers has begun all the same; but for the market, where
\* nothing is on sale unless the prices are looked at.
MoneyInv ==
  /\ service \in {"affiliates", "seller", "cards", "pricing", "offers"}
  /\ service = "pricing" => PriceInv

\* Side by side, each of the services that share no row behaves as it does
\* alone; so what is proved of it alone is true of it here.
THEOREM EachServiceAlone ==
  Spec => AffSpec /\ SellerSpec /\ CardSpec /\ OfferSpec
<1>1. Init => AffInit /\ SellerInit /\ CardInit /\ OfferInit
  BY DEF Init, NoCards, NoOffers
<1>2. [Next]_moneyVars => /\ [AffNext]_affVars /\ [SellerNext]_sellerVars
                          /\ [CardNext]_cardVars /\ [OfferNext]_offerVars
  BY OneServiceSteps
<1> QED
  BY <1>1, <1>2, PTL
  DEF Spec, moneyVars, AffSpec, SellerSpec, CardSpec, OfferSpec

\* Each of the five services keeps its types in whatever its requests and jobs
\* are in the middle of, whatever the values of its constants.
THEOREM MoneyTypeCorrect == Spec => []MoneyTypeOK
<1>1. Spec => []MoneyInv
  <2>1. Init => MoneyInv
    BY PriceInitInv DEF Init, MoneyInv
  <2>2. MoneyInv /\ [Next]_moneyVars => MoneyInv'
    BY OneServiceSteps, PriceStepInv DEF MoneyInv
  <2> QED
    BY <2>1, <2>2, PTL DEF Spec, moneyVars
<1>2. MoneyInv /\ AffTypeOK /\ SellerTypeOK /\ CardTypeOK /\ OfferTypeOK
        => MoneyTypeOK
  BY PriceTypes DEF MoneyInv, MoneyTypeOK
<1> QED
  BY <1>1, <1>2, EachServiceAlone, AffTypeCorrect, SellerTypeCorrect,
     CardTypeCorrect, OfferTypeCorrect, PTL
=============================================================================
