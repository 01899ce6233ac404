------------------------------ MODULE MCPricing ------------------------------
(* A small market for CheckoutPricing: two shops, one with a listing in two  *)
(* variants and a second listing, and a digital listing.                     *)
EXTENDS CheckoutPricing

CONSTANTS quilt, oak, blanket, pillow, bench, pattern, light, heavy

Line(s, g, price, snapshot, profile, digital) ==
  [shop |-> s, good |-> g, price |-> price, snapshot |-> snapshot,
   profile |-> profile, digital |-> digital]

MCCatalogue == << Line(quilt, blanket, 333, 400, light, FALSE),
                  Line(quilt, blanket, 505, 505, light, FALSE),
                  Line(quilt, pillow, 150, 150, heavy, FALSE),
                  Line(oak, bench, 777, 777, heavy, FALSE),
                  Line(oak, pattern, 300, 300, light, TRUE) >>

MCBaskets == {q \in [1 .. 5 -> 0 .. 2] :
                /\ \E l \in 1 .. 5 : q[l] > 0
                /\ q[5] = 0 \/ q[4] = 0
                /\ q[2] < 2 /\ q[3] < 2 /\ q[5] < 2}

Sale(s, type, value, listed, goods, country) ==
  [shop |-> s, type |-> type, value |-> value, listed |-> listed,
   goods |-> goods, country |-> country]
MCSaleChoices ==
  {{}, {Sale(quilt, "PERCENTAGE", 15, FALSE, {}, Anywhere),
        Sale(quilt, "FIXED_AMOUNT", 60, TRUE, {blanket}, Anywhere)},
       {Sale(quilt, "PERCENTAGE", 50, FALSE, {}, "CA"),
        Sale(oak, "PERCENTAGE", 15, TRUE, {bench}, "US")}}

MCBundleChoices ==
  {{}, {[shop |-> quilt, goods |-> {blanket, pillow}, percent |-> 25]}}

Coupon(s, type, value, listed, goods, minOrder) ==
  [shop |-> s, type |-> type, value |-> value, listed |-> listed,
   goods |-> goods, minOrder |-> minOrder]
MCCoupons ==
  {NoCoupon,
   Coupon(quilt, "PERCENTAGE", 33, FALSE, {}, 0),
   Coupon(quilt, "FIXED_AMOUNT", 400, TRUE, {blanket}, 300),
   Coupon(oak, "FREE_SHIPPING", 0, FALSE, {}, 0),
   Coupon(Platform, "PERCENTAGE", 10, FALSE, {}, 500)}

Method(free, price, extra) == [free |-> free, price |-> price, extra |-> extra]
MCProfileTables ==
  {[p \in {light, heavy} |->
      [origin |-> "US",
       methods |-> [to \in {"domestic", "everywhere_else"} |->
                      Method(TRUE, 0, 0)]]],
   [p \in {light, heavy} |->
      [origin |-> "US",
       methods |-> IF p = light
         THEN [to \in {"domestic", "CA"} |-> Method(FALSE, 0, 30)]
         ELSE [to \in {"domestic"} |-> Method(FALSE, 250, 100)]]],
   [p \in {light, heavy} |->
      [origin |-> "CA",
       methods |-> [to \in {"everywhere_else", "CA"} |->
                      IF p = light THEN Method(FALSE, 0, 0)
                                   ELSE Method(FALSE, 200, 200)]]]}

MCQuoteChoices == {NoQuote, [s \in Shops |-> 450]}
MCFeeRates == [transaction |-> 650, processing |-> 500, regulatory |-> 124,
               vat |-> 1000, fixed |-> 25, regulatedShops |-> {oak}]
=============================================================================
