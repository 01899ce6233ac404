CONSTANTS
  o1 = o1
  o2 = o2
  w1 = w1
  h1 = h1
  h2 = h2
  l1 = l1
  s1 = s1
  m1 = m1
  m2 = m2
  m3 = m3
  f1 = f1
  f2 = f2
  b1 = b1
  summer = summer
  u1 = u1
  quilt = quilt
  oak = oak
  blanket = blanket
  pillow = pillow
  bench = bench
  pattern = pattern
  light = light
  heavy = heavy
  NoCoupon = NoCoupon
  NoQuote = NoQuote
  Anywhere = Anywhere
  Platform = Platform
  None = None
  Unpaid = Unpaid
  Nothing = Nothing
  Purchases = {o1, o2}
  Withdrawals = {w1}
  Handlers = {h1, h2}
  Commissions = {40}
  Asks = {50}
  MinPayout = 30
  MaxTrouble = 1
  Listings = {l1}
  Sales = {s1}
  Payouts = {o1, o2}
  Clerks = {h1, h2}
  SaleNets = {3}
  ListingFee = 2
  MaxBills = 2
  Methods = {m1, m2, m3}
  Fingerprints = {f1, f2}
  Desks = {h1, h2}
  Offers = {b1}
  Codes = {summer, o1, o2}
  ShopCode = summer
  Buyers = {u1}
  Guest = Guest
  Tabs = {h1, h2}
  Nobody = Nobody
  MaxUses = 3
  MaxEdits = 1
  Forms <- MCForms
  Shops = {quilt, oak}
  Catalogue <- MCCatalogue
  Baskets <- MCBaskets
  SaleChoices <- MCSaleChoices
  BundleChoices <- MCBundleChoices
  Coupons <- MCCoupons
  ProfileTables <- MCProfileTables
  QuoteChoices <- MCQuoteChoices
  Destinations = {"US", "CA"}
  Thresholds = {0, 1000}
  ReferralRates = {5}
  Wraps = {TRUE}
  FeeRates <- MCFeeRates
SPECIFICATION Spec
CONSTRAINTS OneCodeAtATime SuspendedInFlight OutdatedPaysNobody
SYMMETRY Alike
INVARIANTS
  MoneyTypeOK
  AccountAddsUp OverdrawnOnlyByRefunds NeverCreditedTwice
  LiveFlagsTogether BilledOnce BalancesAgree
  NoCardTwice OneDefaultCard
  CartIsCharged BadgeNeverLies SharesAddUp
  OneCodeEach CapsKept
PROPERTY SettledForGood
CHECK_DEADLOCK FALSE
