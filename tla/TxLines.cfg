\* Checkouts, an expiry and a cancellation that lock several lines, statement by
\* statement, in four scenarios.
SPECIFICATION TxSpec
CONSTRAINT LineScenarios
SYMMETRY SameOrders
CONSTANTS
  u1 = u1  u2 = u2  s1 = s1  s2 = s2  p1 = p1  p2 = p2  c1 = c1
  o1 = o1  o2 = o2  k1 = k1  k2 = k2  e1 = e1
  r1 = r1  r2 = r2  r3 = r3  r4 = r4  r5 = r5  r6 = r6  r7 = r7  r8 = r8  r9 = r9
  null = null
  Null = null
  Products = {p1, p2}
  ProductOf <- TwoProducts
  SkuRank <- Rank
  Users = {u1, u2}
  Skus = {s1, s2}
  Coupons = {}
  CouponOf <- LastCoupon
  Orders = {o1, o2}
  Keys = {k1, k2}
  Events = {}
  Requests = {r2, r4, r6, r7, r8}
  Request <- Asked
  InitialStock <- TwoAndOne
  SkuInputs <- AtOne
  ProductInputs <- OnSaleOnly
  MaxCartQuantity = 1
  MaxOrderItems = 2
  MaxAmount = 2
  OrderPaymentTTL = 1
  RequestTimeout = 0
  MaxTime = 1
INVARIANTS
  OrderedNeverDeadlock
PROPERTIES
  KeepsPromise
