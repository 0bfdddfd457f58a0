\* Checkouts, cart writes, retries and the requests that close an order, statement by
\* statement, in five scenarios.
SPECIFICATION TxSpec
CONSTRAINT OrderScenarios
SYMMETRY SameOrders
CONSTANTS
  u1 = u1  u2 = u2  s1 = s1  s2 = s2  p1 = p1  p2 = p2  c1 = c1
  o1 = o1  o2 = o2  k1 = k1  k2 = k2  e1 = e1
  r1 = r1  r2 = r2  r3 = r3  r4 = r4  r5 = r5  r6 = r6  r7 = r7  r8 = r8  r9 = r9
  null = null
  Null = null
  Products = {p1}
  ProductOf <- OneProduct
  SkuRank <- Rank
  Users = {u1, u2}
  Skus = {s1, s2}
  Coupons = {c1}
  CouponOf <- LastCoupon
  Orders = {o1, o2}
  Keys = {k1, k2}
  Events = {e1}
  Requests = {r1, r2, r3, r4, r5, r7, r8, r9}
  Request <- Asked
  InitialStock <- TwoAndOne
  SkuInputs <- AnyInput
  ProductInputs <- OnSaleOnly
  MaxCartQuantity = 1
  MaxOrderItems = 2
  MaxAmount = 2
  OrderPaymentTTL = 1
  RequestTimeout = 1
  MaxTime = 2
INVARIANTS
  AnswersAgree
  RejectedMeansNoOrder
PROPERTIES
  KeepsPromise
