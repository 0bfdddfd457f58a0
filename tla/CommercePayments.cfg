\* Callbacks of two events race with expiry and cancellation of two orders, on stale clock readings.
SPECIFICATION Spec
CONSTANTS
  u1 = u1  u2 = u2  s1 = s1  s2 = s2  p1 = p1  c1 = c1
  o1 = o1  o2 = o2  o3 = o3  k1 = k1  k2 = k2  e1 = e1  e2 = e2  null = null
  Null = null
  Products = {p1}
  ProductOf <- OneProduct
  Users = {u1}
  Skus = {s1}
  Coupons = {c1}
  CouponOf <- PrivateCoupon
  Orders = {o1, o2}
  Keys = {k1, k2}
  Events = {e1, e2}
  InitialStock <- TwoEach
  SkuInputs <- ActiveAtTwo
  ProductInputs <- OnSaleOnly
  MaxCartQuantity = 1
  MaxOrderItems = 1
  MaxAmount = 8
  OrderPaymentTTL = 1
  RequestTimeout = 1
  MaxTime = 3
INVARIANTS
  PaymentFollowsOrder
  CallbacksHonoured
  HistoryIsLegal
