\* Two shoppers and two SKUs: carts of several lines compete for the stock.
SPECIFICATION Spec
SYMMETRY Interchangeable
CONSTANTS
  u1 = u1  u2 = u2  s1 = s1  s2 = s2  p1 = p1  c1 = c1
  o1 = o1  o2 = o2  o3 = o3  k1 = k1  k2 = k2  e1 = e1  e2 = e2  null = null
  Null = null
  Products = {p1}
  ProductOf <- OneProduct
  Users = {u1, u2}
  Skus = {s1, s2}
  Coupons = {c1}
  CouponOf <- LastCoupon
  Orders = {o1, o2}
  Keys = {k1}
  Events = {e1}
  InitialStock <- OneEach
  SkuInputs <- ActiveAtTwo
  ProductInputs <- OnOrOff
  MaxCartQuantity = 1
  MaxOrderItems = 2
  MaxAmount = 8
  OrderPaymentTTL = 1
  RequestTimeout = 1
  MaxTime = 2
INVARIANTS
  TypeOK
  ReservedIsHeld
  StockConserved
  CouponFollowsOrder
  CouponLimits
PROPERTIES
  ClosedOrdersStay
