------------------------------ MODULE MCCommerce ------------------------------
(***************************************************************************)
(* Values of the constants of Commerce for TLC.                            *)
(***************************************************************************)
EXTENDS Commerce, TLC

CONSTANTS u1, u2, s1, s2, p1, c1, o1, o2, o3, k1, k2, e1, e2, null

\* Both SKUs belong to one product.
OneProduct == [s \in Skus |-> p1]

\* A public coupon that may be used once in all, up to time 1.  It is worth half
\* of the order.
LastCoupon ==
  [c \in Coupons |->
     [type |-> Percentage, value |-> 5000, minimum |-> 2, startAt |-> 0, endAt |-> 1,
      usageLimit |-> 1, perUserLimit |-> 1, user |-> null]]

\* A coupon of u1's own, usable twice but once per user, from time 1.
PrivateCoupon ==
  [c \in Coupons |->
     [type |-> FixedDiscount, value |-> 1, minimum |-> 0, startAt |-> 1, endAt |-> 3,
      usageLimit |-> 2, perUserLimit |-> 1, user |-> u1]]

OneEach == [s \in Skus |-> 1]
TwoEach == [s \in Skus |-> 2]

ActiveAtTwo == {[status |-> SKUStatusActive, price |-> 2]}

OnSaleOnly == {StatusOnSale}
OnOrOff    == {StatusOnSale, StatusDraft}

\* Users, SKUs, orders, keys and events are interchangeable with
\* LastCoupon; every property checked with this symmetry is a safety property.
Interchangeable ==
  Permutations(Users) \cup Permutations(Skus) \cup Permutations(Orders)
    \cup Permutations(Keys) \cup Permutations(Events)
=============================================================================
