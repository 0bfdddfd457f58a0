-------------------------------- MODULE Pricing --------------------------------
(***************************************************************************)
(* Integer arithmetic of a checkout: CalculateCouponDiscount and the       *)
(* overflow guard of OrderService.Create, in                               *)
(* internal/service/commerce_service.go.  Amounts are int64 minor units.   *)
(***************************************************************************)
EXTENDS Integers

CONSTANT
  MaxAmount       \* math.MaxInt64

ASSUME MaxAmountIsPositive == MaxAmount \in Nat \ {0}

FixedDiscount     == "FIXED_DISCOUNT"
ThresholdDiscount == "THRESHOLD_DISCOUNT"
Percentage        == "PERCENTAGE"

BasisPoints == 10000

\* The guard evaluated for each cart line before originalAmount grows:
\* sku.Price > MaxInt64/quantity || originalAmount > MaxInt64 - sku.Price*quantity.
AmountTooLarge(originalAmount, price, quantity) ==
  \/ price > MaxAmount \div quantity
  \/ originalAmount > MaxAmount - price * quantity

\* Basis points, dividing before multiplying.
PercentageDiscount(subtotal, value) ==
  (subtotal \div BasisPoints) * value
    + ((subtotal % BasisPoints) * value) \div BasisPoints

\* The tests of CalculateCouponDiscount that end in a rejection.
CouponActive(coupon, now)        == coupon.startAt <= now /\ now < coupon.endAt
CouponBelongsTo(coupon, user, anyone) == coupon.user \in {anyone, user}
MinimumReached(coupon, subtotal) == subtotal >= coupon.minimum
\* Broken variant: the limits are compared with <= instead of <.
BelowLimitsInclusive(coupon, total, byUser) ==
  /\ total <= coupon.usageLimit
  /\ byUser <= coupon.perUserLimit
BelowLimits(coupon, total, byUser) ==
  /\ total < coupon.usageLimit
  /\ byUser < coupon.perUserLimit
CouponWellFormed(coupon) ==
  \/ coupon.type \in {FixedDiscount, ThresholdDiscount}
  \/ coupon.type = Percentage /\ coupon.value \in 1..BasisPoints

\* The amount taken off once every test has passed.
Discount(coupon, subtotal) ==
  LET discount == IF coupon.type = Percentage
                    THEN PercentageDiscount(subtotal, coupon.value)
                    ELSE coupon.value
  IN  IF discount > subtotal THEN subtotal ELSE discount
=============================================================================
