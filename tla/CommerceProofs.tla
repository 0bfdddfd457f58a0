---------------------------- MODULE CommerceProofs ----------------------------
(***************************************************************************)
(* Theorems about the shop, for every value of the constants of Commerce:  *)
(*   1. the checkout arithmetic of Pricing;                                *)
(*   2. the stock: what is reserved and sold is what the orders say;       *)
(*   3. coupons, payments, callbacks and histories follow their orders.    *)
(***************************************************************************)
EXTENDS Commerce, FiniteSetTheorems, TLAPS

-----------------------------------------------------------------------------
(* 1. The checkout arithmetic. *)

\* What integer division and remainder by the number of basis points mean.
LEMMA DivisionByBasisPoints ==
  ASSUME NEW n \in Nat
  PROVE  /\ n \div BasisPoints \in Nat
         /\ n % BasisPoints \in 0..(BasisPoints - 1)
         /\ n = BasisPoints * (n \div BasisPoints) + (n % BasisPoints)
  BY DEF BasisPoints

\* The product of naturals is a natural.
LEMMA ProductIsNatural ==
  ASSUME NEW m \in Nat, NEW n \in Nat
  PROVE  m * n \in Nat
  BY SMT

\* A product grows with its second factor.
LEMMA ProductIsMonotone ==
  ASSUME NEW m \in Nat, NEW a \in Nat, NEW b \in Nat, a <= b
  PROVE  m * a <= m * b
  <1>1. PICK d \in Nat : b = a + d
    <2>1. b - a \in Nat  OBVIOUS
    <2>2. QED  BY <2>1
  <1>2. m * b = m * a + m * d  BY <1>1
  <1>3. QED  BY <1>2, ProductIsNatural

\* Two steps of <=, for terms that are products.
LEMMA Between ==
  ASSUME NEW x \in Nat, NEW y \in Int, NEW z \in Int, x <= y, y <= z
  PROVE  x \in 0..z
  OBVIOUS

\* The two-part computation of CalculateCouponDiscount is the exact one: the
\* percentage of the whole amount, rounded down.
THEOREM PercentageDiscountIsFloor ==
  ASSUME NEW subtotal \in Nat, NEW value \in Nat
  PROVE  /\ PercentageDiscount(subtotal, value) \in Nat
         /\ PercentageDiscount(subtotal, value) * BasisPoints <= subtotal * value
         /\ subtotal * value < (PercentageDiscount(subtotal, value) + 1) * BasisPoints
<1> DEFINE q == subtotal \div BasisPoints
           r == subtotal % BasisPoints
           p == (r * value) \div BasisPoints
           t == (r * value) % BasisPoints
<1>1. q \in Nat /\ r \in 0..(BasisPoints - 1) /\ subtotal = BasisPoints * q + r
  BY DivisionByBasisPoints
<1>2. r * value \in Nat /\ q * value \in Nat
  BY <1>1, ProductIsNatural DEF BasisPoints
<1>3. p \in Nat /\ t \in 0..(BasisPoints - 1) /\ r * value = BasisPoints * p + t
  BY <1>2, DivisionByBasisPoints
<1>4. PercentageDiscount(subtotal, value) = q * value + p
  BY DEF PercentageDiscount
<1> HIDE DEF q, r, p, t
<1>5. subtotal * value = BasisPoints * (q * value) + r * value
  BY <1>1 DEF BasisPoints
<1>6. subtotal * value = 10000 * (q * value) + (10000 * p + t)
  BY <1>3, <1>5 DEF BasisPoints
<1> DEFINE d == q * value
           n == subtotal * value
<1>7. d \in Nat /\ p \in Nat /\ t \in 0..9999 /\ n = 10000 * d + (10000 * p + t)
  BY <1>2, <1>3, <1>6 DEF BasisPoints
<1>8. PercentageDiscount(subtotal, value) = d + p
  BY <1>4
<1> HIDE DEF d, n
<1>9. d + p \in Nat /\ (d + p) * 10000 <= n /\ n < (d + p + 1) * 10000
  BY <1>7
<1>10. n = subtotal * value
  BY DEF n
<1>11. QED
  BY <1>8, <1>9, <1>10 DEF BasisPoints

\* With a valid rate no value that CalculateCouponDiscount computes leaves
\* int64, however close the subtotal is to its end: the products it takes are
\* at most the subtotal, or at most the square of the number of basis points.
THEOREM PercentageDiscountFits ==
  ASSUME NEW subtotal \in 0..MaxAmount, NEW value \in 1..BasisPoints,
         MaxAmount >= BasisPoints * BasisPoints
  PROVE  /\ (subtotal \div BasisPoints) * value \in 0..MaxAmount
         /\ (subtotal % BasisPoints) * value \in 0..MaxAmount
         /\ PercentageDiscount(subtotal, value) \in 0..subtotal
<1> USE MaxAmountIsPositive
<1> DEFINE q == subtotal \div BasisPoints
           r == subtotal % BasisPoints
<1>1. subtotal \in Nat /\ value \in Nat /\ BasisPoints \in Nat
  BY DEF BasisPoints
<1>2. q \in Nat /\ r \in 0..(BasisPoints - 1) /\ subtotal = BasisPoints * q + r
  BY <1>1, DivisionByBasisPoints
<1> HIDE DEF q, r
<1>3. q * value \in Nat /\ q * value <= q * BasisPoints
  BY <1>1, <1>2, ProductIsNatural, ProductIsMonotone
<1>4. q * BasisPoints <= subtotal
  BY <1>2 DEF BasisPoints
<1>5. r * value \in Nat /\ r * value <= r * BasisPoints
  BY <1>1, <1>2, ProductIsNatural, ProductIsMonotone
<1>6. r * BasisPoints <= MaxAmount
  BY <1>2 DEF BasisPoints
<1>7. PercentageDiscount(subtotal, value) \in 0..subtotal
  <2> DEFINE pd == PercentageDiscount(subtotal, value)
  <2>1. pd \in Nat /\ pd * BasisPoints <= subtotal * value
    BY <1>1, PercentageDiscountIsFloor
  <2>2. subtotal * value <= subtotal * BasisPoints
    BY <1>1, ProductIsMonotone
  <2>3. subtotal * value \in Nat
    BY <1>1, ProductIsNatural
  <2> HIDE DEF pd
  <2>4. pd * BasisPoints \in 0..(subtotal * BasisPoints)
    BY <1>1, <2>1, <2>2, <2>3, ProductIsNatural, Between
  <2>5. pd <= subtotal
    BY <1>1, <2>1, <2>4 DEF BasisPoints
  <2>6. QED
    BY <1>1, <2>1, <2>5 DEF pd
<1>8. q * value \in 0..MaxAmount
  <2>1. q * BasisPoints \in 0..MaxAmount
    BY <1>2, <1>4 DEF BasisPoints
  <2>2. QED
    BY <1>3, <2>1, Between
<1>9. r * value \in 0..MaxAmount
  <2>1. r * BasisPoints \in 0..MaxAmount
    BY <1>2, <1>6 DEF BasisPoints
  <2>2. QED
    BY <1>5, <2>1, Between
<1>10. QED
  BY <1>7, <1>8, <1>9 DEF q, r

\* A discount never exceeds what it is taken from and never adds to it: the
\* CHECK constraints of the orders table hold for every coupon row.
THEOREM DiscountWithinSubtotal ==
  ASSUME NEW coupon, NEW subtotal \in Nat, coupon.value \in Nat
  PROVE  Discount(coupon, subtotal) \in 0..subtotal
<1>1. PercentageDiscount(subtotal, coupon.value) \in Nat
  BY PercentageDiscountIsFloor
<1>2. QED
  BY <1>1 DEF Discount

\* The guard before each addition rejects a line exactly when the sum would
\* leave int64, and itself computes nothing that does.
THEOREM AmountTooLargeIsOverflow ==
  ASSUME NEW originalAmount \in 0..MaxAmount, NEW price \in 0..MaxAmount,
         NEW quantity \in Nat \ {0}
  PROVE  AmountTooLarge(originalAmount, price, quantity)
           <=> originalAmount + price * quantity > MaxAmount
<1> USE MaxAmountIsPositive
<1> DEFINE m == MaxAmount \div quantity
           r == MaxAmount % quantity
<1>1. m \in Nat /\ r \in 0..(quantity - 1) /\ MaxAmount = quantity * m + r
  OBVIOUS
<1> HIDE DEF m, r
<1>2. price * quantity \in Nat /\ price * quantity = quantity * price
  BY ProductIsNatural
<1>3. CASE price <= m
  <2>1. quantity * price <= quantity * m
    BY <1>1, <1>3, ProductIsMonotone
  <2>2. quantity * m \in Nat
    BY <1>1, ProductIsNatural
  <2>3. price * quantity <= MaxAmount
    BY <1>1, <1>2, <2>1, <2>2
  <2>4. QED
    BY <1>1, <1>2, <1>3, <2>3 DEF AmountTooLarge, m
<1>4. CASE price > m
  <2>1. quantity * (m + 1) <= quantity * price
    BY <1>1, <1>4, ProductIsMonotone
  <2>2. quantity * (m + 1) = quantity * m + quantity /\ quantity * m \in Nat
    BY <1>1, ProductIsNatural
  <2>3. price * quantity > MaxAmount
    BY <1>1, <1>2, <2>1, <2>2
  <2>4. QED
    BY <1>1, <1>2, <1>4, <2>3 DEF AmountTooLarge, m
<1>5. QED
  BY <1>1, <1>3, <1>4

-----------------------------------------------------------------------------
(* 2. The stock. *)

USE DEF NoStatus, PendingPayment, Paid, Processing, Completed, Cancelled, Expired

-----------------------------------------------------------------------------
(* Type correctness. *)

\* A reservation and what closes it keep a stock row non-negative.
LEMMA StockTypes ==
  ASSUME NEW stock \in [available: Nat, reserved: Nat], NEW quantity \in Nat
  PROVE  /\ CanReserve(stock, quantity) =>
              Reserve(stock, quantity) \in [available: Nat, reserved: Nat]
         /\ HasReserved(stock, quantity) =>
              /\ Release(stock, quantity) \in [available: Nat, reserved: Nat]
              /\ Commit(stock, quantity) \in [available: Nat, reserved: Nat]
  BY DEF CanReserve, Reserve, HasReserved, Release, Commit

\* The fields that a transition writes, and nothing else.
LEMMA TransitionType ==
  ASSUME NEW order \in Order, NEW target \in OrderStatuses, NEW now \in Nat
  PROVE  Transition(order, target, now) \in Order
<1>1. Append(order.history, [from |-> order.status, to |-> target])
        \in Seq([from: OrderStatuses \cup {NoStatus}, to: OrderStatuses])
  BY DEF Order
<1> DEFINE paidAt == IF target = Paid THEN now ELSE order.paidAt
           cancelledAt == IF target = Cancelled THEN now ELSE order.cancelledAt
<1>2. paidAt \in Nat \cup {Null} /\ cancelledAt \in Nat \cup {Null}
  BY DEF Order
<1>3. Transition(order, target, now) =
        [order EXCEPT !.status = target, !.version = order.version + 1,
                      !.paidAt = paidAt, !.cancelledAt = cancelledAt,
                      !.history = Append(order.history, [from |-> order.status, to |-> target])]
  BY DEF Transition
<1> HIDE DEF paidAt, cancelledAt
<1>4. order.version + 1 \in Nat
  BY DEF Order
<1>5. QED
  BY <1>1, <1>2, <1>3, <1>4 DEF Order

LEMMA NewOrderType ==
  ASSUME NEW u \in Users, NEW k \in Keys, NEW c \in Coupons \cup {Null}, NEW items \in Items,
         NEW original \in 0..MaxAmount, NEW discount \in 0..MaxAmount, NEW now \in Nat
  PROVE  NewOrder(u, k, c, items, original, discount, now) \in Order
  BY LimitsAreNatural DEF NewOrder, Order, OrderStatuses

LEMMA InitType == Init => TypeOK
<1>1. NoItems \in Items
  BY LimitsAreNatural DEF NoItems, Items, Quantities
<1>2. NoOrder \in Order
  BY <1>1, MaxAmountIsPositive DEF NoOrder, Order
<1>3. QED
  BY <1>1, <1>2 DEF Init, TypeOK, SKUStatusActive, SKUStatusInactive

LEMMA ProductStepType ==
  ASSUME TypeOK, NEW p \in Products, CreateProduct(p) \/ SaveProduct(p) \/ DeleteProduct(p)
  PROVE  TypeOK'
<1> USE CatalogueIsWellFormed
        DEF TypeOK, StatusOnSale, StatusDraft, StatusSoldOut, StatusDeleted
<1>1. CASE CreateProduct(p)  BY <1>1 DEF CreateProduct
<1>2. CASE SaveProduct(p)    BY <1>2 DEF SaveProduct
<1>3. CASE DeleteProduct(p)  BY <1>3 DEF DeleteProduct
<1>4. QED  BY <1>1, <1>2, <1>3

LEMMA SKUStepType ==
  ASSUME TypeOK, NEW s \in Skus, CreateSKU(s) \/ UpdateSKU(s)
  PROVE  TypeOK'
<1> USE CatalogueIsWellFormed DEF TypeOK, SKUStatusActive, SKUStatusInactive
<1>1. CASE CreateSKU(s)  BY <1>1 DEF CreateSKU
<1>2. CASE UpdateSKU(s)  BY <1>2 DEF UpdateSKU
<1>3. QED  BY <1>1, <1>2

LEMMA CartStepType ==
  ASSUME TypeOK, NEW u \in Users, NEW s \in Skus,
         CartAdd(u, s) \/ CartUpdate(u, s) \/ CartDelete(u, s) \/ CartClear(u)
  PROVE  TypeOK'
<1>1. carts' \in [Users -> Items]
  <2>1. NoItems \in Items
    BY LimitsAreNatural DEF NoItems, Items, Quantities
  <2>2. \A quantity \in Quantities : [carts EXCEPT ![u][s] = quantity] \in [Users -> Items]
    BY DEF TypeOK, Items
  <2>3. 0 \in Quantities /\ 1..MaxCartQuantity \subseteq Quantities
    BY LimitsAreNatural DEF Quantities
  <2>4. [carts EXCEPT ![u] = NoItems] \in [Users -> Items]
    BY <2>1 DEF TypeOK
  <2>5. QED
    BY <2>2, <2>3, <2>4 DEF CartAdd, CartUpdate, CartDelete, CartClear
<1>2. UNCHANGED <<clock, products, skus, inventory, orders, usages, payments, events>>
  BY DEF CartAdd, CartUpdate, CartDelete, CartClear
<1>3. QED
  BY <1>1, <1>2 DEF TypeOK

LEMMA StampsAreNatural == TypeOK => Stamps \subseteq Nat
  BY DEF TypeOK, Stamps

\* What Checkout commits when the products of its lines have been on sale at some
\* time before; and the steps of Commerce, this one included.
Purchase(u, k, c) ==
  \E o \in Orders, now \in Stamps :
    LET subtotal == Subtotal(u)
        discount == IF c = Null THEN 0 ELSE Discount(CouponOf[c], subtotal)
    IN  /\ orders[o].status = NoStatus
        /\ KeyUnused(u, k)
        /\ \A s \in Lines(u) : skus[s].status = SKUStatusActive
        /\ subtotal \in 0..MaxAmount
        /\ c # Null => CouponApplies(c, u, subtotal, now)
        /\ \A s \in Lines(u) : CanReserve(inventory[s], carts[u][s])
        /\ inventory' = [s \in Skus |-> Reserve(inventory[s], carts[u][s])]
        /\ orders' = [orders EXCEPT ![o] = NewOrder(u, k, c, carts[u], subtotal, discount, now)]
        /\ usages' = IF c = Null THEN usages ELSE [usages EXCEPT ![o] = UsageReserved]
        /\ carts' = [carts EXCEPT ![u] = NoItems]
        /\ UNCHANGED <<clock, products, skus, payments, events>>

Commits == Next \/ \E u \in Users, k \in Keys, c \in Coupons \cup {Null} : Purchase(u, k, c)

LEMMA CheckoutIsPurchase ==
  ASSUME NEW u, NEW k, NEW c, Checkout(u, k, c)
  PROVE  Purchase(u, k, c)
  BY DEF Checkout, Purchase, Saleable

\* The amounts that Checkout stores.
LEMMA DiscountOfCheckout ==
  ASSUME NEW c \in Coupons \cup {Null}, NEW subtotal \in 0..MaxAmount
  PROVE  (IF c = Null THEN 0 ELSE Discount(CouponOf[c], subtotal)) \in 0..subtotal
<1>1. ASSUME c # Null
      PROVE  Discount(CouponOf[c], subtotal) \in 0..subtotal
  <2>1. CouponOf[c].value \in Nat
    BY <1>1, CatalogueIsWellFormed DEF CouponRow
  <2>2. subtotal \in Nat
    BY MaxAmountIsPositive
  <2>3. QED
    BY <2>1, <2>2, DiscountWithinSubtotal
<1>2. QED
  BY <1>1, MaxAmountIsPositive

LEMMA PurchaseType ==
  ASSUME TypeOK, NEW u \in Users, NEW k \in Keys, NEW c \in Coupons \cup {Null},
         Purchase(u, k, c)
  PROVE  TypeOK'
<1> DEFINE subtotal == Subtotal(u)
           discount == IF c = Null THEN 0 ELSE Discount(CouponOf[c], subtotal)
<1>1. PICK o \in Orders, now \in Stamps :
        /\ subtotal \in 0..MaxAmount
        /\ \A s \in Lines(u) : CanReserve(inventory[s], carts[u][s])
        /\ inventory' = [s \in Skus |-> Reserve(inventory[s], carts[u][s])]
        /\ orders' = [orders EXCEPT ![o] = NewOrder(u, k, c, carts[u], subtotal, discount, now)]
        /\ usages' = IF c = Null THEN usages ELSE [usages EXCEPT ![o] = UsageReserved]
        /\ carts' = [carts EXCEPT ![u] = NoItems]
        /\ UNCHANGED <<clock, products, skus, payments, events>>
  BY DEF Purchase
<1> HIDE DEF subtotal, discount
<1>2. inventory' \in [Skus -> [available: Nat, reserved: Nat]]
  <2>1. ASSUME NEW s \in Skus
        PROVE  Reserve(inventory[s], carts[u][s]) \in [available: Nat, reserved: Nat]
    <3>1. inventory[s] \in [available: Nat, reserved: Nat] /\ carts[u][s] \in Nat
      BY DEF TypeOK, Items, Quantities
    <3>2. CanReserve(inventory[s], carts[u][s])
      BY <1>1, <3>1 DEF Lines, CanReserve
    <3>3. QED
      BY <3>1, <3>2, StockTypes
  <2>2. QED
    BY <1>1, <2>1
<1>3. orders' \in [Orders -> Order]
  <2>1. carts[u] \in Items /\ now \in Nat
    BY <1>1, StampsAreNatural DEF TypeOK
  <2>2. discount \in 0..MaxAmount
    BY <1>1, DiscountOfCheckout, MaxAmountIsPositive DEF discount
  <2>3. NewOrder(u, k, c, carts[u], subtotal, discount, now) \in Order
    BY <1>1, <2>1, <2>2, NewOrderType
  <2>4. QED
    BY <1>1, <2>3 DEF TypeOK
<1>4. carts' \in [Users -> Items]
  BY <1>1, LimitsAreNatural DEF TypeOK, NoItems, Items, Quantities
<1>5. QED
  BY <1>1, <1>2, <1>3, <1>4 DEF TypeOK

\* A target that an order can move to is a status.
LEMMA TargetsAreStatuses ==
  ASSUME NEW order \in Order, NEW target, CanTransition(order, target)
  PROVE  target \in OrderStatuses
  BY DEF Order, CanTransition, AllowedOrderTransitions, OrderStatuses

LEMMA TransitionStepType ==
  ASSUME TypeOK, NEW o \in Orders, NEW target, NEW now \in Stamps,
         CanTransition(orders[o], target),
         orders' = [orders EXCEPT ![o] = Transition(@, target, now)]
  PROVE  orders' \in [Orders -> Order]
<1>1. orders[o] \in Order /\ now \in Nat
  BY StampsAreNatural DEF TypeOK
<1>2. Transition(orders[o], target, now) \in Order
  BY <1>1, TargetsAreStatuses, TransitionType
<1>3. QED
  BY <1>2 DEF TypeOK

LEMMA UsageStepType ==
  ASSUME TypeOK, NEW o \in Orders, MoveUsage(o, UsageReleased) \/ MoveUsage(o, UsageConsumed)
  PROVE  usages' \in [Orders -> {NoStatus, UsageReserved, UsageConsumed, UsageReleased}]
  BY DEF TypeOK, MoveUsage

LEMMA ReleaseOrderType ==
  ASSUME TypeOK, NEW o \in Orders, NEW target, NEW now \in Stamps, ReleaseOrder(o, target, now)
  PROVE  TypeOK'
<1>1. orders' \in [Orders -> Order]
  BY TransitionStepType DEF ReleaseOrder
<1>2. usages' \in [Orders -> {NoStatus, UsageReserved, UsageConsumed, UsageReleased}]
  BY UsageStepType DEF ReleaseOrder
<1>3. inventory' \in [Skus -> [available: Nat, reserved: Nat]]
  <2>1. ASSUME NEW s \in Skus
        PROVE  Release(inventory[s], orders[o].items[s]) \in [available: Nat, reserved: Nat]
    <3>1. inventory[s] \in [available: Nat, reserved: Nat] /\ orders[o].items[s] \in Nat
      BY DEF TypeOK, Order, Items, Quantities
    <3>2. QED
      BY <3>1, StockTypes DEF ReleaseOrder
  <2>2. QED
    BY <2>1 DEF ReleaseOrder
<1>4. QED
  BY <1>1, <1>2, <1>3 DEF TypeOK, ReleaseOrder

LEMMA AdvanceType ==
  ASSUME TypeOK, NEW o \in Orders, NEW target, Advance(o, target)
  PROVE  TypeOK'
<1>1. orders' \in [Orders -> Order]
  BY TransitionStepType DEF Advance
<1>2. QED
  BY <1>1 DEF Advance, TypeOK

LEMMA PaymentStepType ==
  ASSUME TypeOK, NEW o \in Orders, NEW e \in Events,
         CreatePayment(o) \/ PaymentFails(e, o) \/ PaymentRepeats(e, o) \/ PaymentSucceeds(e, o)
  PROVE  TypeOK'
<1>1. ASSUME NEW status \in {CallbackSuccess, CallbackFailure}, RecordEvent(e, o, status)
      PROVE  events' \subseteq Callback
  <2>1. Payable(orders[o]) \in Int
    BY MaxAmountIsPositive DEF TypeOK, Order, Payable
  <2>2. QED
    BY <1>1, <2>1 DEF TypeOK, RecordEvent, Callback
<1>2. CASE CreatePayment(o)
  BY <1>2 DEF CreatePayment, TypeOK
<1>3. CASE PaymentFails(e, o)
  <2>1. events' \subseteq Callback
    BY <1>1, <1>3 DEF PaymentFails
  <2>2. QED
    BY <1>3, <2>1 DEF PaymentFails, TypeOK
<1>4. CASE PaymentRepeats(e, o)
  <2>1. events' \subseteq Callback
    BY <1>1, <1>4 DEF PaymentRepeats
  <2>2. QED
    BY <1>4, <2>1 DEF PaymentRepeats, TypeOK
<1>5. CASE PaymentSucceeds(e, o)
  <2>1. events' \subseteq Callback
    BY <1>1, <1>5 DEF PaymentSucceeds
  <2>2. orders' \in [Orders -> Order]
    BY <1>5, TransitionStepType DEF PaymentSucceeds
  <2>3. usages' \in [Orders -> {NoStatus, UsageReserved, UsageConsumed, UsageReleased}]
    BY <1>5, UsageStepType DEF PaymentSucceeds
  <2>4. inventory' \in [Skus -> [available: Nat, reserved: Nat]]
    <3>1. ASSUME NEW s \in Skus
          PROVE  Commit(inventory[s], orders[o].items[s]) \in [available: Nat, reserved: Nat]
      <4>1. inventory[s] \in [available: Nat, reserved: Nat] /\ orders[o].items[s] \in Nat
        BY DEF TypeOK, Order, Items, Quantities
      <4>2. QED
        BY <1>5, <4>1, StockTypes DEF PaymentSucceeds
    <3>2. QED
      BY <1>5, <3>1 DEF PaymentSucceeds
  <2>5. QED
    BY <1>5, <2>1, <2>2, <2>3, <2>4 DEF PaymentSucceeds, TypeOK
<1>6. QED
  BY <1>2, <1>3, <1>4, <1>5

LEMMA TypeStep == TypeOK /\ [Commits]_vars => TypeOK'
<1> SUFFICES ASSUME TypeOK, [Commits]_vars PROVE TypeOK'
  OBVIOUS
<1>1. CASE OperatorStep
  BY <1>1, ProductStepType, SKUStepType, AdvanceType DEF OperatorStep
<1>2. CASE ShopperStep
  <2>1. PICK u \in Users :
          \/ \E s \in Skus : CartAdd(u, s) \/ CartUpdate(u, s) \/ CartDelete(u, s)
          \/ CartClear(u)
          \/ \E k \in Keys, c \in Coupons \cup {Null} : Checkout(u, k, c)
          \/ \E o \in Orders : Cancel(u, o)
    BY <1>2 DEF ShopperStep
  <2>2. CASE \E s \in Skus : CartAdd(u, s) \/ CartUpdate(u, s) \/ CartDelete(u, s)
    BY <2>2, CartStepType
  <2>3. CASE CartClear(u)
    BY <2>3, LimitsAreNatural DEF CartClear, TypeOK, NoItems, Items, Quantities
  <2>4. CASE \E k \in Keys, c \in Coupons \cup {Null} : Checkout(u, k, c)
    BY <2>4, CheckoutIsPurchase, PurchaseType
  <2>5. CASE \E o \in Orders : Cancel(u, o)
    BY <2>5, ReleaseOrderType DEF Cancel
  <2>6. QED
    BY <2>1, <2>2, <2>3, <2>4, <2>5
<1>3. CASE PaymentStep
  <2>1. ASSUME NEW o \in Orders, CreatePayment(o)
        PROVE  TypeOK'
    BY <2>1 DEF CreatePayment, TypeOK
  <2>2. QED
    BY <1>3, <2>1, PaymentStepType DEF PaymentStep
<1>4. CASE \E o \in Orders : Expire(o)
  BY <1>4, ReleaseOrderType DEF Expire
<1>5. CASE Tick
  BY <1>5 DEF Tick, TypeOK
<1>6. CASE UNCHANGED vars
  BY <1>6 DEF vars, TypeOK
<1>7. CASE \E u \in Users, k \in Keys, c \in Coupons \cup {Null} : Purchase(u, k, c)
  BY <1>7, PurchaseType
<1>8. QED
  BY <1>1, <1>2, <1>3, <1>4, <1>5, <1>6, <1>7 DEF Next, Commits

\* No row ever leaves its columns' domains: in particular no sequence of
\* requests drives stock below zero or a discount above the order's amount.
THEOREM TypeCorrect == Spec => []TypeOK
<1>1. TypeOK /\ [Next]_vars => TypeOK'
  BY TypeStep DEF Commits
<1>2. QED
  BY <1>1, InitType, PTL DEF Spec

-----------------------------------------------------------------------------
(* Sums over the orders. *)

\* The units that one order contributes.
Block(o, n) == {o} \X (1..n)

LEMMA BlockSize ==
  ASSUME NEW o, NEW n \in Nat
  PROVE  IsFiniteSet(Block(o, n)) /\ Cardinality(Block(o, n)) = n
<1>1. IsFiniteSet({o}) /\ Cardinality({o}) = 1
  BY FS_Singleton
<1>2. IsFiniteSet(1..n) /\ Cardinality(1..n) = n
  BY FS_Interval
<1>3. IsFiniteSet({o} \X (1..n)) /\ Cardinality({o} \X (1..n)) = Cardinality({o}) * Cardinality(1..n)
  BY <1>1, <1>2, FS_Product
<1>4. Cardinality({o}) * Cardinality(1..n) = n
  BY <1>1, <1>2
<1>5. QED
  BY <1>3, <1>4 DEF Block

LEMMA UnitsFinite == ASSUME NEW f PROVE IsFiniteSet(Units(f)) /\ Total(f) \in Nat
<1>1. IsFiniteSet(1..MaxCartQuantity)
  BY LimitsAreNatural, FS_Interval
<1>2. IsFiniteSet(Orders \X (1..MaxCartQuantity))
  BY <1>1, TablesAreFinite, FS_Product
<1>3. IsFiniteSet(Units(f))
  BY <1>2, FS_Subset DEF Units
<1>4. QED
  BY <1>3, FS_CardinalityType DEF Total

\* The units of an order are separate from those of the rest.
LEMMA SplitTotal ==
  ASSUME NEW f \in [Orders -> Quantities], NEW o \in Orders
  PROVE  LET rest == {unit \in Units(f) : unit[1] # o}
         IN  /\ Total(f) = Cardinality(rest) + f[o]
             /\ Cardinality(rest) \in Nat
<1> DEFINE rest == {unit \in Units(f) : unit[1] # o}
           block == Block(o, f[o])
<1>1. f[o] \in Nat /\ f[o] <= MaxCartQuantity
  BY LimitsAreNatural DEF Quantities
<1>2. IsFiniteSet(rest) /\ Cardinality(rest) \in Nat
  BY UnitsFinite, FS_Subset, FS_CardinalityType
<1>3. IsFiniteSet(block) /\ Cardinality(block) = f[o]
  BY <1>1, BlockSize
<1>4. Units(f) = rest \cup block
  BY <1>1, LimitsAreNatural DEF Units, Block
<1>5. rest \cap block = {}
  BY DEF Block
<1>6. Cardinality(rest \cup block) = Cardinality(rest) + Cardinality(block) - Cardinality(rest \cap block)
  BY <1>2, <1>3, FS_Union
<1>7. Cardinality(rest \cap block) = 0
  BY <1>5, FS_EmptySet
<1>8. Total(f) = Cardinality(rest \cup block)
  BY <1>4 DEF Total
<1> HIDE DEF rest, block
<1>9. Total(f) = Cardinality(rest) + f[o]
  BY <1>1, <1>2, <1>3, <1>6, <1>7, <1>8
<1>10. QED
  BY <1>2, <1>9 DEF rest

\* Changing the quantity of one order changes the sum by the difference.
LEMMA UpdateTotal ==
  ASSUME NEW f \in [Orders -> Quantities], NEW g \in [Orders -> Quantities], NEW o \in Orders,
         \A p \in Orders \ {o} : g[p] = f[p]
  PROVE  Total(g) = Total(f) - f[o] + g[o]
<1> DEFINE restF == {unit \in Units(f) : unit[1] # o}
           restG == {unit \in Units(g) : unit[1] # o}
<1>1. restF = restG
  BY DEF Units
<1>2. Total(f) = Cardinality(restF) + f[o] /\ Cardinality(restF) \in Nat
  BY SplitTotal
<1>3. Total(g) = Cardinality(restG) + g[o]
  BY SplitTotal
<1>4. f[o] \in Nat /\ g[o] \in Nat
  BY LimitsAreNatural DEF Quantities
<1> HIDE DEF restF, restG
<1>5. QED
  BY <1>1, <1>2, <1>3, <1>4

\* The sum of zeroes.
LEMMA EmptyTotal ==
  ASSUME NEW f \in [Orders -> Quantities], \A o \in Orders : f[o] = 0
  PROVE  Total(f) = 0
<1>1. Units(f) = {}
  BY LimitsAreNatural DEF Units
<1>2. QED
  BY <1>1, FS_EmptySet DEF Total

-----------------------------------------------------------------------------
(* Stock. *)

HeldBy(s) == [o \in Orders |-> IF HoldsStock(orders[o].status) THEN orders[o].items[s] ELSE 0]
SoldBy(s) == [o \in Orders |-> IF WasPaid(orders[o].status) THEN orders[o].items[s] ELSE 0]

\* Only a SKU that exists can be in an order: what makes CreateSKU start from
\* an empty row.
UnstockedIsUnused ==
  \A s \in Skus : skus[s].status = NoStatus => \A o \in Orders : orders[o].items[s] = 0

StockInv == ReservedIsHeld /\ StockConserved /\ UnstockedIsUnused

LEMMA QuantityTypes ==
  ASSUME TypeOK, NEW s \in Skus
  PROVE  /\ HeldBy(s) \in [Orders -> Quantities]
         /\ SoldBy(s) \in [Orders -> Quantities]
         /\ \A o \in Orders : orders[o].items[s] \in Quantities
<1>1. \A o \in Orders : orders[o].items[s] \in Quantities
  BY DEF TypeOK, Order, Items
<1>2. 0 \in Quantities
  BY LimitsAreNatural DEF Quantities
<1>3. QED
  BY <1>1, <1>2 DEF HeldBy, SoldBy

\* A step that changes one order changes the two sums by that order's share.
LEMMA OneOrderChanges ==
  ASSUME TypeOK, TypeOK', NEW o \in Orders, NEW s \in Skus,
         \A p \in Orders \ {o} : orders'[p] = orders[p]
  PROVE  /\ Held(s)' = Held(s) - HeldBy(s)[o] + HeldBy(s)'[o]
         /\ Sold(s)' = Sold(s) - SoldBy(s)[o] + SoldBy(s)'[o]
<1>1. HeldBy(s) \in [Orders -> Quantities] /\ SoldBy(s) \in [Orders -> Quantities]
  BY QuantityTypes
<1>2. HeldBy(s)' \in [Orders -> Quantities] /\ SoldBy(s)' \in [Orders -> Quantities]
  <2>1. \A p \in Orders : orders'[p].items[s] \in Quantities
    BY DEF TypeOK, Order, Items
  <2>2. 0 \in Quantities
    BY LimitsAreNatural DEF Quantities
  <2>3. QED
    BY <2>1, <2>2 DEF HeldBy, SoldBy
<1>3. \A p \in Orders \ {o} : HeldBy(s)'[p] = HeldBy(s)[p] /\ SoldBy(s)'[p] = SoldBy(s)[p]
  BY DEF HeldBy, SoldBy
<1>4. Total(HeldBy(s)') = Total(HeldBy(s)) - HeldBy(s)[o] + HeldBy(s)'[o]
  BY <1>1, <1>2, <1>3, UpdateTotal
<1>5. Total(SoldBy(s)') = Total(SoldBy(s)) - SoldBy(s)[o] + SoldBy(s)'[o]
  BY <1>1, <1>2, <1>3, UpdateTotal
<1>6. Held(s) = Total(HeldBy(s)) /\ Sold(s) = Total(SoldBy(s))
  BY DEF Held, Sold, HeldBy, SoldBy
<1>7. Held(s)' = Total(HeldBy(s)') /\ Sold(s)' = Total(SoldBy(s)')
  BY DEF Held, Sold, HeldBy, SoldBy, Total, Units
<1>8. QED
  BY <1>4, <1>5, <1>6, <1>7

\* A step that leaves the orders and the stock alone.
LEMMA StockUntouched ==
  ASSUME StockInv, UNCHANGED <<orders, inventory>>,
         \A s \in Skus : skus'[s].status = NoStatus <=> skus[s].status = NoStatus
  PROVE  StockInv'
<1>1. \A s \in Skus : Held(s)' = Held(s) /\ Sold(s)' = Sold(s)
  BY DEF Held, Sold, Total, Units
<1>2. QED
  BY <1>1 DEF StockInv, ReservedIsHeld, StockConserved, UnstockedIsUnused

LEMMA SumsAreNatural == ASSUME NEW s PROVE Held(s) \in Nat /\ Sold(s) \in Nat
  BY UnitsFinite DEF Held, Sold

LEMMA CreateSKUStock ==
  ASSUME TypeOK, StockInv, NEW s \in Skus, CreateSKU(s)
  PROVE  StockInv'
<1>1. \A z \in Skus : Held(z)' = Held(z) /\ Sold(z)' = Sold(z)
  BY DEF CreateSKU, Held, Sold, Total, Units
<1>2. Held(s) = 0 /\ Sold(s) = 0
  <2>1. HeldBy(s) \in [Orders -> Quantities] /\ SoldBy(s) \in [Orders -> Quantities]
    BY QuantityTypes
  <2>2. \A o \in Orders : HeldBy(s)[o] = 0 /\ SoldBy(s)[o] = 0
    BY DEF CreateSKU, StockInv, UnstockedIsUnused, HeldBy, SoldBy
  <2>3. QED
    BY <2>1, <2>2, EmptyTotal DEF Held, Sold, HeldBy, SoldBy
<1>3. skus' \in [Skus -> [status: {SKUStatusActive, SKUStatusInactive, NoStatus}, price: Nat]]
  BY CatalogueIsWellFormed DEF CreateSKU, TypeOK
<1>4. \A z \in Skus \ {s} : skus'[z] = skus[z] /\ inventory'[z] = inventory[z]
  BY DEF CreateSKU, TypeOK
<1>5. inventory'[s] = [available |-> InitialStock[s], reserved |-> 0]
  BY DEF CreateSKU, TypeOK
<1>6. skus'[s].status # NoStatus
  <2>1. PICK input \in SkuInputs : skus' = [skus EXCEPT ![s] = input]
    BY DEF CreateSKU
  <2>2. QED
    BY <2>1, CatalogueIsWellFormed DEF TypeOK, SKUStatusActive, SKUStatusInactive
<1>7. InitialStock[s] \in Nat
  BY CatalogueIsWellFormed
<1>8. ReservedIsHeld'
  BY <1>1, <1>2, <1>4, <1>5 DEF StockInv, ReservedIsHeld
<1>9. StockConserved'
  BY <1>1, <1>2, <1>4, <1>5, <1>7 DEF StockInv, StockConserved
<1>10. UnstockedIsUnused'
  BY <1>4, <1>6 DEF StockInv, UnstockedIsUnused, CreateSKU
<1>11. QED
  BY <1>8, <1>9, <1>10 DEF StockInv

LEMMA PurchaseStock ==
  ASSUME TypeOK, TypeOK', StockInv, NEW u \in Users, NEW k \in Keys, NEW c \in Coupons \cup {Null},
         Purchase(u, k, c)
  PROVE  StockInv'
<1>1. PICK o \in Orders, now \in Stamps :
        /\ orders[o].status = NoStatus
        /\ \A s \in Lines(u) : skus[s].status = SKUStatusActive
        /\ inventory' = [s \in Skus |-> Reserve(inventory[s], carts[u][s])]
        /\ \E original, discount : orders' =
             [orders EXCEPT ![o] = NewOrder(u, k, c, carts[u], original, discount, now)]
        /\ UNCHANGED skus
  BY DEF Purchase
<1>2. /\ orders'[o].status = PendingPayment
      /\ orders'[o].items = carts[u]
      /\ \A p \in Orders \ {o} : orders'[p] = orders[p]
  BY <1>1 DEF TypeOK, NewOrder
<1>3. ASSUME NEW s \in Skus
      PROVE  /\ Held(s)' = Held(s) + carts[u][s]
             /\ Sold(s)' = Sold(s)
  <2>1. HeldBy(s)[o] = 0 /\ HeldBy(s)'[o] = carts[u][s]
    BY <1>1, <1>2 DEF HeldBy, HoldsStock
  <2>2. SoldBy(s)[o] = 0 /\ SoldBy(s)'[o] = 0
    BY <1>1, <1>2 DEF SoldBy, WasPaid
  <2>3. QED
    BY <1>2, <2>1, <2>2, OneOrderChanges, SumsAreNatural
<1>4. \A s \in Skus :
        /\ carts[u][s] \in Nat
        /\ inventory[s] \in [available: Nat, reserved: Nat]
        /\ inventory'[s].available = inventory[s].available - carts[u][s]
        /\ inventory'[s].reserved = inventory[s].reserved + carts[u][s]
  BY <1>1 DEF TypeOK, Items, Quantities, Reserve
<1>5. ReservedIsHeld'
  BY <1>3, <1>4 DEF StockInv, ReservedIsHeld
<1>6. StockConserved'
  BY <1>1, <1>3, <1>4, SumsAreNatural DEF StockInv, StockConserved
<1>7. UnstockedIsUnused'
  <2>1. ASSUME NEW s \in Skus, skus[s].status = NoStatus
        PROVE  carts[u][s] = 0
    BY <1>1, <1>4, <2>1 DEF Lines, SKUStatusActive
  <2>2. QED
    BY <1>1, <1>2, <2>1 DEF StockInv, UnstockedIsUnused
<1>8. QED
  BY <1>5, <1>6, <1>7 DEF StockInv

\* One order moves along the state machine; the stock follows.
LEMMA TransitionEffect ==
  ASSUME TypeOK, NEW o \in Orders, NEW target, NEW now,
         orders' = [orders EXCEPT ![o] = Transition(@, target, now)]
  PROVE  /\ orders'[o].status = target
         /\ orders'[o].items = orders[o].items
         /\ \A p \in Orders \ {o} : orders'[p] = orders[p]
<1>1. orders[o] \in Order
  BY DEF TypeOK
<1>2. Transition(orders[o], target, now).status = target
      /\ Transition(orders[o], target, now).items = orders[o].items
  BY <1>1 DEF Transition, Order
<1>3. QED
  BY <1>2 DEF TypeOK

LEMMA ReleaseStock ==
  ASSUME TypeOK, TypeOK', StockInv, NEW o \in Orders, NEW target \in {Cancelled, Expired},
         NEW now \in Stamps, ReleaseOrder(o, target, now)
  PROVE  StockInv'
<1>1. orders[o].status = PendingPayment
  BY DEF ReleaseOrder, CanTransition, AllowedOrderTransitions, TypeOK, Order, OrderStatuses
<1>2. /\ orders'[o].status = target
      /\ orders'[o].items = orders[o].items
      /\ \A p \in Orders \ {o} : orders'[p] = orders[p]
  BY TransitionEffect DEF ReleaseOrder
<1>3. ASSUME NEW s \in Skus
      PROVE  /\ Held(s)' = Held(s) - orders[o].items[s]
             /\ Sold(s)' = Sold(s)
             /\ orders[o].items[s] \in Nat
  <2>1. HeldBy(s)[o] = orders[o].items[s] /\ HeldBy(s)'[o] = 0
    BY <1>1, <1>2 DEF HeldBy, HoldsStock
  <2>2. SoldBy(s)[o] = 0 /\ SoldBy(s)'[o] = 0
    BY <1>1, <1>2 DEF SoldBy, WasPaid
  <2>3. orders[o].items[s] \in Nat
    BY QuantityTypes, LimitsAreNatural DEF Quantities
  <2>4. QED
    BY <1>2, <2>1, <2>2, <2>3, OneOrderChanges, SumsAreNatural
<1>4. \A s \in Skus :
        /\ inventory[s] \in [available: Nat, reserved: Nat]
        /\ inventory'[s].available = inventory[s].available + orders[o].items[s]
        /\ inventory'[s].reserved = inventory[s].reserved - orders[o].items[s]
  BY DEF ReleaseOrder, TypeOK, Release
<1>5. ReservedIsHeld'
  BY <1>3, <1>4 DEF StockInv, ReservedIsHeld
<1>6. StockConserved'
  BY <1>3, <1>4, SumsAreNatural DEF StockInv, StockConserved, ReleaseOrder
<1>7. UnstockedIsUnused'
  BY <1>2 DEF StockInv, UnstockedIsUnused, ReleaseOrder
<1>8. QED
  BY <1>5, <1>6, <1>7 DEF StockInv

LEMMA PaymentStock ==
  ASSUME TypeOK, TypeOK', StockInv, NEW o \in Orders, NEW e \in Events, PaymentSucceeds(e, o)
  PROVE  StockInv'
<1>1. orders[o].status = PendingPayment
  BY DEF PaymentSucceeds
<1>2. /\ orders'[o].status = Paid
      /\ orders'[o].items = orders[o].items
      /\ \A p \in Orders \ {o} : orders'[p] = orders[p]
  <2>1. PICK now \in Stamps : orders' = [orders EXCEPT ![o] = Transition(@, Paid, now)]
    BY DEF PaymentSucceeds
  <2>2. QED
    BY <2>1, TransitionEffect
<1>3. ASSUME NEW s \in Skus
      PROVE  /\ Held(s)' = Held(s) - orders[o].items[s]
             /\ Sold(s)' = Sold(s) + orders[o].items[s]
             /\ orders[o].items[s] \in Nat
  <2>1. HeldBy(s)[o] = orders[o].items[s] /\ HeldBy(s)'[o] = 0
    BY <1>1, <1>2 DEF HeldBy, HoldsStock
  <2>2. SoldBy(s)[o] = 0 /\ SoldBy(s)'[o] = orders[o].items[s]
    BY <1>1, <1>2 DEF SoldBy, WasPaid
  <2>3. orders[o].items[s] \in Nat
    BY QuantityTypes, LimitsAreNatural DEF Quantities
  <2>4. QED
    BY <1>2, <2>1, <2>2, <2>3, OneOrderChanges, SumsAreNatural
<1>4. \A s \in Skus :
        /\ inventory[s] \in [available: Nat, reserved: Nat]
        /\ inventory'[s].available = inventory[s].available
        /\ inventory'[s].reserved = inventory[s].reserved - orders[o].items[s]
  BY DEF PaymentSucceeds, TypeOK, Commit
<1>5. ReservedIsHeld'
  BY <1>3, <1>4 DEF StockInv, ReservedIsHeld
<1>6. StockConserved'
  BY <1>3, <1>4, SumsAreNatural DEF StockInv, StockConserved, PaymentSucceeds
<1>7. UnstockedIsUnused'
  BY <1>2 DEF StockInv, UnstockedIsUnused, PaymentSucceeds
<1>8. QED
  BY <1>5, <1>6, <1>7 DEF StockInv

LEMMA AdvanceStock ==
  ASSUME TypeOK, TypeOK', StockInv, NEW o \in Orders, NEW target, Advance(o, target)
  PROVE  StockInv'
<1>1. WasPaid(orders[o].status) /\ WasPaid(target) /\ ~HoldsStock(orders[o].status) /\ ~HoldsStock(target)
  BY DEF Advance, CanTransition, AllowedOrderTransitions, TypeOK, Order, OrderStatuses,
         WasPaid, HoldsStock
<1>2. /\ orders'[o].status = target
      /\ orders'[o].items = orders[o].items
      /\ \A p \in Orders \ {o} : orders'[p] = orders[p]
  BY TransitionEffect DEF Advance
<1>3. ASSUME NEW s \in Skus
      PROVE  Held(s)' = Held(s) /\ Sold(s)' = Sold(s)
  <2>1. HeldBy(s)[o] = 0 /\ HeldBy(s)'[o] = 0
    BY <1>1, <1>2 DEF HeldBy
  <2>2. SoldBy(s)[o] = orders[o].items[s] /\ SoldBy(s)'[o] = orders[o].items[s]
    BY <1>1, <1>2 DEF SoldBy
  <2>3. orders[o].items[s] \in Nat
    BY QuantityTypes, LimitsAreNatural DEF Quantities
  <2>4. QED
    BY <1>2, <2>1, <2>2, <2>3, OneOrderChanges, SumsAreNatural
<1>4. QED
  BY <1>2, <1>3 DEF Advance, StockInv, ReservedIsHeld, StockConserved, UnstockedIsUnused

LEMMA StockInit == Init => StockInv
<1> SUFFICES ASSUME Init PROVE StockInv
  OBVIOUS
<1>1. TypeOK
  BY InitType
<1>2. ASSUME NEW s \in Skus
      PROVE  Held(s) = 0 /\ Sold(s) = 0
  <2>1. HeldBy(s) \in [Orders -> Quantities] /\ SoldBy(s) \in [Orders -> Quantities]
    BY <1>1, QuantityTypes
  <2>2. \A o \in Orders : HeldBy(s)[o] = 0 /\ SoldBy(s)[o] = 0
    BY DEF Init, NoOrder, HeldBy, SoldBy, HoldsStock, WasPaid
  <2>3. QED
    BY <2>1, <2>2, EmptyTotal DEF Held, Sold, HeldBy, SoldBy
<1>3. UnstockedIsUnused
  BY DEF Init, UnstockedIsUnused, NoOrder, NoItems
<1>4. QED
  BY <1>2, <1>3 DEF Init, StockInv, ReservedIsHeld, StockConserved

LEMMA StockStep == TypeOK /\ TypeOK' /\ StockInv /\ [Commits]_vars => StockInv'
<1> SUFFICES ASSUME TypeOK, TypeOK', StockInv, [Commits]_vars PROVE StockInv'
  OBVIOUS
<1>1. CASE OperatorStep
  <2>1. ASSUME NEW p \in Products, CreateProduct(p) \/ SaveProduct(p) \/ DeleteProduct(p)
        PROVE  StockInv'
    BY <2>1, StockUntouched DEF CreateProduct, SaveProduct, DeleteProduct
  <2>2. ASSUME NEW s \in Skus, UpdateSKU(s)
        PROVE  StockInv'
    <3>1. \A z \in Skus : skus'[z].status = NoStatus <=> skus[z].status = NoStatus
      BY <2>2, CatalogueIsWellFormed DEF UpdateSKU, TypeOK, SKUStatusActive, SKUStatusInactive
    <3>2. QED
      BY <2>2, <3>1, StockUntouched DEF UpdateSKU
  <2>3. QED
    BY <1>1, <2>1, <2>2, CreateSKUStock, AdvanceStock DEF OperatorStep
<1>2. CASE ShopperStep
  <2>1. PICK u \in Users :
          \/ \E s \in Skus : CartAdd(u, s) \/ CartUpdate(u, s) \/ CartDelete(u, s)
          \/ CartClear(u)
          \/ \E k \in Keys, c \in Coupons \cup {Null} : Checkout(u, k, c)
          \/ \E o \in Orders : Cancel(u, o)
    BY <1>2 DEF ShopperStep
  <2>2. CASE \/ \E s \in Skus : CartAdd(u, s) \/ CartUpdate(u, s) \/ CartDelete(u, s)
             \/ CartClear(u)
    BY <2>2, StockUntouched DEF CartAdd, CartUpdate, CartDelete, CartClear
  <2>3. CASE \E k \in Keys, c \in Coupons \cup {Null} : Checkout(u, k, c)
    BY <2>3, CheckoutIsPurchase, PurchaseStock
  <2>4. CASE \E o \in Orders : Cancel(u, o)
    BY <2>4, ReleaseStock DEF Cancel
  <2>5. QED
    BY <2>1, <2>2, <2>3, <2>4
<1>3. CASE PaymentStep
  <2>1. ASSUME NEW o \in Orders, CreatePayment(o)
        PROVE  StockInv'
    BY <2>1, StockUntouched DEF CreatePayment
  <2>2. ASSUME NEW o \in Orders, NEW e \in Events, PaymentFails(e, o) \/ PaymentRepeats(e, o)
        PROVE  StockInv'
    BY <2>2, StockUntouched DEF PaymentFails, PaymentRepeats
  <2>3. QED
    BY <1>3, <2>1, <2>2, PaymentStock DEF PaymentStep
<1>4. CASE \E o \in Orders : Expire(o)
  BY <1>4, ReleaseStock DEF Expire
<1>5. CASE Tick
  BY <1>5, StockUntouched DEF Tick
<1>6. CASE UNCHANGED vars
  BY <1>6, StockUntouched DEF vars
<1>7. CASE \E u \in Users, k \in Keys, c \in Coupons \cup {Null} : Purchase(u, k, c)
  BY <1>7, PurchaseStock
<1>8. QED
  BY <1>1, <1>2, <1>3, <1>4, <1>5, <1>6, <1>7 DEF Next, Commits

LEMMA StockInvariant == Spec => []StockInv
<1>1. TypeOK /\ TypeOK' /\ StockInv /\ [Next]_vars => StockInv'
  BY StockStep DEF Commits
<1>2. QED
  BY <1>1, StockInit, TypeCorrect, PTL DEF Spec

\* Checkouts, releases and payments, in whatever order they commit, lose no unit
\* of a SKU and sell none twice: what is on the shelf, held and sold is always
\* what the operator entered.
THEOREM StockSafe == Spec => []StockConserved
<1>1. StockInv => StockConserved
  BY DEF StockInv
<1>2. QED
  BY <1>1, StockInvariant, PTL

\* The reserved column is exactly what the pending orders hold: nothing that
\* closes an order forgets its units or gives them back twice.
THEOREM ReservationsMatch == Spec => []ReservedIsHeld
<1>1. StockInv => ReservedIsHeld
  BY DEF StockInv
<1>2. QED
  BY <1>1, StockInvariant, PTL

\* The conditional updates of ReleaseInventory and CommitInventory find enough
\* reserved units for every pending order.
UpdatesMatch ==
  \A o \in Orders : HoldsStock(orders[o].status) =>
    \A s \in Skus : HasReserved(inventory[s], orders[o].items[s])

LEMMA ReservedUnitsSuffice == TypeOK /\ ReservedIsHeld => UpdatesMatch
<1> SUFFICES ASSUME TypeOK, ReservedIsHeld, NEW o \in Orders, HoldsStock(orders[o].status),
                    NEW s \in Skus
             PROVE  HasReserved(inventory[s], orders[o].items[s])
  BY DEF UpdatesMatch
<1> DEFINE rest == {unit \in Units(HeldBy(s)) : unit[1] # o}
<1>1. HeldBy(s) \in [Orders -> Quantities] /\ orders[o].items[s] \in Quantities
  BY QuantityTypes
<1>2. Total(HeldBy(s)) = Cardinality(rest) + HeldBy(s)[o] /\ Cardinality(rest) \in Nat
  BY <1>1, SplitTotal
<1>3. HeldBy(s)[o] = orders[o].items[s] /\ inventory[s].reserved = Total(HeldBy(s))
  BY DEF HeldBy, ReservedIsHeld, Held
<1>4. orders[o].items[s] \in Nat
  BY <1>1, LimitsAreNatural DEF Quantities
<1> HIDE DEF rest
<1>5. QED
  BY <1>2, <1>3, <1>4 DEF HasReserved

LEMMA UpdatesAlwaysMatch == Spec => []UpdatesMatch
  BY ReservedUnitsSuffice, TypeCorrect, ReservationsMatch, PTL

-----------------------------------------------------------------------------
(* 3. What follows an order. *)

USE DEF UsageReserved, UsageConsumed, UsageReleased,
        PaymentPending, PaymentSucceeded, PaymentFailed, CallbackSuccess, CallbackFailure

-----------------------------------------------------------------------------
(* What the steps do to the order that they are about. *)

\* The moves that the service makes.
LEMMA Moves ==
  ASSUME NEW order \in Order, NEW target, CanTransition(order, target)
  PROVE  /\ order.status = PendingPayment => target \in {Paid, Cancelled, Expired}
         /\ order.status = Paid => target = Processing
         /\ order.status = Processing => target = Completed
         /\ order.status \in {PendingPayment, Paid, Processing}
  BY DEF CanTransition, AllowedOrderTransitions, Order, OrderStatuses

\* A step moves order o to target at the time now.
Moved(o, target, now) ==
  /\ CanTransition(orders[o], target)
  /\ orders' = [orders EXCEPT ![o] = Transition(@, target, now)]

\* Checkout puts a new row in the place of o.
Placed(o, u, k, c, now) ==
  /\ orders[o].status = NoStatus
  /\ \E items, original, discount :
       orders' = [orders EXCEPT ![o] = NewOrder(u, k, c, items, original, discount, now)]

\* The columns that a transition writes, and those that it does not.
LEMMA MovedRow ==
  ASSUME TypeOK, NEW o \in Orders, NEW target, NEW now, Moved(o, target, now)
  PROVE  /\ orders'[o].user = orders[o].user /\ orders'[o].key = orders[o].key
         /\ orders'[o].coupon = orders[o].coupon /\ orders'[o].items = orders[o].items
         /\ orders'[o].original = orders[o].original /\ orders'[o].discount = orders[o].discount
         /\ orders'[o].expiresAt = orders[o].expiresAt
         /\ orders'[o].status = target /\ orders'[o].version = orders[o].version + 1
         /\ orders'[o].paidAt = IF target = Paid THEN now ELSE orders[o].paidAt
         /\ orders'[o].history =
              Append(orders[o].history, [from |-> orders[o].status, to |-> target])
         /\ orders[o] \in Order
         /\ \A p \in Orders \ {o} : orders'[p] = orders[p]
<1>1. /\ orders'[o] = Transition(orders[o], target, now)
      /\ orders[o] \in Order
      /\ \A p \in Orders \ {o} : orders'[p] = orders[p]
  BY DEF TypeOK, Moved
<1>2. QED
  BY <1>1 DEF Transition, Order

LEMMA PlacedRow ==
  ASSUME TypeOK, NEW o \in Orders, NEW u, NEW k, NEW c, NEW now, Placed(o, u, k, c, now)
  PROVE  /\ orders'[o].user = u /\ orders'[o].key = k /\ orders'[o].coupon = c
         /\ orders'[o].status = PendingPayment /\ orders'[o].version = 1
         /\ orders'[o].history = <<[from |-> NoStatus, to |-> PendingPayment]>>
         /\ \A p \in Orders \ {o} : orders'[p] = orders[p]
<1>1. PICK items, original, discount :
        orders' = [orders EXCEPT ![o] = NewOrder(u, k, c, items, original, discount, now)]
  BY DEF Placed
<1>2. orders'[o] = NewOrder(u, k, c, items, original, discount, now)
  BY <1>1 DEF TypeOK
<1>3. QED
  BY <1>1, <1>2 DEF NewOrder, TypeOK

tables == <<orders, usages, payments, events>>

\* The steps that write these tables.
Creates ==
  \E o \in Orders, u \in Users, k \in Keys, c \in Coupons \cup {Null}, now \in Stamps :
    /\ Placed(o, u, k, c, now) /\ KeyUnused(u, k)
    /\ c # Null => \E subtotal : CouponApplies(c, u, subtotal, now)
    /\ usages' = IF c = Null THEN usages ELSE [usages EXCEPT ![o] = UsageReserved]
    /\ UNCHANGED <<payments, events>>
Closes ==
  \E o \in Orders, target \in {Cancelled, Expired}, now \in Stamps :
    /\ Moved(o, target, now) /\ MoveUsage(o, UsageReleased)
    /\ UNCHANGED <<payments, events>>
Advances ==
  \E o \in Orders, target \in {Processing, Completed}, now \in Stamps :
    /\ Moved(o, target, now)
    /\ UNCHANGED <<usages, payments, events>>
Pays ==
  \E o \in Orders, e \in Events, now \in Stamps :
    /\ orders[o].status = PendingPayment /\ Unexpired(orders[o], now)
    /\ Moved(o, Paid, now) /\ MoveUsage(o, UsageConsumed)
    /\ payments' = [payments EXCEPT ![o] = PaymentSucceeded]
    /\ RecordEvent(e, o, CallbackSuccess)
Attempts ==
  \E o \in Orders :
    /\ orders[o].status = PendingPayment
    /\ \E status \in {PaymentPending, PaymentFailed} : payments' = [payments EXCEPT ![o] = status]
    /\ UNCHANGED events \/ \E e \in Events : RecordEvent(e, o, CallbackFailure)
    /\ UNCHANGED <<orders, usages>>
Records ==
  \E o \in Orders, e \in Events, status \in {CallbackSuccess, CallbackFailure} :
    /\ status = CallbackSuccess => WasPaid(orders[o].status)
    /\ RecordEvent(e, o, status)
    /\ UNCHANGED <<orders, usages, payments>>

Ordered == UNCHANGED tables \/ Creates \/ Closes \/ Advances \/ Pays \/ Attempts \/ Records

LEMMA PurchaseIsOrdered ==
  ASSUME TypeOK, NEW u \in Users, NEW k \in Keys, NEW c \in Coupons \cup {Null},
         Purchase(u, k, c)
  PROVE  Ordered
<1>1. PICK o \in Orders, now \in Stamps :
        /\ orders[o].status = NoStatus /\ KeyUnused(u, k)
        /\ c # Null => CouponApplies(c, u, Subtotal(u), now)
        /\ orders' = [orders EXCEPT ![o] =
             NewOrder(u, k, c, carts[u], Subtotal(u),
                      IF c = Null THEN 0 ELSE Discount(CouponOf[c], Subtotal(u)), now)]
        /\ usages' = IF c = Null THEN usages ELSE [usages EXCEPT ![o] = UsageReserved]
        /\ UNCHANGED <<payments, events>>
  BY DEF Purchase
<1>2. Placed(o, u, k, c, now)
  BY <1>1 DEF Placed
<1>3. QED
  BY <1>1, <1>2 DEF Ordered, Creates

LEMMA StepIsOrdered == TypeOK /\ [Commits]_vars => Ordered
<1> SUFFICES ASSUME TypeOK, [Commits]_vars PROVE Ordered
  OBVIOUS
<1>1. CASE OperatorStep
  <2>1. ASSUME NEW p \in Products, CreateProduct(p) \/ SaveProduct(p) \/ DeleteProduct(p)
        PROVE  UNCHANGED tables
    BY <2>1 DEF CreateProduct, SaveProduct, DeleteProduct, tables
  <2>2. ASSUME NEW s \in Skus, CreateSKU(s) \/ UpdateSKU(s)
        PROVE  UNCHANGED tables
    BY <2>2 DEF CreateSKU, UpdateSKU, tables
  <2>3. ASSUME NEW o \in Orders, NEW target, Advance(o, target)
        PROVE  Ordered
    BY <2>3 DEF Advance, Ordered, Advances, Moved
  <2>4. QED
    BY <1>1, <2>1, <2>2, <2>3 DEF OperatorStep, Ordered
<1>2. CASE ShopperStep
  <2>1. PICK u \in Users :
          \/ \E s \in Skus : CartAdd(u, s) \/ CartUpdate(u, s) \/ CartDelete(u, s)
          \/ CartClear(u)
          \/ \E k \in Keys, c \in Coupons \cup {Null} : Checkout(u, k, c)
          \/ \E o \in Orders : Cancel(u, o)
    BY <1>2 DEF ShopperStep
  <2>2. CASE \/ \E s \in Skus : CartAdd(u, s) \/ CartUpdate(u, s) \/ CartDelete(u, s)
             \/ CartClear(u)
    BY <2>2 DEF CartAdd, CartUpdate, CartDelete, CartClear, tables, Ordered
  <2>3. ASSUME NEW k \in Keys, NEW c \in Coupons \cup {Null}, Checkout(u, k, c)
        PROVE  Ordered
    BY <2>3, CheckoutIsPurchase, PurchaseIsOrdered
  <2>4. ASSUME NEW o \in Orders, Cancel(u, o)
        PROVE  Ordered
    BY <2>4 DEF Cancel, ReleaseOrder, Moved, Ordered, Closes
  <2>5. QED
    BY <2>1, <2>2, <2>3, <2>4
<1>3. CASE PaymentStep
  <2>1. PICK o \in Orders :
          \/ CreatePayment(o)
          \/ \E e \in Events : PaymentFails(e, o) \/ PaymentRepeats(e, o) \/ PaymentSucceeds(e, o)
    BY <1>3 DEF PaymentStep
  <2>2. CASE CreatePayment(o)
    BY <2>2 DEF CreatePayment, Ordered, Attempts
  <2>3. ASSUME NEW e \in Events, PaymentFails(e, o)
        PROVE  Ordered
    <3>1. CASE payments[o] = PaymentPending
      BY <2>3, <3>1 DEF PaymentFails, Ordered, Attempts
    <3>2. CASE payments[o] # PaymentPending
      <4>1. payments' = payments
        BY <2>3, <3>2 DEF PaymentFails, TypeOK
      <4>2. QED
        BY <2>3, <4>1 DEF PaymentFails, Ordered, Records
    <3>3. QED
      BY <3>1, <3>2
  <2>4. ASSUME NEW e \in Events, PaymentRepeats(e, o)
        PROVE  Ordered
    BY <2>4 DEF PaymentRepeats, Ordered, Records
  <2>5. ASSUME NEW e \in Events, PaymentSucceeds(e, o)
        PROVE  Ordered
    BY <2>5 DEF PaymentSucceeds, Ordered, Pays, Moved
  <2>6. QED
    BY <2>1, <2>2, <2>3, <2>4, <2>5
<1>4. CASE \E o \in Orders : Expire(o)
  BY <1>4 DEF Expire, ReleaseOrder, Moved, Ordered, Closes
<1>5. CASE Tick
  BY <1>5 DEF Tick, tables, Ordered
<1>6. CASE UNCHANGED vars
  BY <1>6 DEF vars, tables, Ordered
<1>7. CASE \E u \in Users, k \in Keys, c \in Coupons \cup {Null} : Purchase(u, k, c)
  BY <1>7, PurchaseIsOrdered
<1>8. QED
  BY <1>1, <1>2, <1>3, <1>4, <1>5, <1>6, <1>7 DEF Next, Commits

-----------------------------------------------------------------------------
(* Coupons. *)

\* What CouponFollowsOrder says of one order.
UsageOf(order) ==
  IF order.coupon = Null \/ order.status = NoStatus THEN NoStatus
  ELSE IF order.status = PendingPayment THEN UsageReserved
  ELSE IF WasPaid(order.status) THEN UsageConsumed
  ELSE UsageReleased

LEMMA CouponFollowsStep ==
  ASSUME TypeOK, TypeOK', CouponFollowsOrder, Ordered
  PROVE  CouponFollowsOrder'
<1>1. \A o \in Orders : usages[o] = UsageOf(orders[o])
  BY DEF CouponFollowsOrder, UsageOf
<1>2. SUFFICES \A o \in Orders : usages'[o] = UsageOf(orders'[o])
  BY DEF CouponFollowsOrder, UsageOf
<1>3. CASE UNCHANGED tables \/ Attempts \/ Records
  BY <1>1, <1>3 DEF tables, Attempts, Records
<1>4. CASE Creates
  <2>1. PICK o \in Orders, u \in Users, k \in Keys, c \in Coupons \cup {Null}, now \in Stamps :
          /\ Placed(o, u, k, c, now)
          /\ usages' = IF c = Null THEN usages ELSE [usages EXCEPT ![o] = UsageReserved]
    BY <1>4 DEF Creates
  <2>2. /\ orders'[o].status = PendingPayment /\ orders'[o].coupon = c
        /\ \A p \in Orders \ {o} : orders'[p] = orders[p]
    BY <2>1, PlacedRow
  <2>3. usages'[o] = UsageOf(orders'[o])
    <3>1. orders[o].status = NoStatus
      BY <2>1 DEF Placed
    <3>2. QED
      BY <1>1, <2>1, <2>2, <3>1 DEF UsageOf, TypeOK
  <2>4. \A p \in Orders \ {o} : usages'[p] = usages[p]
    BY <2>1 DEF TypeOK
  <2>5. QED
    BY <1>1, <2>2, <2>3, <2>4
<1>5. ASSUME NEW o \in Orders, NEW target, NEW now, Moved(o, target, now),
             \/ target \in {Cancelled, Expired} /\ MoveUsage(o, UsageReleased)
             \/ target = Paid /\ MoveUsage(o, UsageConsumed)
             \/ target \in {Processing, Completed} /\ UNCHANGED usages
      PROVE  \A p \in Orders : usages'[p] = UsageOf(orders'[p])
  <2>1. /\ orders'[o].status = target /\ orders'[o].coupon = orders[o].coupon
        /\ \A p \in Orders \ {o} : orders'[p] = orders[p]
    BY <1>5, MovedRow
  <2>2. /\ orders[o].status \in {PendingPayment, Paid, Processing}
        /\ orders[o].status = PendingPayment => target \in {Paid, Cancelled, Expired}
        /\ orders[o].status = Paid => target = Processing
        /\ orders[o].status = Processing => target = Completed
    BY <1>5, Moves, MovedRow DEF Moved
  <2>3. usages'[o] = UsageOf(orders'[o])
    BY <1>1, <1>5, <2>1, <2>2 DEF UsageOf, WasPaid, MoveUsage, TypeOK
  <2>4. \A p \in Orders \ {o} : usages'[p] = usages[p]
    BY <1>5 DEF MoveUsage, TypeOK
  <2>5. QED
    BY <1>1, <2>1, <2>3, <2>4
<1>6. CASE Closes
  BY <1>5, <1>6 DEF Closes
<1>7. CASE Advances
  BY <1>5, <1>7 DEF Advances
<1>8. CASE Pays
  BY <1>5, <1>8 DEF Pays
<1>9. QED
  BY <1>3, <1>4, <1>6, <1>7, <1>8 DEF Ordered

-----------------------------------------------------------------------------
(* Payments. *)

\* What PaymentFollowsOrder says of one order.
Agree(payment, order) ==
  /\ payment = PaymentSucceeded <=> WasPaid(order.status)
  /\ WasPaid(order.status) => order.paidAt # Null /\ order.paidAt < order.expiresAt

LEMMA PaymentFollowsStep ==
  ASSUME TypeOK, TypeOK', PaymentFollowsOrder, Ordered
  PROVE  PaymentFollowsOrder'
<1>1. \A o \in Orders : Agree(payments[o], orders[o])
  BY DEF PaymentFollowsOrder, Agree
<1>2. SUFFICES \A o \in Orders : Agree(payments'[o], orders'[o])
  BY DEF PaymentFollowsOrder, Agree
<1>3. CASE UNCHANGED tables \/ Records
  BY <1>1, <1>3 DEF tables, Records
<1>4. CASE Creates
  <2>1. PICK o \in Orders, u \in Users, k \in Keys, c \in Coupons \cup {Null}, now \in Stamps :
          Placed(o, u, k, c, now) /\ UNCHANGED payments
    BY <1>4 DEF Creates
  <2>2. orders[o].status = NoStatus
    BY <2>1 DEF Placed
  <2>3. orders'[o].status = PendingPayment /\ \A p \in Orders \ {o} : orders'[p] = orders[p]
    BY <2>1, PlacedRow
  <2>4. QED
    BY <1>1, <2>1, <2>2, <2>3 DEF Agree, WasPaid
<1>5. CASE Closes \/ Advances
  <2>1. PICK o \in Orders, target \in {Cancelled, Expired, Processing, Completed}, now \in Stamps :
          Moved(o, target, now) /\ UNCHANGED payments
    BY <1>5 DEF Closes, Advances
  <2>2. /\ orders'[o].status = target
        /\ orders'[o].paidAt = orders[o].paidAt /\ orders'[o].expiresAt = orders[o].expiresAt
        /\ orders[o] \in Order
        /\ \A p \in Orders \ {o} : orders'[p] = orders[p]
    BY <2>1, MovedRow
  <2>3. WasPaid(target) <=> WasPaid(orders[o].status)
    BY <2>1, <2>2, Moves DEF Moved, WasPaid
  <2>4. QED
    BY <1>1, <2>1, <2>2, <2>3 DEF Agree
<1>6. CASE Pays
  <2>1. PICK o \in Orders, now \in Stamps :
          /\ Unexpired(orders[o], now) /\ Moved(o, Paid, now)
          /\ payments' = [payments EXCEPT ![o] = PaymentSucceeded]
    BY <1>6 DEF Pays
  <2>2. /\ orders'[o].status = Paid
        /\ orders'[o].paidAt = now /\ orders'[o].expiresAt = orders[o].expiresAt
        /\ \A p \in Orders \ {o} : orders'[p] = orders[p]
    BY <2>1, MovedRow
  <2>3. now # Null /\ now < orders[o].expiresAt
    BY <2>1, StampsAreNatural, TablesAreFinite DEF Unexpired
  <2>4. payments'[o] = PaymentSucceeded /\ \A p \in Orders \ {o} : payments'[p] = payments[p]
    BY <2>1 DEF TypeOK
  <2>5. QED
    BY <1>1, <2>2, <2>3, <2>4 DEF Agree, WasPaid
<1>7. CASE Attempts
  <2>1. PICK o \in Orders, status \in {PaymentPending, PaymentFailed} :
          /\ orders[o].status = PendingPayment
          /\ payments' = [payments EXCEPT ![o] = status]
          /\ UNCHANGED orders
    BY <1>7 DEF Attempts
  <2>2. payments'[o] = status /\ \A p \in Orders \ {o} : payments'[p] = payments[p]
    BY <2>1 DEF TypeOK
  <2>3. QED
    BY <1>1, <2>1, <2>2 DEF Agree, WasPaid
<1>8. QED
  BY <1>3, <1>4, <1>5, <1>6, <1>7 DEF Ordered

\* A step keeps the amount of an order that has been paid, and its status among
\* those of paid orders.
LEMMA PaidStays ==
  ASSUME TypeOK, Ordered, NEW o \in Orders, WasPaid(orders[o].status)
  PROVE  WasPaid(orders'[o].status) /\ Payable(orders'[o]) = Payable(orders[o])
<1>1. CASE UNCHANGED tables \/ Attempts \/ Records
  BY <1>1 DEF tables, Attempts, Records
<1>2. CASE Creates
  <2>1. PICK p \in Orders, u \in Users, k \in Keys, c \in Coupons \cup {Null}, now \in Stamps :
          Placed(p, u, k, c, now)
    BY <1>2 DEF Creates
  <2>2. orders[p].status = NoStatus
    BY <2>1 DEF Placed
  <2>3. \A q \in Orders \ {p} : orders'[q] = orders[q]
    BY <2>1, PlacedRow
  <2>4. QED
    BY <2>2, <2>3 DEF WasPaid
<1>3. CASE Closes \/ Advances \/ Pays
  <2>1. PICK p \in Orders, target \in OrderStatuses, now \in Stamps : Moved(p, target, now)
    BY <1>3 DEF Closes, Advances, Pays, OrderStatuses
  <2>2. /\ orders'[p].status = target
        /\ orders'[p].original = orders[p].original /\ orders'[p].discount = orders[p].discount
        /\ orders[p] \in Order
        /\ \A q \in Orders \ {p} : orders'[q] = orders[q]
    BY <2>1, MovedRow
  <2>3. WasPaid(orders[p].status) => WasPaid(target)
    BY <2>1, <2>2, Moves DEF Moved, WasPaid
  <2>4. QED
    BY <2>2, <2>3 DEF Payable
<1>4. QED
  BY <1>1, <1>2, <1>3 DEF Ordered

LEMMA CallbacksHonouredStep ==
  ASSUME TypeOK, TypeOK', CallbacksHonoured, Ordered
  PROVE  CallbacksHonoured'
<1>1. ASSUME NEW row \in events, row.status = CallbackSuccess
      PROVE  WasPaid(orders'[row.order].status) /\ row.amount = Payable(orders'[row.order])
  <2>1. row.order \in Orders
    BY DEF TypeOK, Callback
  <2>2. QED
    BY <1>1, <2>1, PaidStays DEF CallbacksHonoured
<1>2. CASE UNCHANGED events /\ \A o \in Orders : WasPaid(orders'[o].status) => WasPaid(orders[o].status)
  BY <1>1, <1>2 DEF CallbacksHonoured
<1>3. ASSUME NEW o \in Orders, NEW e \in Events, NEW status, RecordEvent(e, o, status),
             status = CallbackSuccess =>
               WasPaid(orders'[o].status) /\ Payable(orders'[o]) = Payable(orders[o]),
             \A p \in Orders :
               WasPaid(orders'[p].status) =>
                 WasPaid(orders[p].status) \/ (p = o /\ status = CallbackSuccess)
      PROVE  CallbacksHonoured'
  <2> DEFINE new == [event |-> e, order |-> o, amount |-> Payable(orders[o]), status |-> status]
  <2>1. events' = events \cup {new} /\ \A row \in events : row.event # e
    BY <1>3 DEF RecordEvent
  <2>2. new.event = e /\ new.order = o /\ new.amount = Payable(orders[o]) /\ new.status = status
    OBVIOUS
  <2> HIDE DEF new
  <2>3. \A row \in events' :
          row.status = CallbackSuccess =>
            WasPaid(orders'[row.order].status) /\ row.amount = Payable(orders'[row.order])
    BY <1>1, <1>3, <2>1, <2>2
  <2>4. \A p \in Orders :
          WasPaid(orders'[p].status) =>
            \E row \in events' : row.order = p /\ row.status = CallbackSuccess
    BY <1>3, <2>1, <2>2 DEF CallbacksHonoured
  <2>5. \A r1, r2 \in events' : r1.event = r2.event => r1 = r2
    BY <2>1, <2>2 DEF CallbacksHonoured
  <2>6. QED
    BY <2>3, <2>4, <2>5 DEF CallbacksHonoured
<1>4. CASE UNCHANGED tables
  BY <1>2, <1>4 DEF tables
<1>5. CASE Creates
  <2>1. PICK o \in Orders, u \in Users, k \in Keys, c \in Coupons \cup {Null}, now \in Stamps :
          Placed(o, u, k, c, now) /\ UNCHANGED events
    BY <1>5 DEF Creates
  <2>2. orders'[o].status = PendingPayment /\ \A p \in Orders \ {o} : orders'[p] = orders[p]
    BY <2>1, PlacedRow
  <2>3. QED
    BY <1>2, <2>1, <2>2 DEF WasPaid
<1>6. CASE Closes \/ Advances
  <2>1. PICK o \in Orders, target \in {Cancelled, Expired, Processing, Completed}, now \in Stamps :
          Moved(o, target, now) /\ UNCHANGED events
    BY <1>6 DEF Closes, Advances
  <2>2. /\ orders'[o].status = target /\ orders[o] \in Order
        /\ \A p \in Orders \ {o} : orders'[p] = orders[p]
    BY <2>1, MovedRow
  <2>3. WasPaid(target) => WasPaid(orders[o].status)
    BY <2>1, <2>2, Moves DEF Moved, WasPaid
  <2>4. QED
    BY <1>2, <2>1, <2>2, <2>3
<1>7. CASE Pays
  <2>1. PICK o \in Orders, e \in Events, now \in Stamps :
          Moved(o, Paid, now) /\ RecordEvent(e, o, CallbackSuccess)
    BY <1>7 DEF Pays
  <2>2. /\ orders'[o].status = Paid
        /\ orders'[o].original = orders[o].original /\ orders'[o].discount = orders[o].discount
        /\ \A p \in Orders \ {o} : orders'[p] = orders[p]
    BY <2>1, MovedRow
  <2>3. WasPaid(orders'[o].status) /\ Payable(orders'[o]) = Payable(orders[o])
    BY <2>2 DEF WasPaid, Payable
  <2>4. QED
    BY <1>3, <2>1, <2>2, <2>3
<1>8. CASE Attempts \/ Records
  <2>1. CASE UNCHANGED <<orders, events>>
    BY <1>2, <2>1
  <2>2. ASSUME NEW o \in Orders, NEW e \in Events, NEW status, RecordEvent(e, o, status),
               status = CallbackSuccess => WasPaid(orders[o].status), UNCHANGED orders
        PROVE  CallbacksHonoured'
    BY <1>3, <2>2
  <2>3. QED
    BY <1>8, <2>1, <2>2 DEF Attempts, Records
<1>9. QED
  BY <1>4, <1>5, <1>6, <1>7, <1>8 DEF Ordered

-----------------------------------------------------------------------------
(* Histories. *)

\* What a step does to one order: nothing, a checkout or a transition.
LEMMA OrderStep ==
  ASSUME TypeOK, Ordered, NEW o \in Orders
  PROVE  \/ orders'[o] = orders[o]
         \/ \E u \in Users, k \in Keys, c \in Coupons \cup {Null}, now \in Stamps :
              Placed(o, u, k, c, now)
         \/ \E target \in OrderStatuses, now \in Stamps : Moved(o, target, now)
<1>1. CASE UNCHANGED tables \/ Attempts \/ Records
  BY <1>1 DEF tables, Attempts, Records
<1>2. CASE Creates
  <2>1. PICK p \in Orders, u \in Users, k \in Keys, c \in Coupons \cup {Null}, now \in Stamps :
          Placed(p, u, k, c, now)
    BY <1>2 DEF Creates
  <2>2. \A q \in Orders \ {p} : orders'[q] = orders[q]
    BY <2>1, PlacedRow
  <2>3. QED
    BY <2>1, <2>2
<1>3. CASE Closes \/ Advances \/ Pays
  <2>1. PICK p \in Orders, target \in OrderStatuses, now \in Stamps : Moved(p, target, now)
    BY <1>3 DEF Closes, Advances, Pays, OrderStatuses
  <2>2. \A q \in Orders \ {p} : orders'[q] = orders[q]
    BY <2>1, MovedRow
  <2>3. QED
    BY <2>1, <2>2
<1>4. QED
  BY <1>1, <1>2, <1>3 DEF Ordered

\* What HistoryIsLegal says of one order.
Legal(order) ==
  /\ Len(order.history) = order.version
  /\ order.status # NoStatus =>
       order.history # <<>> /\ order.history[Len(order.history)].to = order.status
  /\ \A i \in 2..Len(order.history) :
       /\ order.history[i].from = order.history[i - 1].to
       /\ order.history[i].to \in AllowedOrderTransitions[order.history[i].from]

\* A legal history stays legal when a transition is appended to it.
LEMMA MovedIsLegal ==
  ASSUME TypeOK, NEW o \in Orders, NEW target, NEW now, Moved(o, target, now), Legal(orders[o])
  PROVE  Legal(orders'[o])
<1> DEFINE before == orders[o].history
           row == [from |-> orders[o].status, to |-> target]
<1>1. /\ orders'[o].history = Append(before, row)
      /\ orders'[o].version = orders[o].version + 1
      /\ orders'[o].status = target
      /\ before \in Seq([from: OrderStatuses \cup {NoStatus}, to: OrderStatuses])
  BY MovedRow DEF Order
<1>2. /\ orders[o].status # NoStatus
      /\ target \in AllowedOrderTransitions[orders[o].status]
  BY Moves, MovedRow DEF Moved, CanTransition
<1>3. row.from = orders[o].status /\ row.to = target
  OBVIOUS
<1> HIDE DEF row
<1>4. /\ Len(before) \in Nat \ {0} /\ Len(before) = orders[o].version
      /\ before[Len(before)].to = orders[o].status
      /\ \A i \in 2..Len(before) :
           /\ before[i].from = before[i - 1].to
           /\ before[i].to \in AllowedOrderTransitions[before[i].from]
  BY <1>1, <1>2 DEF Legal
<1> HIDE DEF before
<1> DEFINE after == Append(before, row)
<1>5. /\ Len(after) = Len(before) + 1
      /\ after[Len(after)] = row
      /\ \A i \in 1..Len(before) : after[i] = before[i]
  BY <1>1
<1> HIDE DEF after
<1>6. ASSUME NEW i \in 2..Len(after)
      PROVE  /\ after[i].from = after[i - 1].to
             /\ after[i].to \in AllowedOrderTransitions[after[i].from]
  <2> DEFINE n == Len(before)
  <2>1. n \in Nat \ {0} /\ Len(after) = n + 1
    BY <1>4, <1>5
  <2> HIDE DEF n
  <2>2. i \in Int /\ 2 <= i /\ i <= n + 1
    BY <2>1
  <2>3. CASE i <= n
    <3>1. i \in 2..n /\ i \in 1..n /\ i - 1 \in 1..n
      BY <2>1, <2>2, <2>3
    <3>2. after[i] = before[i] /\ after[i - 1] = before[i - 1]
      BY <1>5, <3>1 DEF n
    <3>3. QED
      BY <1>4, <3>1, <3>2 DEF n
  <2>4. CASE i = n + 1
    <3>1. n \in 1..n /\ i - 1 = n
      BY <2>1, <2>4
    <3>2. after[i] = row /\ after[i - 1] = before[n]
      BY <1>5, <2>1, <2>4, <3>1 DEF n
    <3>3. before[n].to = orders[o].status
      BY <1>4 DEF n
    <3>4. QED
      BY <1>2, <1>3, <3>2, <3>3
  <2>5. QED
    BY <2>1, <2>2, <2>3, <2>4
<1>7. after # <<>>
  BY <1>4, <1>5
<1>8. QED
  BY <1>1, <1>3, <1>4, <1>5, <1>6, <1>7 DEF Legal, after

LEMMA HistoryStep ==
  ASSUME TypeOK, HistoryIsLegal, Ordered
  PROVE  HistoryIsLegal'
<1>1. \A o \in Orders : Legal(orders[o])
  BY DEF HistoryIsLegal, Legal
<1>2. SUFFICES ASSUME NEW o \in Orders PROVE Legal(orders'[o])
  BY DEF HistoryIsLegal, Legal
<1>3. ASSUME NEW u, NEW k, NEW c, NEW now, Placed(o, u, k, c, now)
      PROVE  Legal(orders'[o])
  <2> DEFINE first == <<[from |-> NoStatus, to |-> PendingPayment]>>
  <2>1. /\ orders'[o].history = first /\ orders'[o].version = 1
        /\ orders'[o].status = PendingPayment
    BY <1>3, PlacedRow
  <2>2. Len(first) = 1 /\ first # <<>> /\ first[1].to = PendingPayment
    OBVIOUS
  <2>3. 2..1 = {}
    OBVIOUS
  <2> HIDE DEF first
  <2>4. QED
    BY <2>1, <2>2, <2>3 DEF Legal
<1>4. QED
  BY <1>1, <1>3, OrderStep, MovedIsLegal

-----------------------------------------------------------------------------
(* The limits of a coupon. *)

\* An order whose usage counts against the limits of its coupon.
Counts(order) == order.status = PendingPayment \/ WasPaid(order.status)

LEMMA ActiveAreCounted ==
  ASSUME CouponFollowsOrder, NEW c \in Coupons
  PROVE  ActiveUsages(c) = {o \in Orders : orders[o].coupon = c /\ Counts(orders[o])}
<1>1. c # Null
  BY TablesAreFinite
<1>2. ASSUME NEW o \in Orders, orders[o].coupon = c
      PROVE  usages[o] \in {UsageReserved, UsageConsumed} <=> Counts(orders[o])
  BY <1>1, <1>2 DEF CouponFollowsOrder, Counts, WasPaid
<1>3. QED
  BY <1>2 DEF ActiveUsages

\* Only a checkout makes an order count that did not count before.
LEMMA CountedBefore ==
  ASSUME TypeOK, UNCHANGED tables \/ Closes \/ Advances \/ Pays \/ Attempts \/ Records,
         NEW o \in Orders, Counts(orders'[o])
  PROVE  /\ Counts(orders[o])
         /\ orders'[o].coupon = orders[o].coupon /\ orders'[o].user = orders[o].user
<1>1. CASE UNCHANGED tables \/ Attempts \/ Records
  BY <1>1 DEF tables, Attempts, Records
<1>2. CASE Closes \/ Advances \/ Pays
  <2>1. PICK p \in Orders, target \in OrderStatuses, now \in Stamps : Moved(p, target, now)
    BY <1>2 DEF Closes, Advances, Pays, OrderStatuses
  <2>2. /\ orders'[p].status = target
        /\ orders'[p].coupon = orders[p].coupon /\ orders'[p].user = orders[p].user
        /\ orders[p] \in Order
        /\ \A q \in Orders \ {p} : orders'[q] = orders[q]
    BY <2>1, MovedRow
  <2>3. Counts(orders[p])
    BY <2>1, <2>2, Moves DEF Moved, Counts, WasPaid
  <2>4. QED
    BY <2>2, <2>3
<1>3. QED
  BY <1>1, <1>2

LEMMA ActiveUsagesFinite ==
  ASSUME NEW c, NEW u
  PROVE  /\ IsFiniteSet(ActiveUsages(c)) /\ Cardinality(ActiveUsages(c)) \in Nat
         /\ IsFiniteSet(ActiveUsagesOf(c, u)) /\ Cardinality(ActiveUsagesOf(c, u)) \in Nat
<1>1. ActiveUsages(c) \subseteq Orders /\ ActiveUsagesOf(c, u) \subseteq Orders
  BY DEF ActiveUsages, ActiveUsagesOf
<1>2. QED
  BY <1>1, TablesAreFinite, FS_Subset, FS_CardinalityType

\* A set that does not grow, or grows by one, and its size.
LEMMA AtMostOneMore ==
  ASSUME NEW S, NEW T, IsFiniteSet(S), NEW o
  PROVE  /\ T \subseteq S => Cardinality(T) <= Cardinality(S)
         /\ T \subseteq S \cup {o} => Cardinality(T) <= Cardinality(S) + 1
<1>1. Cardinality(S) \in Nat
  BY FS_CardinalityType
<1>2. IsFiniteSet(S \cup {o}) /\ Cardinality(S \cup {o}) \in {Cardinality(S), Cardinality(S) + 1}
  BY FS_AddElement
<1>3. ASSUME NEW U, IsFiniteSet(U), T \subseteq U
      PROVE  Cardinality(T) <= Cardinality(U)
  BY <1>3, FS_Subset
<1>4. ASSUME T \subseteq S \cup {o}
      PROVE  Cardinality(T) <= Cardinality(S) + 1
  <2>1. Cardinality(T) <= Cardinality(S \cup {o}) /\ Cardinality(T) \in Nat
    BY <1>2, <1>3, <1>4, FS_Subset, FS_CardinalityType
  <2>2. QED
    BY <1>1, <1>2, <2>1
<1>5. QED
  BY <1>3, <1>4

\* Checkout tests both limits before it reserves one more use.
LEMMA CouponLimitsStep ==
  ASSUME TypeOK, CouponFollowsOrder, CouponFollowsOrder', CouponLimits, Ordered
  PROVE  CouponLimits'
<1>1. ASSUME NEW c \in Coupons, NEW o \in ActiveUsages(c)'
      PROVE  o \in Orders /\ orders'[o].coupon = c /\ Counts(orders'[o])
  <2>1. o \in Orders /\ orders'[o].coupon = c /\ usages'[o] \in {UsageReserved, UsageConsumed}
    BY DEF ActiveUsages
  <2>2. QED
    BY <2>1 DEF CouponFollowsOrder, Counts
<1>2. ASSUME NEW c \in Coupons, NEW o \in Orders, orders[o].coupon = c, Counts(orders[o])
      PROVE  o \in ActiveUsages(c)
  BY <1>2, ActiveAreCounted
<1>3. ASSUME NEW c \in Coupons
      PROVE  /\ CouponOf[c].usageLimit \in Nat /\ CouponOf[c].perUserLimit \in Nat
             /\ Cardinality(ActiveUsages(c)) <= CouponOf[c].usageLimit
             /\ \A u \in Users : Cardinality(ActiveUsagesOf(c, u)) <= CouponOf[c].perUserLimit
  BY CatalogueIsWellFormed DEF CouponRow, CouponLimits
<1>4. ASSUME NEW c \in Coupons, ActiveUsages(c)' \subseteq ActiveUsages(c),
             \A o \in ActiveUsages(c)' : orders'[o].user = orders[o].user
      PROVE  /\ Cardinality(ActiveUsages(c)') <= CouponOf[c].usageLimit
             /\ \A u \in Users : Cardinality(ActiveUsagesOf(c, u)') <= CouponOf[c].perUserLimit
  <2>1. Cardinality(ActiveUsages(c)') <= Cardinality(ActiveUsages(c))
        /\ Cardinality(ActiveUsages(c)') \in Nat
    BY <1>4, ActiveUsagesFinite, AtMostOneMore, FS_Subset, FS_CardinalityType
  <2>2. ASSUME NEW u \in Users
        PROVE  Cardinality(ActiveUsagesOf(c, u)') <= CouponOf[c].perUserLimit
    <3>1. ActiveUsagesOf(c, u)' \subseteq ActiveUsagesOf(c, u)
      BY <1>4 DEF ActiveUsagesOf
    <3>2. Cardinality(ActiveUsagesOf(c, u)') <= Cardinality(ActiveUsagesOf(c, u))
          /\ Cardinality(ActiveUsagesOf(c, u)') \in Nat
      BY <3>1, ActiveUsagesFinite, AtMostOneMore, FS_Subset, FS_CardinalityType
    <3>3. QED
      BY <1>3, <3>2, ActiveUsagesFinite
  <2>3. QED
    BY <1>3, <2>1, <2>2, ActiveUsagesFinite
<1>5. CASE Creates
  <2>1. PICK o \in Orders, u \in Users, k \in Keys, c \in Coupons \cup {Null}, now \in Stamps :
          /\ Placed(o, u, k, c, now)
          /\ c # Null => \E subtotal : CouponApplies(c, u, subtotal, now)
    BY <1>5 DEF Creates
  <2>2. /\ orders'[o].coupon = c /\ orders'[o].user = u
        /\ \A p \in Orders \ {o} : orders'[p] = orders[p]
    BY <2>1, PlacedRow
  <2>3. ASSUME NEW d \in Coupons, d # c
        PROVE  /\ Cardinality(ActiveUsages(d)') <= CouponOf[d].usageLimit
               /\ \A v \in Users : Cardinality(ActiveUsagesOf(d, v)') <= CouponOf[d].perUserLimit
    <3>1. \A p \in ActiveUsages(d)' : p \in Orders \ {o} /\ orders'[p] = orders[p]
      BY <1>1, <2>2, <2>3
    <3>2. ActiveUsages(d)' \subseteq ActiveUsages(d)
      BY <1>1, <1>2, <3>1
    <3>3. QED
      BY <1>4, <3>1, <3>2
  <2>4. ASSUME c \in Coupons
        PROVE  /\ Cardinality(ActiveUsages(c)') <= CouponOf[c].usageLimit
               /\ \A v \in Users : Cardinality(ActiveUsagesOf(c, v)') <= CouponOf[c].perUserLimit
    <3>1. /\ Cardinality(ActiveUsages(c)) < CouponOf[c].usageLimit
          /\ Cardinality(ActiveUsagesOf(c, u)) < CouponOf[c].perUserLimit
      BY <2>1, <2>4, TablesAreFinite DEF CouponApplies, BelowLimits
    <3>2. \A p \in ActiveUsages(c)' \ {o} : p \in ActiveUsages(c) /\ orders'[p] = orders[p]
      BY <1>1, <1>2, <2>2, <2>4
    <3>3. ActiveUsages(c)' \subseteq ActiveUsages(c) \cup {o}
      BY <3>2
    <3>4. Cardinality(ActiveUsages(c)') <= Cardinality(ActiveUsages(c)) + 1
      BY <3>3, ActiveUsagesFinite, AtMostOneMore
    <3>5. ActiveUsagesOf(c, u)' \subseteq ActiveUsagesOf(c, u) \cup {o}
      BY <3>2 DEF ActiveUsagesOf
    <3>6. Cardinality(ActiveUsagesOf(c, u)') <= Cardinality(ActiveUsagesOf(c, u)) + 1
      BY <3>5, ActiveUsagesFinite, AtMostOneMore
    <3>7. \A S : IsFiniteSet(S) => Cardinality(S) \in Nat
      BY FS_CardinalityType
    <3>8. Cardinality(ActiveUsages(c)') \in Nat /\ Cardinality(ActiveUsagesOf(c, u)') \in Nat
      BY <3>3, <3>5, <3>7, ActiveUsagesFinite, FS_Subset, FS_AddElement
    <3>9. ASSUME NEW v \in Users \ {u}
          PROVE  Cardinality(ActiveUsagesOf(c, v)') <= CouponOf[c].perUserLimit
      <4>1. ActiveUsagesOf(c, v)' \subseteq ActiveUsagesOf(c, v)
        BY <2>2, <3>2 DEF ActiveUsagesOf
      <4>2. Cardinality(ActiveUsagesOf(c, v)') <= Cardinality(ActiveUsagesOf(c, v))
            /\ Cardinality(ActiveUsagesOf(c, v)') \in Nat
        BY <4>1, ActiveUsagesFinite, AtMostOneMore, FS_Subset, FS_CardinalityType
      <4>3. QED
        BY <1>3, <2>4, <4>2, ActiveUsagesFinite
    <3>10. Cardinality(ActiveUsages(c)') <= CouponOf[c].usageLimit
      BY <1>3, <2>4, <3>1, <3>4, <3>8, ActiveUsagesFinite
    <3>11. Cardinality(ActiveUsagesOf(c, u)') <= CouponOf[c].perUserLimit
      BY <1>3, <2>4, <3>1, <3>6, <3>8, ActiveUsagesFinite
    <3>12. QED
      BY <3>9, <3>10, <3>11
  <2>5. QED
    BY <2>3, <2>4 DEF CouponLimits
<1>6. CASE UNCHANGED tables \/ Closes \/ Advances \/ Pays \/ Attempts \/ Records
  <2>1. ASSUME NEW c \in Coupons
        PROVE  /\ ActiveUsages(c)' \subseteq ActiveUsages(c)
               /\ \A o \in ActiveUsages(c)' : orders'[o].user = orders[o].user
    BY <1>1, <1>2, <1>6, CountedBefore
  <2>2. QED
    BY <1>4, <2>1 DEF CouponLimits
<1>7. QED
  BY <1>5, <1>6 DEF Ordered

-----------------------------------------------------------------------------
(* Closed orders. *)

\* What ClosedOrdersStay says of one step.
ClosedStay ==
  \A o \in Orders :
    orders[o].status \in {Cancelled, Expired, Completed} =>
      orders'[o] = orders[o] /\ usages'[o] = usages[o] /\ payments'[o] = payments[o]

\* A step that writes only the order q and what belongs to it.
Only(q) ==
  \A o \in Orders \ {q} :
    orders'[o] = orders[o] /\ usages'[o] = usages[o] /\ payments'[o] = payments[o]

LEMMA ClosedStep ==
  ASSUME TypeOK, Ordered
  PROVE  ClosedStay
<1>1. ASSUME NEW q \in Orders, Only(q), orders[q].status \in {NoStatus, PendingPayment, Paid, Processing}
      PROVE  ClosedStay
  BY <1>1 DEF Only, ClosedStay
<1>2. CASE UNCHANGED tables \/ Records
  BY <1>2 DEF tables, Records, ClosedStay
<1>3. CASE Creates
  <2>1. PICK o \in Orders, u \in Users, k \in Keys, c \in Coupons \cup {Null}, now \in Stamps :
          /\ Placed(o, u, k, c, now)
          /\ usages' = IF c = Null THEN usages ELSE [usages EXCEPT ![o] = UsageReserved]
          /\ UNCHANGED payments
    BY <1>3 DEF Creates
  <2>2. Only(o)
    BY <2>1, PlacedRow DEF Only, TypeOK
  <2>3. QED
    BY <1>1, <2>1, <2>2 DEF Placed
<1>4. CASE Closes \/ Advances \/ Pays
  <2>1. PICK o, target, now :
          /\ o \in Orders /\ Moved(o, target, now)
          /\ UNCHANGED usages \/ MoveUsage(o, UsageReleased) \/ MoveUsage(o, UsageConsumed)
          /\ UNCHANGED payments \/ payments' = [payments EXCEPT ![o] = PaymentSucceeded]
    BY <1>4 DEF Closes, Advances, Pays
  <2>2. Only(o)
    BY <2>1, MovedRow DEF Only, MoveUsage, TypeOK
  <2>3. orders[o].status \in {PendingPayment, Paid, Processing}
    BY <2>1, MovedRow, Moves DEF Moved
  <2>4. QED
    BY <1>1, <2>1, <2>2, <2>3
<1>5. CASE Attempts
  <2>1. PICK o \in Orders, status \in {PaymentPending, PaymentFailed} :
          /\ orders[o].status = PendingPayment
          /\ payments' = [payments EXCEPT ![o] = status]
          /\ UNCHANGED <<orders, usages>>
    BY <1>5 DEF Attempts
  <2>2. Only(o)
    BY <2>1 DEF Only, TypeOK
  <2>3. QED
    BY <1>1, <2>1, <2>2
<1>6. QED
  BY <1>2, <1>3, <1>4, <1>5 DEF Ordered

-----------------------------------------------------------------------------
(* The theorems. *)

OrderInv ==
  /\ CouponFollowsOrder
  /\ CouponLimits
  /\ PaymentFollowsOrder
  /\ CallbacksHonoured
  /\ HistoryIsLegal

LEMMA OrderInvInit == Init => OrderInv
<1> SUFFICES ASSUME Init PROVE OrderInv
  OBVIOUS
<1>1. \A o \in Orders : orders[o].status = NoStatus /\ orders[o].history = <<>> /\ orders[o].version = 0
                        /\ usages[o] = NoStatus /\ payments[o] = NoStatus
  BY DEF Init, NoOrder
<1>2. CouponFollowsOrder /\ PaymentFollowsOrder
  BY <1>1 DEF CouponFollowsOrder, PaymentFollowsOrder, WasPaid
<1>3. CallbacksHonoured
  BY <1>1 DEF Init, CallbacksHonoured, WasPaid
<1>4. HistoryIsLegal
  BY <1>1 DEF HistoryIsLegal
<1>5. CouponLimits
  <2>1. ASSUME NEW c, NEW u
        PROVE  Cardinality(ActiveUsages(c)) = 0 /\ Cardinality(ActiveUsagesOf(c, u)) = 0
    <3>1. ActiveUsages(c) = {} /\ ActiveUsagesOf(c, u) = {}
      BY <1>1 DEF ActiveUsages, ActiveUsagesOf
    <3>2. QED
      BY <3>1, FS_EmptySet
  <2>2. QED
    BY <2>1, CatalogueIsWellFormed DEF CouponLimits, CouponRow
<1>6. QED
  BY <1>2, <1>3, <1>4, <1>5 DEF OrderInv

LEMMA OrderInvStep == TypeOK /\ TypeOK' /\ OrderInv /\ [Commits]_vars => OrderInv'
<1> SUFFICES ASSUME TypeOK, TypeOK', OrderInv, Ordered PROVE OrderInv'
  BY StepIsOrdered
<1>1. CouponFollowsOrder' /\ PaymentFollowsOrder' /\ CallbacksHonoured' /\ HistoryIsLegal'
  BY CouponFollowsStep, PaymentFollowsStep, CallbacksHonouredStep, HistoryStep DEF OrderInv
<1>2. CouponLimits'
  BY <1>1, CouponLimitsStep DEF OrderInv
<1>3. QED
  BY <1>1, <1>2 DEF OrderInv

LEMMA OrderInvariant == Spec => []OrderInv
<1>1. TypeOK /\ TypeOK' /\ OrderInv /\ [Next]_vars => OrderInv'
  BY OrderInvStep DEF Commits
<1>2. QED
  BY <1>1, OrderInvInit, TypeCorrect, PTL DEF Spec

\* Whichever of a payment, a cancellation and the expiry worker closes an order
\* first, its coupon usage goes with it, and none is left reserved or released
\* twice.
THEOREM CouponsFollow == Spec => []CouponFollowsOrder
<1>1. OrderInv => CouponFollowsOrder
  BY DEF OrderInv
<1>2. QED
  BY <1>1, OrderInvariant, PTL

\* However many customers check out with a coupon, and however many of their
\* orders are released and made anew, neither of its limits is exceeded.
THEOREM CouponsAreLimited == Spec => []CouponLimits
<1>1. OrderInv => CouponLimits
  BY DEF OrderInv
<1>2. QED
  BY <1>1, OrderInvariant, PTL

\* No callback, late, repeated or contradicting another one, sets the payment
\* and the status of an order at odds, or pays an order after its expiry.
THEOREM PaymentsFollow == Spec => []PaymentFollowsOrder
<1>1. OrderInv => PaymentFollowsOrder
  BY DEF OrderInv
<1>2. QED
  BY <1>1, OrderInvariant, PTL

\* A SUCCESS that the service has recorded is never given up: its order counts
\* as paid from then on, with the amount that the provider confirmed.
THEOREM CallbacksAreHonoured == Spec => []CallbacksHonoured
<1>1. OrderInv => CallbacksHonoured
  BY DEF OrderInv
<1>2. QED
  BY <1>1, OrderInvariant, PTL

\* The rows of order_status_histories tell the story of every order: they form
\* a path of the state machine that ends in its status, one row per version.
THEOREM HistoriesAreLegal == Spec => []HistoryIsLegal
<1>1. OrderInv => HistoryIsLegal
  BY DEF OrderInv
<1>2. QED
  BY <1>1, OrderInvariant, PTL

\* No later request, retry, callback or worker writes an order that has been
\* cancelled, expired or completed, nor its coupon usage or its payment.
THEOREM ClosedForGood == Spec => ClosedOrdersStay
<1>1. TypeOK /\ [Next]_vars => [ClosedStay]_vars
  BY StepIsOrdered, ClosedStep DEF Commits
<1>2. Spec => [][ClosedStay]_vars
  BY <1>1, TypeCorrect, PTL DEF Spec
<1>3. QED
  BY <1>2 DEF ClosedOrdersStay, ClosedStay

\* What ReleaseOrder asks of a pending order, before a time plays a part.
PendingCanBeReleased ==
  \A o \in Orders, target \in {Cancelled, Expired} :
    orders[o].status = PendingPayment =>
      /\ CanTransition(orders[o], target)
      /\ \A s \in Skus : HasReserved(inventory[s], orders[o].items[s])
      /\ orders[o].coupon # Null => usages[o] = UsageReserved

\* No sequence of requests, callbacks and passes makes an order that Cancel or
\* ExpireBatch must reject for its stock, its coupon or its status: the rows that
\* ExpireBatch skips after an error were changed by other means.
THEOREM NoOrderIsStuck == Spec => []PendingCanBeReleased
<1>1. TypeOK /\ UpdatesMatch /\ CouponFollowsOrder => PendingCanBeReleased
  <2> SUFFICES ASSUME TypeOK, UpdatesMatch, CouponFollowsOrder,
                      NEW o \in Orders, orders[o].status = PendingPayment
               PROVE  /\ \A target \in {Cancelled, Expired} : CanTransition(orders[o], target)
                      /\ \A s \in Skus : HasReserved(inventory[s], orders[o].items[s])
                      /\ orders[o].coupon # Null => usages[o] = UsageReserved
    BY DEF PendingCanBeReleased
  <2>1. \A target \in {Cancelled, Expired} : CanTransition(orders[o], target)
    BY DEF CanTransition, AllowedOrderTransitions
  <2>2. \A s \in Skus : HasReserved(inventory[s], orders[o].items[s])
    BY DEF UpdatesMatch, HoldsStock
  <2>3. orders[o].coupon # Null => usages[o] = UsageReserved
    BY DEF CouponFollowsOrder
  <2>4. QED
    BY <2>1, <2>2, <2>3
<1>2. QED
  BY <1>1, TypeCorrect, UpdatesAlwaysMatch, CouponsFollow, PTL
=============================================================================
