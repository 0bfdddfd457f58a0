------------------------------- MODULE Commerce -------------------------------
(***************************************************************************)
(* What the commerce core promises: carts, checkout, orders, coupons,      *)
(* payments and stock, with one action per service method that commits a   *)
(* database transaction.  A method that rejects its request rolls back, so *)
(* it is not a step.  How a transaction is built from row locks and        *)
(* statements is the subject of CheckoutTx.                                *)
(*                                                                         *)
(* Sources: internal/service/commerce_service.go, payment.go,              *)
(* order_state.go, the SKU and product writes of service.go, and           *)
(* internal/repository/commerce.go.                                        *)
(***************************************************************************)
EXTENDS OrderState, Pricing, FiniteSets, FiniteSetsExt

CONSTANTS
  Users, Skus, Products, Coupons,
  Orders,           \* identifiers that the orders table may hand out
  Keys,             \* values of the Idempotency-Key header
  Events,           \* event identifiers of the payment provider
  Null,             \* SQL NULL, and the absent optional argument
  ProductOf,        \* the product of each SKU
  CouponOf,         \* the coupon rows: only the seed writes them
  InitialStock,     \* the stock an operator enters when creating each SKU
  SkuInputs,        \* the [status, price] an operator may submit for a SKU
  ProductInputs,    \* the product statuses an operator may submit
  MaxCartQuantity,  \* the quantity limit of one cart line
  MaxOrderItems,    \* the number of lines of one order
  OrderPaymentTTL,  \* how long a pending order keeps its reservations
  RequestTimeout,   \* how long before its commit a transaction read the time
  MaxTime           \* bound of the model: the clock stops here

SKUStatusActive   == "active"
SKUStatusInactive == "inactive"
StatusOnSale  == "on_sale"
StatusDraft   == "draft"
StatusSoldOut == "sold_out"
StatusDeleted == "deleted"       \* deleted_at is set

UsageReserved == "RESERVED"
UsageConsumed == "CONSUMED"
UsageReleased == "RELEASED"

PaymentPending   == "PENDING"
PaymentSucceeded == "SUCCEEDED"
PaymentFailed    == "FAILED"

CallbackSuccess == "SUCCESS"
CallbackFailure == "FAILURE"

CouponRow == [type: {FixedDiscount, ThresholdDiscount, Percentage},
              value: Nat \ {0}, minimum: Nat, startAt: Nat, endAt: Nat,
              usageLimit: Nat \ {0}, perUserLimit: Nat \ {0},
              user: Users \cup {Null}]

ASSUME TablesAreFinite ==
  /\ IsFiniteSet(Orders)
  /\ Null \notin Users \cup Coupons \cup Keys \cup Nat

ASSUME CatalogueIsWellFormed ==
  /\ ProductOf \in [Skus -> Products]
  /\ CouponOf \in [Coupons -> CouponRow]
  /\ InitialStock \in [Skus -> Nat]
  /\ SkuInputs \subseteq [status: {SKUStatusActive, SKUStatusInactive}, price: Nat]
  /\ ProductInputs \subseteq {StatusOnSale, StatusDraft, StatusSoldOut}

ASSUME LimitsAreNatural ==
  /\ MaxCartQuantity \in Nat /\ MaxOrderItems \in Nat
  /\ OrderPaymentTTL \in Nat \ {0} /\ RequestTimeout \in Nat /\ MaxTime \in Nat

VARIABLES
  clock,      \* the wall clock every replica reads
  products,   \* products[p]: the status of the product row
  skus,       \* skus[s]: status and price of the SKU row
  inventory,  \* inventory[s]: available and reserved stock
  carts,      \* carts[u][s]: the quantity of the cart line, 0 for no row
  orders,     \* orders[o]: order row, its items and its history
  usages,     \* usages[o]: status of the coupon usage of order o
  payments,   \* payments[o]: status of the payment of order o
  events      \* the rows of payment_webhook_events

vars == <<clock, products, skus, inventory, carts, orders, usages, payments, events>>

-----------------------------------------------------------------------------
(* Rows. *)

Quantities == 0..MaxCartQuantity
Items == [Skus -> Quantities]
NoItems == [s \in Skus |-> 0]

NoOrder == [user |-> Null, key |-> Null, coupon |-> Null, items |-> NoItems,
            original |-> 0, discount |-> 0, status |-> NoStatus, version |-> 0,
            expiresAt |-> 0, paidAt |-> Null, cancelledAt |-> Null, history |-> <<>>]

NewOrder(user, key, coupon, items, original, discount, now) ==
  [user |-> user, key |-> key, coupon |-> coupon, items |-> items,
   original |-> original, discount |-> discount, status |-> PendingPayment, version |-> 1,
   expiresAt |-> now + OrderPaymentTTL, paidAt |-> Null, cancelledAt |-> Null,
   history |-> <<[from |-> NoStatus, to |-> PendingPayment]>>]

Payable(order) == order.original - order.discount

Callback == [event: Events, order: Orders, amount: Int,
             status: {CallbackSuccess, CallbackFailure}]

Init ==
  /\ clock = 0
  /\ products = [p \in Products |-> NoStatus]
  /\ skus = [s \in Skus |-> [status |-> NoStatus, price |-> 0]]
  /\ inventory = [s \in Skus |-> [available |-> 0, reserved |-> 0]]
  /\ carts = [u \in Users |-> NoItems]
  /\ orders = [o \in Orders |-> NoOrder]
  /\ usages = [o \in Orders |-> NoStatus]
  /\ payments = [o \in Orders |-> NoStatus]
  /\ events = {}

-----------------------------------------------------------------------------
(* Stock: the conditional updates of internal/repository/commerce.go.  A    *)
(* quantity of 0 stands for a SKU that the order has no line for.           *)

\* Broken variant: off by one.
CanReserveOneTooMany(stock, quantity) == stock.available + 1 >= quantity
CanReserve(stock, quantity) == stock.available >= quantity

Reserve(stock, quantity) ==
  [available |-> stock.available - quantity, reserved |-> stock.reserved + quantity]

\* The guard of ReleaseInventory and of CommitInventory.
HasReserved(stock, quantity) == stock.reserved >= quantity

\* Broken variant: the units do not return to the shelf.
ReleaseLost(stock, quantity) == [stock EXCEPT !.reserved = @ - quantity]
Release(stock, quantity) ==
  [available |-> stock.available + quantity, reserved |-> stock.reserved - quantity]

\* Broken variant: a paid order keeps its reservation.
CommitForgotten(stock, quantity) == stock
Commit(stock, quantity) == [stock EXCEPT !.reserved = @ - quantity]

-----------------------------------------------------------------------------
(* Reads that the guards are made of. *)

\* The time a transaction that commits now may have read.
Stamps == {t \in 0..clock : clock - t <= RequestTimeout}

Saleable(s) ==
  /\ skus[s].status = SKUStatusActive
  /\ products[ProductOf[s]] = StatusOnSale

\* The rows of a user's cart.
Lines(u) == {s \in Skus : carts[u][s] > 0}

\* originalAmount once every line has passed AmountTooLarge.
Subtotal(u) == MapThenSumSet(LAMBDA s : skus[s].price * carts[u][s], Lines(u))

\* FindOrderByIdempotency finds nothing.
KeyUnused(u, k) == \A o \in Orders : ~(orders[o].user = u /\ orders[o].key = k)

\* CouponUsageCounts: a released usage no longer counts.
ActiveUsages(c) ==
  {o \in Orders : orders[o].coupon = c /\ usages[o] \in {UsageReserved, UsageConsumed}}
ActiveUsagesOf(c, u) == {o \in ActiveUsages(c) : orders[o].user = u}

CouponApplies(c, u, subtotal, now) ==
  /\ CouponActive(CouponOf[c], now)
  /\ CouponBelongsTo(CouponOf[c], u, Null)
  /\ MinimumReached(CouponOf[c], subtotal)
  /\ BelowLimits(CouponOf[c], Cardinality(ActiveUsages(c)), Cardinality(ActiveUsagesOf(c, u)))
  /\ CouponWellFormed(CouponOf[c])

\* Broken variant: the usage is forgotten.
UsageForgotten(o, to) == UNCHANGED usages

\* UpdateCouponUsage from RESERVED, which must match exactly one row.
MoveUsage(o, to) ==
  IF orders[o].coupon = Null
    THEN UNCHANGED usages
    ELSE /\ usages[o] = UsageReserved
         /\ usages' = [usages EXCEPT ![o] = to]

-----------------------------------------------------------------------------
(* The catalogue, written by an operator. *)

CreateProduct(p) ==
  /\ products[p] = NoStatus
  /\ \E status \in ProductInputs : products' = [products EXCEPT ![p] = status]
  /\ UNCHANGED <<clock, skus, inventory, carts, orders, usages, payments, events>>

\* ProductService.Update and Patch: a deleted row is not found.
SaveProduct(p) ==
  /\ products[p] \notin {NoStatus, StatusDeleted}
  /\ \E status \in ProductInputs : products' = [products EXCEPT ![p] = status]
  /\ UNCHANGED <<clock, skus, inventory, carts, orders, usages, payments, events>>

DeleteProduct(p) ==
  /\ products[p] \notin {NoStatus, StatusDeleted}
  /\ products' = [products EXCEPT ![p] = StatusDeleted]
  /\ UNCHANGED <<clock, skus, inventory, carts, orders, usages, payments, events>>

\* The product is looked up before the insert, so it may be deleted by then.
CreateSKU(s) ==
  /\ products[ProductOf[s]] # NoStatus
  /\ skus[s].status = NoStatus
  /\ \E input \in SkuInputs : skus' = [skus EXCEPT ![s] = input]
  /\ inventory' = [inventory EXCEPT ![s] = [available |-> InitialStock[s], reserved |-> 0]]
  /\ UNCHANGED <<clock, products, carts, orders, usages, payments, events>>

\* The stock is not part of the update, and the product is not looked at.
UpdateSKU(s) ==
  /\ skus[s].status # NoStatus
  /\ \E input \in SkuInputs : skus' = [skus EXCEPT ![s] = input]
  /\ UNCHANGED <<clock, products, inventory, carts, orders, usages, payments, events>>

-----------------------------------------------------------------------------
(* The cart of one user.  An item identifier stands for its SKU. *)

CartAdd(u, s) ==
  /\ Saleable(s)
  /\ \E quantity \in 1..MaxCartQuantity : carts' = [carts EXCEPT ![u][s] = quantity]
  /\ UNCHANGED <<clock, products, skus, inventory, orders, usages, payments, events>>

CartUpdate(u, s) ==
  /\ s \in Lines(u)
  /\ Saleable(s)
  /\ \E quantity \in 1..MaxCartQuantity : carts' = [carts EXCEPT ![u][s] = quantity]
  /\ UNCHANGED <<clock, products, skus, inventory, orders, usages, payments, events>>

CartDelete(u, s) ==
  /\ s \in Lines(u)
  /\ carts' = [carts EXCEPT ![u][s] = 0]
  /\ UNCHANGED <<clock, products, skus, inventory, orders, usages, payments, events>>

CartClear(u) ==
  /\ carts' = [carts EXCEPT ![u] = NoItems]
  /\ UNCHANGED <<clock, products, skus, inventory, orders, usages, payments, events>>

-----------------------------------------------------------------------------
(* Orders. *)

\* OrderService.Create, when it commits a new order.  A replay of a used key
\* changes nothing.  The last conjunct bounds the model: the clock must be
\* able to reach the expiry.
Checkout(u, k, c) ==
  \E o \in Orders, now \in Stamps :
    LET subtotal == Subtotal(u)
        discount == IF c = Null THEN 0 ELSE Discount(CouponOf[c], subtotal)
    IN  /\ orders[o].status = NoStatus
        /\ KeyUnused(u, k)
        /\ Lines(u) # {} /\ Cardinality(Lines(u)) <= MaxOrderItems
        /\ \A s \in Lines(u) : Saleable(s)
        /\ subtotal \in 0..MaxAmount
        /\ c # Null => CouponApplies(c, u, subtotal, now)
        /\ \A s \in Lines(u) : CanReserve(inventory[s], carts[u][s])
        /\ inventory' = [s \in Skus |-> Reserve(inventory[s], carts[u][s])]
        /\ orders' = [orders EXCEPT ![o] = NewOrder(u, k, c, carts[u], subtotal, discount, now)]
        /\ usages' = IF c = Null THEN usages ELSE [usages EXCEPT ![o] = UsageReserved]
        /\ carts' = [carts EXCEPT ![u] = NoItems]
        /\ now + OrderPaymentTTL <= MaxTime
        /\ UNCHANGED <<clock, products, skus, payments, events>>

\* What Cancel and ExpireBatch do to an order once they have locked it.
ReleaseOrder(o, target, now) ==
  /\ CanTransition(orders[o], target)
  /\ \A s \in Skus : HasReserved(inventory[s], orders[o].items[s])
  /\ inventory' = [s \in Skus |-> Release(inventory[s], orders[o].items[s])]
  /\ MoveUsage(o, UsageReleased)
  /\ orders' = [orders EXCEPT ![o] = Transition(@, target, now)]
  /\ UNCHANGED <<clock, products, skus, carts, payments, events>>

\* There is no expiry test: an overdue order that no worker has claimed yet
\* may still be cancelled.
Cancel(u, o) ==
  /\ orders[o].user = u
  /\ \E now \in Stamps : ReleaseOrder(o, Cancelled, now)

\* One iteration of ExpireBatch.  SKIP LOCKED lets it claim any overdue order
\* whose predecessors are locked by somebody else.
Expire(o) ==
  \E now \in Stamps :
    /\ orders[o].status = PendingPayment
    /\ orders[o].expiresAt <= now
    /\ ReleaseOrder(o, Expired, now)

\* OrderService.Advance, by an operator.
Advance(o, target) ==
  /\ target \in {Processing, Completed}
  /\ CanTransition(orders[o], target)
  /\ \E now \in Stamps : orders' = [orders EXCEPT ![o] = Transition(@, target, now)]
  /\ UNCHANGED <<clock, products, skus, inventory, carts, usages, payments, events>>

-----------------------------------------------------------------------------
(* Payments. *)

\* Broken variant: a payment at the expiry itself is accepted.
UnexpiredInclusive(order, now) == now <= order.expiresAt
Unexpired(order, now) == now < order.expiresAt

\* PaymentService.Create when the order has no payment yet; otherwise it
\* returns the existing one, whatever its status.
CreatePayment(o) ==
  /\ orders[o].status = PendingPayment
  /\ \E now \in Stamps : Unexpired(orders[o], now)
  /\ payments[o] = NoStatus
  /\ payments' = [payments EXCEPT ![o] = PaymentPending]
  /\ UNCHANGED <<clock, products, skus, inventory, carts, orders, usages, events>>

\* Broken variant: an event identifier may be recorded again.
RecordAnyEvent(e, o, status) ==
  /\ payments[o] # NoStatus
  /\ events' = events \cup {[event |-> e, order |-> o, amount |-> Payable(orders[o]),
                             status |-> status]}

\* RecordWebhookEvent with ON CONFLICT DO NOTHING, when it inserts.  A callback
\* gets this far only with the reference and the amount of the order's payment.
\* An event identifier that is in the table already ends the handler: the same
\* callback is acknowledged, another one rejected.
RecordEvent(e, o, status) ==
  /\ payments[o] # NoStatus
  /\ \A row \in events : row.event # e
  /\ events' = events \cup {[event |-> e, order |-> o, amount |-> Payable(orders[o]),
                             status |-> status]}

PaymentFails(e, o) ==
  /\ RecordEvent(e, o, CallbackFailure)
  /\ orders[o].status = PendingPayment
  /\ payments' = [payments EXCEPT ![o] = IF @ = PaymentPending THEN PaymentFailed ELSE @]
  /\ UNCHANGED <<clock, products, skus, inventory, carts, orders, usages>>

\* A second SUCCESS under a new event identifier.
PaymentRepeats(e, o) ==
  /\ RecordEvent(e, o, CallbackSuccess)
  /\ payments[o] = PaymentSucceeded
  /\ WasPaid(orders[o].status)
  /\ UNCHANGED <<clock, products, skus, inventory, carts, orders, usages, payments>>

PaymentSucceeds(e, o) ==
  \E now \in Stamps :
    /\ RecordEvent(e, o, CallbackSuccess)
    /\ orders[o].status = PendingPayment
    /\ Unexpired(orders[o], now)
    /\ \A s \in Skus : HasReserved(inventory[s], orders[o].items[s])
    /\ inventory' = [s \in Skus |-> Commit(inventory[s], orders[o].items[s])]
    /\ CanTransition(orders[o], Paid)
    /\ orders' = [orders EXCEPT ![o] = Transition(@, Paid, now)]
    /\ MoveUsage(o, UsageConsumed)
    /\ payments' = [payments EXCEPT ![o] = PaymentSucceeded]
    /\ UNCHANGED <<clock, products, skus, carts>>

-----------------------------------------------------------------------------

Tick ==
  /\ clock < MaxTime
  /\ clock' = clock + 1
  /\ UNCHANGED <<products, skus, inventory, carts, orders, usages, payments, events>>

OperatorStep ==
  \/ \E p \in Products : CreateProduct(p) \/ SaveProduct(p) \/ DeleteProduct(p)
  \/ \E s \in Skus : CreateSKU(s) \/ UpdateSKU(s)
  \/ \E o \in Orders : \E target \in OrderStatuses : Advance(o, target)

ShopperStep ==
  \E u \in Users :
    \/ \E s \in Skus : CartAdd(u, s) \/ CartUpdate(u, s) \/ CartDelete(u, s)
    \/ CartClear(u)
    \/ \E k \in Keys, c \in Coupons \cup {Null} : Checkout(u, k, c)
    \/ \E o \in Orders : Cancel(u, o)

PaymentStep ==
  \E o \in Orders :
    \/ CreatePayment(o)
    \/ \E e \in Events : PaymentFails(e, o) \/ PaymentRepeats(e, o) \/ PaymentSucceeds(e, o)

Next ==
  \/ OperatorStep
  \/ ShopperStep
  \/ PaymentStep
  \/ \E o \in Orders : Expire(o)
  \/ Tick

Spec == Init /\ [][Next]_vars

-----------------------------------------------------------------------------
(* Properties. *)

Order ==
  [user: Users \cup {Null}, key: Keys \cup {Null}, coupon: Coupons \cup {Null},
   items: Items, original: 0..MaxAmount, discount: 0..MaxAmount,
   status: OrderStatuses \cup {NoStatus}, version: Nat, expiresAt: Nat,
   paidAt: Nat \cup {Null}, cancelledAt: Nat \cup {Null},
   history: Seq([from: OrderStatuses \cup {NoStatus}, to: OrderStatuses])]

\* Every row has the columns and the CHECK constraints of
\* internal/model/commerce.go: stock and amounts are never negative.
TypeOK ==
  /\ clock \in Nat
  /\ products \in [Products -> {NoStatus, StatusOnSale, StatusDraft, StatusSoldOut, StatusDeleted}]
  /\ skus \in [Skus -> [status: {NoStatus, SKUStatusActive, SKUStatusInactive}, price: Nat]]
  /\ inventory \in [Skus -> [available: Nat, reserved: Nat]]
  /\ carts \in [Users -> Items]
  /\ orders \in [Orders -> Order]
  /\ usages \in [Orders -> {NoStatus, UsageReserved, UsageConsumed, UsageReleased}]
  /\ payments \in [Orders -> {NoStatus, PaymentPending, PaymentSucceeded, PaymentFailed}]
  /\ events \subseteq Callback

\* The sum of a function from orders to quantities: one element per unit.
Units(quantity) ==
  {unit \in Orders \X (1..MaxCartQuantity) : unit[2] <= quantity[unit[1]]}
Total(quantity) == Cardinality(Units(quantity))

\* The units of SKU s that pending orders hold, and that paid orders have taken.
Held(s) == Total([o \in Orders |-> IF HoldsStock(orders[o].status) THEN orders[o].items[s] ELSE 0])
Sold(s) == Total([o \in Orders |-> IF WasPaid(orders[o].status) THEN orders[o].items[s] ELSE 0])

\* Reserved stock is exactly what the pending orders hold, whatever mix of
\* cancellations, expiries and payments closed the others.  The conditional
\* updates of ReleaseInventory and CommitInventory can then never fail.
ReservedIsHeld == \A s \in Skus : inventory[s].reserved = Held(s)

\* No unit is lost, sold twice or conjured up: what is on the shelf, held and
\* sold is what the operator entered.
StockConserved ==
  \A s \in Skus :
    skus[s].status # NoStatus =>
      inventory[s].available + Held(s) + Sold(s) = InitialStock[s]

\* A coupon usage goes with the fate of its order: reserved while it is
\* pending, consumed once paid, released once cancelled or expired.
CouponFollowsOrder ==
  \A o \in Orders :
    usages[o] = IF orders[o].coupon = Null \/ orders[o].status = NoStatus THEN NoStatus
                ELSE IF orders[o].status = PendingPayment THEN UsageReserved
                ELSE IF WasPaid(orders[o].status) THEN UsageConsumed
                ELSE UsageReleased

\* No coupon is held or consumed more often than its two limits allow.
CouponLimits ==
  \A c \in Coupons :
    /\ Cardinality(ActiveUsages(c)) <= CouponOf[c].usageLimit
    /\ \A u \in Users : Cardinality(ActiveUsagesOf(c, u)) <= CouponOf[c].perUserLimit

\* Money and order agree: a payment has succeeded exactly when its order counts
\* as paid, and the payment was accepted before the order's expiry.
PaymentFollowsOrder ==
  \A o \in Orders :
    /\ payments[o] = PaymentSucceeded <=> WasPaid(orders[o].status)
    /\ WasPaid(orders[o].status) =>
         /\ orders[o].paidAt # Null
         /\ orders[o].paidAt < orders[o].expiresAt

\* The callbacks the service has acknowledged for good are honoured: a recorded
\* SUCCESS belongs to a paid order and carries its payable amount, every paid
\* order has one, and no event identifier has two callbacks.
CallbacksHonoured ==
  /\ \A row \in events :
       row.status = CallbackSuccess =>
         WasPaid(orders[row.order].status) /\ row.amount = Payable(orders[row.order])
  /\ \A o \in Orders :
       WasPaid(orders[o].status) =>
         \E row \in events : row.order = o /\ row.status = CallbackSuccess
  /\ \A r1, r2 \in events : r1.event = r2.event => r1 = r2

\* The history of an order is a legal path that ends in its status, one row per
\* version.
HistoryIsLegal ==
  \A o \in Orders :
    LET history == orders[o].history
    IN  /\ Len(history) = orders[o].version
        /\ orders[o].status # NoStatus => history # <<>> /\ history[Len(history)].to = orders[o].status
        /\ \A i \in 2..Len(history) :
             /\ history[i].from = history[i - 1].to
             /\ history[i].to \in AllowedOrderTransitions[history[i].from]

\* A cancelled, expired or completed order is closed: no later request, retry
\* or callback changes the order, its coupon usage or its payment.
ClosedOrdersStay ==
  [][\A o \in Orders :
       orders[o].status \in {Cancelled, Expired, Completed} =>
         orders'[o] = orders[o] /\ usages'[o] = usages[o] /\ payments'[o] = payments[o]]_vars
=============================================================================
