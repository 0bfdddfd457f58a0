----------------------------- MODULE MCCheckoutTx -----------------------------
(***************************************************************************)
(* Values of the constants of CheckoutTx for TLC.                          *)
(***************************************************************************)
EXTENDS CheckoutTx, TLC

CONSTANTS u1, u2, s1, s2, p1, p2, c1, o1, o2, k1, k2, e1, r1, r2, r3, r4, r5, r6, r7, r8, r9, null

OneProduct == [s \in Skus |-> p1]
TwoProducts == [s \in Skus |-> IF s = s1 THEN p1 ELSE p2]
TwoAndOne  == [s \in Skus |-> IF s = s1 THEN 2 ELSE 1]
Rank       == [s \in Skus |-> IF s = s1 THEN 1 ELSE 2]

\* Public, half of the order, once in all.
LastCoupon ==
  [c \in Coupons |->
     [type |-> Percentage, value |-> 5000, minimum |-> 1, startAt |-> 0, endAt |-> 9,
      usageLimit |-> 1, perUserLimit |-> 1, user |-> null]]

At1 == [status |-> SKUStatusActive, price |-> 1]
At2 == [status |-> SKUStatusActive, price |-> 2]
Off == [status |-> SKUStatusInactive, price |-> 2]
AtOne       == {At1}
AnyInput    == {At1, At2, Off}
OnSaleOnly  == {StatusOnSale}

\* Order identifiers are interchangeable; used for safety properties only.
SameOrders == Permutations(Orders)

Buy(user, key, coupon) ==
  [op |-> "checkout", user |-> user, key |-> key, coupon |-> coupon, event |-> null]
Closing(op, user, event) ==
  [op |-> op, user |-> user, key |-> null, coupon |-> null, event |-> event]

\* The requests of the scenarios below.
Asked ==
  [r \in Requests |->
     CASE r = r1 -> Buy(u1, k1, c1)
       [] r = r2 -> Buy(u1, k1, null)
       [] r = r3 -> Buy(u1, k1, null)
       [] r = r4 -> Buy(u1, k2, null)
       [] r = r5 -> Buy(u2, k1, c1)
       [] r = r6 -> Buy(u2, k1, null)
       [] r = r7 -> Closing("expire", null, null)
       [] r = r8 -> Closing("cancel", u1, null)
       [] r = r9 -> Closing("pay", null, e1)]

\* What may happen together: these requests, these shoppers filling carts with
\* these SKUs, SKUs in these states (s2 is never repriced), and time up to `until`.
Scenario(requests, users, listed, inputs, until) ==
  [requests |-> requests, users |-> users, skus |-> listed, inputs |-> inputs, until |-> until]

\* Two checkouts with different keys of one shopper, who goes on shopping.
CartRace == Scenario({r2, r4}, {u1}, {s1, s2}, {At1, At2}, 0)
\* A request, its retry, and a different request under the same key.
SameKey == Scenario({r1, r2, r3}, {u1}, {s1}, {At2, Off}, 0)
\* Two shoppers after the last use of the coupon.
LastUse == Scenario({r1, r5}, {u1, u2}, {s1}, {At2, Off}, 0)
\* Two shoppers after the last unit.
LastUnit == Scenario({r4, r5}, {u1, u2}, {s2}, {At1}, 0)
\* Two shoppers check out two lines each.
LineLocks == Scenario({r2, r6}, {u1, u2}, {s1, s2}, {At1}, 0)
\* A worker expires the order of one checkout while the next one is running.
ExpiryRace == Scenario({r2, r4, r7}, {u1}, {s1, s2}, {At1}, 1)
\* The shopper cancels an order of two lines while checking out the next one.
CancelRace == Scenario({r2, r4, r8}, {u1}, {s1, s2}, {At1}, 0)
\* Both products are written while a checkout of two lines is running.
Delisting == Scenario({r2}, {u1}, {s1, s2}, {At1}, 0)
\* Cancellation, expiry and payment of one order.
CloseRace == Scenario({r1, r7, r8, r9}, {u1}, {s1}, {At2}, 2)

Within(sc) ==
  /\ \A r \in Requests \ sc.requests : pc[r] = "idle"
  /\ \A u \in Users \ sc.users : carts[u] = NoItems
  /\ \A s \in Skus : skus[s].status = NoStatus \/ (s \in sc.skus /\ skus[s] \in sc.inputs)
  /\ \A s \in Skus \ {s1} : skus[s].status = NoStatus \/ skus[s] = At1
  /\ clock <= sc.until

\* The first product is on sale before the second one exists, and both stay so.
NotDelisted ==
  /\ \A p \in Products : products[p] \in {NoStatus, StatusOnSale}
  /\ \A p \in Products : products[p] = StatusOnSale => products[p1] = StatusOnSale

\* TLC explores the behaviours that are within one of the scenarios.
OrderScenarios == \E sc \in {CartRace, SameKey, LastUse, LastUnit, CloseRace} : Within(sc)
LineScenarios ==
  \/ Within(LineLocks) /\ NotDelisted
  \/ /\ \E sc \in {ExpiryRace, CancelRace} : Within(sc)
     /\ NotDelisted
     /\ pc[r4] # "idle" => pc[r2] = "done"
  \/ Within(Delisting) /\ (carts[u1] # NoItems => \A s \in Skus : skus[s] = At1)
=============================================================================
