---------------------------- MODULE CheckoutTxProofs ----------------------------
(***************************************************************************)
(* The transactions of CheckoutTx keep the promises of Commerce, for any   *)
(* number of requests and every value of the other constants.              *)
(*                                                                         *)
(* Every request that is under way has a view of the rows it has read:     *)
(* View(r) says what it relies on, HoldsLocks(r) which rows it has locked  *)
(* by then, and Undisturbed(r) what a step of somebody else leaves alone   *)
(* because of these locks.                                                 *)
(***************************************************************************)
EXTENDS CheckoutTx, CommerceProofs

USE DEF NoStatus, PendingPayment, Paid, Processing, Completed, Cancelled, Expired,
        UsageReserved, UsageConsumed, UsageReleased,
        PaymentPending, PaymentSucceeded, PaymentFailed, CallbackSuccess, CallbackFailure,
        SKUStatusActive, SKUStatusInactive, Share, Exclusive

-----------------------------------------------------------------------------
(* Labels and types. *)

CheckoutLabels == {"owner", "key", "cart", "price", "clock", "coupon", "reserve", "save",
                   "answer", "refused", "failed"}
CloseLabels    == {"lock", "event", "stock", "close"}
HasOwner       == {"key", "cart", "price", "clock", "coupon", "reserve", "save"}
HasCart        == {"price", "clock", "coupon", "reserve", "save"}
HasPriced      == {"clock", "coupon", "reserve", "save"}
HasTime        == {"coupon", "reserve", "save"}
HasCoupon      == {"reserve", "save"}
HasOrder       == {"event", "stock", "close"}
HasEvent       == {"stock", "close"}

StockRows == [available: Nat, reserved: Nat]

TxRow == [order: Orders \cup {Null}, version: Nat, items: Items, priced: SUBSET Skus,
          total: 0..MaxAmount, discount: 0..MaxAmount, now: Nat,
          stock: [Skus -> StockRows \cup {Null}]]

Replies == [kind: {"none", "order", "conflict", "unknown", "rejected"},
            order: Orders \cup {Null}]

\* A request runs the statements of its operation.
Follows(r) ==
  /\ pc[r] \in CheckoutLabels => Request[r].op = "checkout"
  /\ pc[r] \in CloseLabels => Request[r].op # "checkout"

TxTypes ==
  /\ pc \in [Requests -> Labels]
  /\ tx \in [Requests -> TxRow]
  /\ replies \in [Requests -> Replies]
  /\ \A r \in Requests : Follows(r)

LEMMA Asks ==
  ASSUME NEW r \in Requests
  PROVE  /\ Request[r].op \in {"checkout", "cancel", "expire", "pay"}
         /\ Request[r].coupon \in Coupons \cup {Null}
         /\ Request[r].op = "checkout" => Request[r].user \in Users /\ Request[r].key \in Keys
         /\ Request[r].op = "cancel" => Request[r].user \in Users
         /\ Request[r].op = "pay" => Request[r].event \in Events
  BY RequestsAreWellFormed

LEMMA NothingIsNatural == 0 \in 0..MaxAmount /\ NoItems \in Items
  BY MaxAmountIsPositive, LimitsAreNatural DEF NoItems, Items, Quantities

LEMMA NoTxType == NoTx \in TxRow
  BY NothingIsNatural DEF NoTx, TxRow, NoStock

LEMMA RollbackType ==
  ASSUME TxTypes, NEW r \in Requests, NEW label \in Labels, Rollback(r, label)
  PROVE  /\ tx' \in [Requests -> TxRow] /\ tx'[r] = NoTx
         /\ pc' \in [Requests -> Labels] /\ pc'[r] = label
  BY NoTxType DEF Rollback, Goto, TxTypes

-----------------------------------------------------------------------------
(* Locks. *)

\* The locks of one request, and whether one of them is on this row.
LocksOf(r) == {h \in holds : h.by = r}
Has(r, row, mode) == \E h \in LocksOf(r) : h.row = row /\ h.mode = mode

\* Two requests have the same row only if both share it.
LocksExclude ==
  \A g, h \in holds : g.row = h.row /\ g.by # h.by => g.mode = Share /\ h.mode = Share

\* Locks are held inside transactions only.
LocksInside == \A h \in holds : h.by \in Requests /\ InTransaction(h.by)

LEMMA LockedOnce ==
  ASSUME LocksExclude, NEW r, NEW t, NEW row, NEW mode,
         Has(r, row, Exclusive), Has(t, row, mode)
  PROVE  r = t
  BY DEF LocksExclude, Has, LocksOf

LEMMA LockedIsNotUnlocked ==
  ASSUME NEW t, NEW row, NEW mode, Has(t, row, mode)
  PROVE  ~Unlocked(row)
  BY DEF Has, LocksOf, Unlocked

LEMMA LockStep ==
  ASSUME NEW r, NEW row, NEW mode, Lock(r, row, mode)
  PROVE  /\ Has(r, row, mode)'
         /\ \A x, m : Has(r, x, m) => Has(r, x, m)'
         /\ \A t : t # r => LocksOf(t)' = LocksOf(t)
<1>1. holds' = holds \cup {[by |-> r, row |-> row, mode |-> mode]}
  BY DEF Lock
<1>2. [by |-> r, row |-> row, mode |-> mode] \in LocksOf(r)'
  BY <1>1 DEF LocksOf
<1>3. LocksOf(r) \subseteq LocksOf(r)'
  BY <1>1 DEF LocksOf
<1>4. Has(r, row, mode)'
  BY <1>2 DEF Has
<1>5. ASSUME NEW x, NEW m, Has(r, x, m)
      PROVE  Has(r, x, m)'
  BY <1>3, <1>5 DEF Has
<1>6. ASSUME NEW t, t # r
      PROVE  LocksOf(t)' = LocksOf(t)
  BY <1>1, <1>6 DEF LocksOf
<1> QED
  BY <1>4, <1>5, <1>6

LEMMA LockExcludes ==
  ASSUME LocksExclude, NEW r, NEW row, NEW mode \in {Share, Exclusive}, Lock(r, row, mode),
         \A h \in holds : h.mode \in {Share, Exclusive}
  PROVE  LocksExclude'
<1> DEFINE new == [by |-> r, row |-> row, mode |-> mode]
<1>1. holds' = holds \cup {new}
  BY DEF Lock
<1>2. ASSUME NEW h \in holds, h.row = row, h.by # r
      PROVE  h.mode = Share /\ mode = Share
  BY <1>2 DEF Lock, CanLock, Blockers
<1>3. new.by = r /\ new.row = row /\ new.mode = mode
  OBVIOUS
<1> HIDE DEF new
<1> QED
  BY <1>1, <1>2, <1>3 DEF LocksExclude

LEMMA ReleaseStep ==
  ASSUME NEW r, ReleaseLocks(r)
  PROVE  /\ LocksOf(r)' = {}
         /\ \A t : t # r => LocksOf(t)' = LocksOf(t)
         /\ holds' \subseteq holds
  BY DEF ReleaseLocks, LocksOf

-----------------------------------------------------------------------------
(* What a request relies on. *)

\* The sum of the line totals, as the size of a set with one element per unit.
AmountUnits(S, items) ==
  UNION {{s} \X (1..(skus[s].price * items[s])) : s \in S}
AmountOf(S, items) == Cardinality(AmountUnits(S, items))

NothingRead(r) == pc[r] \in {"idle", "owner", "key", "cart"} => tx[r] = NoTx

CartIsCurrent(r) ==
  pc[r] \in HasCart =>
    /\ tx[r].items = carts[Request[r].user]
    /\ LinesOf(r) # {} /\ ~(Cardinality(LinesOf(r)) > MaxOrderItems)

PricesAreCurrent(r) ==
  pc[r] \in HasCart =>
    /\ tx[r].priced \subseteq LinesOf(r)
    /\ IsFiniteSet(tx[r].priced) /\ IsFiniteSet(AmountUnits(tx[r].priced, tx[r].items))
    /\ \A s \in tx[r].priced : skus[s].status = SKUStatusActive
    /\ tx[r].total = AmountOf(tx[r].priced, tx[r].items)
    /\ pc[r] \in HasPriced => tx[r].priced = LinesOf(r)

TimeIsRead(r) ==
  pc[r] \in HasTime => tx[r].now <= clock /\ tx[r].now + OrderPaymentTTL <= MaxTime

CouponIsCurrent(r) ==
  LET c == Request[r].coupon
  IN  /\ pc[r] \in {"price", "clock", "coupon"} => tx[r].discount = 0
      /\ pc[r] = "coupon" => c # Null
      /\ pc[r] \in HasCoupon =>
           IF c = Null THEN tx[r].discount = 0
           ELSE /\ CouponApplies(c, Request[r].user, tx[r].total, tx[r].now)
                /\ tx[r].discount = Discount(CouponOf[c], tx[r].total)

OrderIsCurrent(r) ==
  LET o == tx[r].order
  IN  /\ pc[r] \in CloseLabels =>
           o \in Orders /\ orders[o].status # NoStatus /\ tx[r].now <= clock
      /\ pc[r] \in HasOrder =>
           tx[r].items = orders[o].items /\ tx[r].version = orders[o].version /\ Admitted(r, o)
      /\ pc[r] \in HasEvent /\ Request[r].op = "pay" =>
           /\ \A row \in events : row.event # Request[r].event
           /\ orders[o].status = PendingPayment /\ Unexpired(orders[o], tx[r].now)

\* The stock row that the request will write.
Written(r, s) ==
  IF Request[r].op = "checkout" THEN Reserve(inventory[s], tx[r].items[s])
  ELSE IF Request[r].op = "pay" THEN Commit(inventory[s], tx[r].items[s])
  ELSE Release(inventory[s], tx[r].items[s])
Suffices(r, s) ==
  IF Request[r].op = "checkout" THEN CanReserve(inventory[s], tx[r].items[s])
  ELSE HasReserved(inventory[s], tx[r].items[s])

StockIsCurrent(r) ==
  /\ pc[r] \in {"price", "clock", "coupon", "lock", "event"} => tx[r].stock = NoStock
  /\ pc[r] \in HasCoupon \cup HasEvent =>
       \A s \in Skus : tx[r].stock[s] # Null =>
         s \in LinesOf(r) /\ Suffices(r, s) /\ tx[r].stock[s] = Written(r, s)
  /\ pc[r] \in {"save", "close"} => Unstocked(r) = {}

View(r) ==
  /\ NothingRead(r) /\ CartIsCurrent(r) /\ PricesAreCurrent(r) /\ TimeIsRead(r)
  /\ CouponIsCurrent(r) /\ OrderIsCurrent(r) /\ StockIsCurrent(r)

\* The rows that it has locked by then.
HoldsLocks(r) ==
  /\ pc[r] \in HasOwner => Has(r, UserRow(Request[r].user), Exclusive)
  /\ pc[r] \in HasCart => \A s \in tx[r].priced : Has(r, SkuRow(s), Share)
  /\ pc[r] \in HasCoupon /\ Request[r].coupon # Null =>
       Has(r, CouponRowOf(Request[r].coupon), Exclusive)
  /\ pc[r] \in HasCoupon \cup HasEvent =>
       \A s \in Skus : tx[r].stock[s] # Null => Has(r, StockRow(s), Exclusive)
  /\ pc[r] \in HasOrder => Has(r, OrderRow(tx[r].order), Exclusive)
  /\ pc[r] \in HasEvent /\ Request[r].op = "pay" =>
       Has(r, EventRow(Request[r].event), Exclusive)

-----------------------------------------------------------------------------
(* What a step leaves alone for request r: the rows that r has locked.  A row *)
(* that does not exist cannot be locked.                                      *)

Undisturbed(r) ==
  /\ clock <= clock'
  /\ \A u \in Users : Has(r, UserRow(u), Exclusive) => carts'[u] = carts[u]
  /\ \A s \in Skus : skus[s].status # NoStatus =>
       /\ Has(r, SkuRow(s), Share) => skus'[s] = skus[s]
       /\ Has(r, StockRow(s), Exclusive) => inventory'[s] = inventory[s]
  /\ \A o \in Orders : orders[o].status # NoStatus =>
       /\ orders'[o].status # NoStatus
       /\ Has(r, OrderRow(o), Exclusive) => orders'[o] = orders[o] /\ payments'[o] = payments[o]
  /\ \A e \in Events : Has(r, EventRow(e), Exclusive) =>
       \A row \in events' : row.event = e => row \in events
  /\ \A c \in Coupons : Has(r, CouponRowOf(c), Exclusive) =>
       /\ ActiveUsages(c)' \subseteq ActiveUsages(c)
       /\ \A o \in ActiveUsages(c)' : orders'[o].user = orders[o].user

\* A step of somebody else.
Waits(r) == pc'[r] = pc[r] /\ tx'[r] = tx[r] /\ LocksOf(r)' = LocksOf(r)

\* A coupon that applies goes on to apply while nobody uses it.
LEMMA CouponStillApplies ==
  ASSUME NEW c \in Coupons, NEW u \in Users, NEW amount, NEW now,
         CouponApplies(c, u, amount, now),
         ActiveUsages(c)' \subseteq ActiveUsages(c),
         \A o \in ActiveUsages(c)' : orders'[o].user = orders[o].user
  PROVE  CouponApplies(c, u, amount, now)'
<1>1. ActiveUsagesOf(c, u)' \subseteq ActiveUsagesOf(c, u)
  BY DEF ActiveUsagesOf
<1>2. /\ Cardinality(ActiveUsages(c)') <= Cardinality(ActiveUsages(c))
      /\ Cardinality(ActiveUsagesOf(c, u)') <= Cardinality(ActiveUsagesOf(c, u))
  BY <1>1, ActiveUsagesFinite, AtMostOneMore
<1>3. /\ Cardinality(ActiveUsages(c)') \in Nat /\ Cardinality(ActiveUsages(c)) \in Nat
      /\ Cardinality(ActiveUsagesOf(c, u)') \in Nat /\ Cardinality(ActiveUsagesOf(c, u)) \in Nat
  BY <1>1, ActiveUsagesFinite, FS_Subset, FS_CardinalityType
<1>4. CouponOf[c].usageLimit \in Nat /\ CouponOf[c].perUserLimit \in Nat
  BY CatalogueIsWellFormed DEF CouponRow
<1> QED
  BY <1>2, <1>3, <1>4 DEF CouponApplies, BelowLimits

LEMMA AdmittedCases ==
  ASSUME NEW r \in Requests, NEW o
  PROVE  /\ Request[r].op = "cancel" =>
              (Admitted(r, o) <=>
                 orders[o].user = Request[r].user /\ CanTransition(orders[o], Cancelled))
         /\ Request[r].op = "expire" =>
              (Admitted(r, o) <=>
                 orders[o].status = PendingPayment /\ orders[o].expiresAt <= tx[r].now)
         /\ Request[r].op = "pay" => (Admitted(r, o) <=> payments[o] # NoStatus)
  BY DEF Admitted

\* What a request relies on stays true while somebody else works.
LEMMA ViewStays ==
  ASSUME TypeOK, TypeOK', TxTypes, StockInv, NEW r \in Requests, View(r), HoldsLocks(r),
         Waits(r), Undisturbed(r)
  PROVE  View(r)' /\ HoldsLocks(r)'
<1> USE DEF View, Waits
<1>1. \A x, m : Has(r, x, m)' <=> Has(r, x, m)
  BY DEF Has
<1>2. HoldsLocks(r)'
  BY <1>1 DEF HoldsLocks
<1>3. LinesOf(r)' = LinesOf(r) /\ Unstocked(r)' = Unstocked(r)
  BY DEF LinesOf, Unstocked
<1>4. /\ pc[r] \in HasCart \cup HasCoupon => Request[r].op = "checkout" /\ Request[r].user \in Users
      /\ pc[r] \in CloseLabels => Request[r].op # "checkout"
      /\ Request[r].coupon \in Coupons \cup {Null}
      /\ Request[r].op = "pay" => Request[r].event \in Events
  BY Asks DEF TxTypes, Follows, CheckoutLabels, HasCart, HasCoupon
<1>5. NothingRead(r)'
  BY DEF NothingRead
<1>6. CartIsCurrent(r)'
  <2>1. pc[r] \in HasCart => carts'[Request[r].user] = carts[Request[r].user]
    BY <1>4 DEF HoldsLocks, Undisturbed, HasCart, HasOwner
  <2> QED
    BY <1>3, <2>1 DEF CartIsCurrent
<1>7. PricesAreCurrent(r)'
  <2>1. CASE pc[r] \in HasCart
    <3>1. \A s \in tx[r].priced : s \in Skus /\ skus'[s] = skus[s]
      BY <2>1 DEF PricesAreCurrent, HoldsLocks, Undisturbed, TxTypes, TxRow
    <3>2. AmountUnits(tx[r].priced, tx[r].items)' = AmountUnits(tx[r].priced, tx[r].items)
      BY <3>1 DEF AmountUnits
    <3> QED
      BY <1>3, <3>1, <3>2 DEF PricesAreCurrent, AmountOf
  <2> QED
    BY <2>1 DEF PricesAreCurrent
<1>8. TimeIsRead(r)'
  BY LimitsAreNatural DEF TimeIsRead, Undisturbed, TypeOK, TxTypes, TxRow
<1>9. CouponIsCurrent(r)'
  <2>1. ASSUME pc[r] \in HasCoupon, Request[r].coupon # Null
        PROVE  CouponApplies(Request[r].coupon, Request[r].user, tx[r].total, tx[r].now)'
    <3>1. PICK c, u, amount, now :
            /\ c \in Coupons /\ u \in Users
            /\ c = Request[r].coupon /\ u = Request[r].user /\ amount = tx[r].total /\ now = tx[r].now
      BY <1>4, <2>1
    <3>2. CouponApplies(c, u, amount, now)
      BY <2>1, <3>1 DEF CouponIsCurrent
    <3>3. /\ ActiveUsages(c)' \subseteq ActiveUsages(c)
          /\ \A o \in ActiveUsages(c)' : orders'[o].user = orders[o].user
      BY <2>1, <3>1 DEF HoldsLocks, Undisturbed
    <3>4. CouponApplies(c, u, amount, now)'
      BY <3>1, <3>2, <3>3, CouponStillApplies
    <3>5. amount = tx'[r].total /\ now = tx'[r].now
      BY <3>1
    <3> QED
      BY <3>1, <3>4, <3>5 DEF CouponApplies
  <2> QED
    BY <2>1 DEF CouponIsCurrent
<1>10. OrderIsCurrent(r)'
  <2>1. CASE pc[r] \in CloseLabels
    <3> DEFINE o == tx[r].order
    <3>1. o \in Orders /\ orders[o].status # NoStatus /\ orders'[o].status # NoStatus
      BY <2>1 DEF OrderIsCurrent, Undisturbed
    <3>2. tx[r].now <= clock'
      BY <2>1 DEF OrderIsCurrent, Undisturbed, TypeOK, TxTypes, TxRow
    <3>3. CASE pc[r] = "lock"
      BY <3>1, <3>2, <3>3 DEF OrderIsCurrent, HasOrder, HasEvent
    <3>4. CASE pc[r] \in HasOrder
      <4>1. orders'[o] = orders[o] /\ payments'[o] = payments[o]
        BY <3>1, <3>4 DEF HoldsLocks, Undisturbed
      <4>2. Admitted(r, tx[r].order)'
        <5>1. Admitted(r, o)
          BY <3>4 DEF OrderIsCurrent
        <5>2. PICK p \in Orders : p = o
          BY <3>1
        <5>3. Admitted(r, p)'
          BY <5>1, <5>2, <4>1, <1>4, <2>1, Asks, AdmittedCases DEF Admitted
        <5> QED
          BY <5>2, <5>3 DEF Admitted
      <4>3. ASSUME pc[r] \in HasEvent, Request[r].op = "pay"
            PROVE  \A row \in events' : row.event # Request[r].event
        BY <1>4, <4>3 DEF OrderIsCurrent, HoldsLocks, Undisturbed
      <4> QED
        BY <3>1, <3>2, <4>1, <4>2, <4>3 DEF OrderIsCurrent
    <3> QED
      BY <2>1, <3>3, <3>4 DEF CloseLabels, HasOrder
  <2> QED
    BY <2>1 DEF OrderIsCurrent, HasOrder, HasEvent, CloseLabels
<1>11. StockIsCurrent(r)'
  <2>1. ASSUME NEW s \in Skus, pc[r] \in HasCoupon \cup HasEvent, tx[r].stock[s] # Null
        PROVE  inventory'[s] = inventory[s]
    <3>1. s \in LinesOf(r) /\ Has(r, StockRow(s), Exclusive)
      BY <2>1 DEF StockIsCurrent, HoldsLocks
    <3>2. skus[s].status # NoStatus
      <4>1. CASE pc[r] \in HasCoupon
        BY <3>1, <4>1 DEF PricesAreCurrent, HasCoupon, HasCart, HasPriced
      <4>2. CASE pc[r] \in HasEvent
        <5>1. tx[r].order \in Orders /\ tx[r].items = orders[tx[r].order].items
          BY <4>2 DEF OrderIsCurrent, HasEvent, HasOrder, CloseLabels
        <5> QED
          BY <3>1, <5>1 DEF StockInv, UnstockedIsUnused, LinesOf
      <4> QED
        BY <2>1, <4>1, <4>2
    <3> QED
      BY <3>1, <3>2 DEF Undisturbed
  <2> QED
    BY <1>3, <2>1 DEF StockIsCurrent, Suffices, Written
<1> QED
  BY <1>2, <1>5, <1>6, <1>7, <1>8, <1>9, <1>10, <1>11

-----------------------------------------------------------------------------
(* A statement of r concerns r alone: its label, its copies, its reply and its *)
(* locks.                                                                      *)

OnlyActs(r) ==
  /\ pc' = [pc EXCEPT ![r] = pc'[r]] /\ pc'[r] \in Labels
  /\ tx' = [tx EXCEPT ![r] = tx'[r]]
  /\ replies' = [replies EXCEPT ![r] = replies'[r]]
  /\ \A t : t # r => LocksOf(t)' = LocksOf(t)

LEMMA RollbackActs ==
  ASSUME TxTypes, NEW r \in Requests, NEW label \in Labels, Rollback(r, label)
  PROVE  /\ pc' = [pc EXCEPT ![r] = pc'[r]] /\ pc'[r] \in Labels
         /\ tx' = [tx EXCEPT ![r] = tx'[r]]
         /\ \A t : t # r => LocksOf(t)' = LocksOf(t)
  BY ReleaseStep DEF Rollback, Goto, TxTypes

LEMMA RepliesStay ==
  ASSUME TxTypes, NEW r \in Requests, UNCHANGED replies
  PROVE  replies' = [replies EXCEPT ![r] = replies'[r]]
  BY DEF TxTypes

LEMMA StatementActs ==
  ASSUME TxTypes, NEW r \in Requests, RequestStep(r) \/ Abort(r)
  PROVE  OnlyActs(r)
<1> USE DEF OnlyActs, Goto, TxTypes, Labels
<1>0. holds' = holds => \A t : LocksOf(t)' = LocksOf(t)
  BY DEF LocksOf
<1>1. CASE CheckKey(r)
  BY <1>0, <1>1 DEF CheckKey, Replay
<1>2. CASE LockCartOwner(r)
  BY <1>2, LockStep DEF LockCartOwner
<1>3. CASE RecheckKey(r)
  BY <1>0, <1>3, ReleaseStep DEF RecheckKey, Replay
<1>4. CASE ReadCart(r)
  BY <1>0, <1>4, RollbackActs, RepliesStay DEF ReadCart
<1>5. CASE PriceLine(r)
  BY <1>5, RollbackActs, RepliesStay, LockStep DEF PriceLine
<1>6. CASE ReadClock(r)
  BY <1>0, <1>6, RollbackActs, RepliesStay DEF ReadClock
<1>7. CASE ApplyCoupon(r)
  BY <1>7, RollbackActs, RepliesStay, LockStep DEF ApplyCoupon
<1>8. CASE ReserveLine(r)
  BY <1>8, RollbackActs, RepliesStay, LockStep DEF ReserveLine
<1>9. CASE SaveOrder(r)
  BY <1>9, RollbackActs, RepliesStay, ReleaseStep DEF SaveOrder
<1>10. CASE AnswerCreated(r)
  BY <1>0, <1>10 DEF AnswerCreated
<1>11. CASE AnswerFailed(r)
  BY <1>0, <1>11 DEF AnswerFailed, Replay
<1>12. CASE ChooseOrder(r)
  BY <1>0, <1>12 DEF ChooseOrder
<1>13. CASE LockOrder(r)
  BY <1>13, RollbackActs, RepliesStay, LockStep DEF LockOrder
<1>14. CASE InsertEvent(r)
  BY <1>14, RollbackActs, RepliesStay, LockStep DEF InsertEvent
<1>15. CASE MoveLine(r)
  BY <1>15, RollbackActs, RepliesStay, LockStep DEF MoveLine
<1>16. CASE CloseOrder(r)
  BY <1>16, RollbackActs, RepliesStay, ReleaseStep DEF CloseOrder
<1>17. CASE Abort(r)
  BY <1>17, RollbackActs, RepliesStay DEF Abort, AfterRollback
<1> QED
  BY <1>1, <1>2, <1>3, <1>4, <1>5, <1>6, <1>7, <1>8, <1>9, <1>10, <1>11, <1>12, <1>13, <1>14,
     <1>15, <1>16, <1>17
  DEF RequestStep, CheckoutStep, CloseStep

-----------------------------------------------------------------------------
(* The copies of r stay well formed, action by action. *)

\* What a statement of r leaves behind.
Copies(r) == tx'[r] \in TxRow /\ replies'[r] \in Replies /\ Follows(r)'

LEMMA RollbackCopies ==
  ASSUME TxTypes, NEW r \in Requests, NEW label \in Labels, Rollback(r, label),
         label \in CheckoutLabels => Request[r].op = "checkout",
         label \in CloseLabels => Request[r].op # "checkout"
  PROVE  tx'[r] \in TxRow /\ Follows(r)'
  BY RollbackType, NoTxType DEF Follows

LEMMA ReplayCopies ==
  ASSUME TxTypes, NEW r \in Requests, Replay(r)
  PROVE  replies'[r] \in Replies
  BY DEF TxTypes, Replay, Replies, Answer, OrderWithKey

LEMMA PriceCopies ==
  ASSUME TypeOK, TxTypes, NEW r \in Requests, View(r), PriceLine(r)
  PROVE  Copies(r)
<1>1. Request[r].op = "checkout" /\ pc[r] = "price" /\ tx[r] \in TxRow /\ replies'[r] \in Replies
  BY DEF PriceLine, At, TxTypes
<1>2. PICK s \in Skus :
        /\ Lowest(Unpriced(r), s)
        /\ IF ~Saleable(s) \/ AmountTooLarge(tx[r].total, skus[s].price, tx[r].items[s])
             THEN Rollback(r, "refused")
             ELSE /\ tx' = [tx EXCEPT ![r].priced = @ \cup {s},
                                      ![r].total = @ + skus[s].price * tx[r].items[s]]
                  /\ Goto(r, IF Unpriced(r) = {s} THEN "clock" ELSE "price")
  BY DEF PriceLine
<1>3. CASE Rollback(r, "refused")
  BY <1>1, <1>3, RollbackCopies DEF Copies, Labels, CheckoutLabels, CloseLabels
<1>4. CASE ~Rollback(r, "refused")
  <2> DEFINE line == skus[s].price * tx[r].items[s]
  <2>1. skus[s].price \in Nat /\ tx[r].items[s] \in Nat /\ tx[r].total \in 0..MaxAmount
    BY <1>1, LimitsAreNatural DEF TypeOK, TxRow, Items, Quantities
  <2>2. line \in Nat
    BY <2>1
  <2>3. ~(tx[r].total > MaxAmount - line)
    BY <1>2, <1>4 DEF AmountTooLarge
  <2> HIDE DEF line
  <2>4. tx[r].total + line \in 0..MaxAmount
    BY <2>1, <2>2, <2>3, MaxAmountIsPositive
  <2>5. CouponIsCurrent(r)
    BY DEF View
  <2>6. tx[r].discount = 0
    BY <1>1, <2>5 DEF CouponIsCurrent
  <2>7. /\ tx' = [tx EXCEPT ![r].priced = @ \cup {s}, ![r].total = @ + line]
        /\ pc'[r] \in {"clock", "price"}
    BY <1>2, <1>4 DEF line, Goto, TxTypes
  <2>8. tx'[r] \in TxRow
    BY <1>1, <2>4, <2>6, <2>7 DEF TxTypes, TxRow
  <2> QED
    BY <1>1, <2>7, <2>8 DEF Copies, Follows, CloseLabels
<1> QED
  BY <1>3, <1>4

LEMMA CouponCopies ==
  ASSUME TypeOK, TxTypes, NEW r \in Requests, View(r), ApplyCoupon(r)
  PROVE  Copies(r)
<1> DEFINE c == Request[r].coupon
<1>1. Request[r].op = "checkout" /\ pc[r] = "coupon" /\ tx[r] \in TxRow /\ replies'[r] \in Replies
  BY DEF ApplyCoupon, At, TxTypes
<1>2. CASE Rollback(r, "refused")
  BY <1>1, <1>2, RollbackCopies DEF Copies, Labels, CheckoutLabels, CloseLabels
<1>3. CASE ~Rollback(r, "refused")
  <2>1. /\ tx' = [tx EXCEPT ![r].discount = Discount(CouponOf[c], tx[r].total)]
        /\ pc'[r] = "reserve"
    BY <1>3 DEF ApplyCoupon, Goto, TxTypes
  <2>2. c \in Coupons /\ c # Null
    BY <1>1, Asks DEF View, CouponIsCurrent
  <2>3. tx[r].total \in 0..MaxAmount
    BY <1>1 DEF TxRow
  <2>4. Discount(CouponOf[c], tx[r].total) \in 0..tx[r].total
    BY <2>2, <2>3, DiscountOfCheckout
  <2>5. Discount(CouponOf[c], tx[r].total) \in 0..MaxAmount
    BY <2>3, <2>4, MaxAmountIsPositive
  <2>6. tx'[r] \in TxRow
    BY <1>1, <2>1, <2>5 DEF TxTypes, TxRow
  <2> QED
    BY <1>1, <2>1, <2>6 DEF Copies, Follows, CloseLabels
<1> QED
  BY <1>2, <1>3

\* The rows of stock that r has in sight.
LEMMA WrittenType ==
  ASSUME TypeOK, TxTypes, NEW r \in Requests, NEW s \in Skus, Suffices(r, s)
  PROVE  Written(r, s) \in StockRows
<1>1. tx[r].items[s] \in Nat /\ inventory[s] \in [available: Nat, reserved: Nat]
  BY LimitsAreNatural DEF TypeOK, TxTypes, TxRow, Items, Quantities
<1> QED
  BY <1>1, StockTypes DEF Suffices, Written, StockRows

LEMMA ReserveCopies ==
  ASSUME TypeOK, TxTypes, NEW r \in Requests, ReserveLine(r)
  PROVE  Copies(r)
<1>1. Request[r].op = "checkout" /\ tx[r] \in TxRow /\ replies'[r] \in Replies
  BY DEF ReserveLine, At, TxTypes
<1>2. CASE Rollback(r, "refused")
  BY <1>1, <1>2, RollbackCopies DEF Copies, Labels, CheckoutLabels, CloseLabels
<1>3. CASE ~Rollback(r, "refused")
  <2>1. PICK s \in Skus :
          /\ CanReserve(inventory[s], tx[r].items[s])
          /\ tx' = [tx EXCEPT ![r].stock[s] = Reserve(inventory[s], tx[r].items[s])]
    BY <1>3 DEF ReserveLine
  <2>2. Reserve(inventory[s], tx[r].items[s]) \in StockRows
    BY <1>1, <2>1, WrittenType DEF Written, Suffices
  <2>3. tx'[r] \in TxRow
    BY <1>1, <2>1, <2>2 DEF TxTypes, TxRow
  <2>4. pc'[r] \in {"save", "reserve"}
    BY <1>3 DEF ReserveLine, Goto, TxTypes
  <2> QED
    BY <1>1, <2>3, <2>4 DEF Copies, Follows, CloseLabels
<1> QED
  BY <1>2, <1>3

LEMMA MoveCopies ==
  ASSUME TypeOK, TxTypes, NEW r \in Requests, MoveLine(r)
  PROVE  Copies(r)
<1>1. Request[r].op # "checkout" /\ tx[r] \in TxRow /\ replies'[r] \in Replies
  BY DEF MoveLine, TxTypes, Follows, CloseLabels
<1>2. CASE Rollback(r, "done")
  BY <1>1, <1>2, RollbackCopies DEF Copies, Labels, CheckoutLabels, CloseLabels
<1>3. CASE ~Rollback(r, "done")
  <2>1. PICK s \in Skus :
          /\ HasReserved(inventory[s], tx[r].items[s])
          /\ tx' = [tx EXCEPT ![r].stock[s] =
               IF Request[r].op = "pay" THEN Commit(inventory[s], tx[r].items[s])
                                        ELSE Release(inventory[s], tx[r].items[s])]
    BY <1>3 DEF MoveLine
  <2>2. Written(r, s) \in StockRows
    BY <1>1, <2>1, WrittenType DEF Suffices
  <2>3. tx'[r] \in TxRow
    BY <1>1, <2>1, <2>2 DEF TxTypes, TxRow, Written
  <2>4. pc'[r] \in {"close", "stock"}
    BY <1>3 DEF MoveLine, Goto, TxTypes
  <2> QED
    BY <1>1, <2>3, <2>4 DEF Copies, Follows, CheckoutLabels
<1> QED
  BY <1>2, <1>3

LEMMA LockOrderCopies ==
  ASSUME TypeOK, TxTypes, NEW r \in Requests, View(r), LockOrder(r)
  PROVE  Copies(r)
<1>1. /\ Request[r].op # "checkout" /\ tx[r] \in TxRow /\ replies'[r] \in Replies
      /\ tx[r].order \in Orders
  BY DEF LockOrder, TxTypes, Follows, CloseLabels, View, OrderIsCurrent
<1>2. CASE Rollback(r, "done")
  BY <1>1, <1>2, RollbackCopies DEF Copies, Labels, CheckoutLabels, CloseLabels
<1>3. CASE ~Rollback(r, "done")
  <2> DEFINE o == tx[r].order
             now == IF Request[r].op = "pay" THEN clock ELSE tx[r].now
  <2>1. /\ tx' = [tx EXCEPT ![r].items = orders[o].items, ![r].version = orders[o].version,
                            ![r].now = now]
        /\ pc'[r] \in {"event", "stock"}
    BY <1>3 DEF LockOrder, Goto, TxTypes
  <2>2. orders[o].items \in Items /\ orders[o].version \in Nat /\ now \in Nat
    BY <1>1 DEF TypeOK, Order, TxRow
  <2> HIDE DEF now
  <2>3. tx'[r] \in TxRow
    BY <1>1, <2>1, <2>2 DEF TxTypes, TxRow
  <2> QED
    BY <1>1, <2>1, <2>3 DEF Copies, Follows, CheckoutLabels
<1> QED
  BY <1>2, <1>3

LEMMA StatementCopies ==
  ASSUME TypeOK, TxTypes, NEW r \in Requests, View(r), RequestStep(r) \/ Abort(r)
  PROVE  Copies(r)
<1> USE DEF Goto, At
<1>0. pc[r] \in Labels /\ tx[r] \in TxRow /\ replies[r] \in Replies /\ Follows(r)
  BY DEF TxTypes
<1>1. CASE CheckKey(r)
  <2>1. Answer("unknown", Null) \in Replies
    BY DEF Answer, Replies
  <2> QED
    BY <1>0, <1>1, <2>1, ReplayCopies DEF CheckKey, TxTypes, Copies, Follows, CloseLabels
<1>2. CASE LockCartOwner(r)
  BY <1>0, <1>2 DEF LockCartOwner, TxTypes, Copies, Follows, CloseLabels
<1>3. CASE RecheckKey(r)
  BY <1>0, <1>3, ReplayCopies DEF RecheckKey, TxTypes, Copies, Follows, CloseLabels
<1>4. CASE ReadCart(r)
  <2>1. CASE Rollback(r, "refused")
    BY <1>0, <1>4, <2>1, RollbackCopies DEF ReadCart, Copies, Labels, CloseLabels
  <2>2. CASE ~Rollback(r, "refused")
    <3>1. Request[r].user \in Users /\ carts[Request[r].user] \in Items
      BY <1>4, Asks DEF ReadCart, TypeOK
    <3>2. /\ tx' = [tx EXCEPT ![r].items = carts[Request[r].user]]
          /\ pc'[r] = "price" /\ replies' = replies
      BY <1>4, <2>2 DEF ReadCart, TxTypes
    <3>3. tx'[r] \in TxRow
      BY <1>0, <3>1, <3>2 DEF TxTypes, TxRow
    <3> QED
      BY <1>0, <1>4, <3>2, <3>3 DEF ReadCart, Copies, Follows, CloseLabels
  <2> QED
    BY <2>1, <2>2
<1>5. CASE PriceLine(r)
  BY <1>5, PriceCopies
<1>6. CASE ReadClock(r)
  <2>1. CASE Rollback(r, "refused")
    BY <1>0, <1>6, <2>1, RollbackCopies DEF ReadClock, Copies, Labels, CloseLabels
  <2>2. CASE ~Rollback(r, "refused")
    <3>1. /\ tx' = [tx EXCEPT ![r].now = clock]
          /\ pc'[r] \in {"reserve", "coupon"} /\ replies' = replies
      BY <1>6, <2>2 DEF ReadClock, TxTypes
    <3>2. tx'[r] \in TxRow
      BY <1>0, <3>1 DEF TxTypes, TxRow, TypeOK
    <3> QED
      BY <1>0, <1>6, <3>1, <3>2 DEF ReadClock, Copies, Follows, CloseLabels
  <2> QED
    BY <2>1, <2>2
<1>7. CASE ApplyCoupon(r)
  BY <1>7, CouponCopies
<1>8. CASE ReserveLine(r)
  BY <1>8, ReserveCopies
<1>9. CASE SaveOrder(r)
  <2>1. CASE Rollback(r, "refused")
    BY <1>0, <1>9, <2>1, RollbackCopies DEF SaveOrder, Copies, Labels, CloseLabels
  <2>2. CASE ~Rollback(r, "refused")
    <3>1. PICK o \in Orders, label \in {"answer", "failed"} :
            tx' = [tx EXCEPT ![r].order = o] /\ pc' = [pc EXCEPT ![r] = label]
      BY <1>9, <2>2 DEF SaveOrder
    <3>2. tx'[r] \in TxRow /\ pc'[r] = label
      BY <1>0, <3>1 DEF TxTypes, TxRow
    <3> QED
      BY <1>0, <1>9, <3>2 DEF SaveOrder, Copies, Follows, CloseLabels
  <2> QED
    BY <2>1, <2>2
<1>10. CASE AnswerCreated(r)
  <2>1. Answer("order", tx[r].order) \in Replies /\ Answer("unknown", Null) \in Replies
    BY <1>0 DEF Answer, Replies, TxRow
  <2> QED
    BY <1>0, <1>10, <2>1, NoTxType
    DEF AnswerCreated, TxTypes, Copies, Follows, CheckoutLabels, CloseLabels
<1>11. CASE AnswerFailed(r)
  <2>1. Answer(Verdict(pc[r]), Null) \in Replies
    BY DEF Answer, Verdict, Replies
  <2> QED
    BY <1>0, <1>11, <2>1, NoTxType, ReplayCopies
    DEF AnswerFailed, TxTypes, Copies, Follows, CheckoutLabels, CloseLabels
<1>12. CASE ChooseOrder(r)
  <2>1. PICK o \in Orders : tx' = [tx EXCEPT ![r].order = o, ![r].now = clock]
    BY <1>12 DEF ChooseOrder
  <2>2. tx'[r] \in TxRow
    BY <1>0, <2>1 DEF TxTypes, TxRow, TypeOK
  <2> QED
    BY <1>0, <1>12, <2>2 DEF ChooseOrder, TxTypes, Copies, Follows, CheckoutLabels
<1>13. CASE LockOrder(r)
  BY <1>13, LockOrderCopies
<1>14. CASE InsertEvent(r)
  <2>1. CASE Rollback(r, "done")
    BY <1>0, <1>14, <2>1, RollbackCopies
    DEF InsertEvent, Copies, Labels, CheckoutLabels, CloseLabels
  <2>2. CASE ~Rollback(r, "done")
    BY <1>0, <1>14, <2>2 DEF InsertEvent, TxTypes, Copies, Follows, CheckoutLabels
  <2> QED
    BY <2>1, <2>2
<1>15. CASE MoveLine(r)
  BY <1>15, MoveCopies
<1>16. CASE CloseOrder(r)
  <2>1. CASE Rollback(r, "done")
    BY <1>0, <1>16, <2>1, RollbackCopies
    DEF CloseOrder, Copies, Labels, CheckoutLabels, CloseLabels
  <2>2. CASE ~Rollback(r, "done")
    BY <1>0, <1>16, <2>2, NoTxType
    DEF CloseOrder, TxTypes, Copies, Follows, CheckoutLabels, CloseLabels
  <2> QED
    BY <2>1, <2>2
<1>17. CASE Abort(r)
  BY <1>0, <1>17, RollbackCopies
  DEF Abort, AfterRollback, Copies, Labels, CheckoutLabels, CloseLabels
<1> QED
  BY <1>1, <1>2, <1>3, <1>4, <1>5, <1>6, <1>7, <1>8, <1>9, <1>10, <1>11, <1>12, <1>13, <1>14,
     <1>15, <1>16, <1>17
  DEF RequestStep, CheckoutStep, CloseStep

-----------------------------------------------------------------------------
(* Every statement takes one lock, or none, or gives all of them back. *)

LocksOK ==
  /\ LocksExclude /\ LocksInside
  /\ \A h \in holds : h.mode \in {Share, Exclusive}

Locking(r) ==
  \/ UNCHANGED holds /\ (InTransaction(r) => InTransaction(r)')
  \/ InTransaction(r)' /\ \E row : \E mode \in {Share, Exclusive} : Lock(r, row, mode)
  \/ ReleaseLocks(r)

LEMMA StatementLocks ==
  ASSUME TxTypes, NEW r \in Requests, RequestStep(r) \/ Abort(r)
  PROVE  Locking(r)
<1> USE DEF Goto, At, Locking, InTransaction
<1>1. CASE CheckKey(r)
  BY <1>1 DEF CheckKey
<1>2. CASE LockCartOwner(r)
  BY <1>2 DEF LockCartOwner, TxTypes
<1>3. CASE RecheckKey(r)
  BY <1>3 DEF RecheckKey, TxTypes
<1>4. CASE ReadCart(r)
  BY <1>4 DEF ReadCart, Rollback, TxTypes
<1>5. CASE PriceLine(r)
  BY <1>5 DEF PriceLine, Rollback, TxTypes
<1>6. CASE ReadClock(r)
  BY <1>6 DEF ReadClock, Rollback, TxTypes
<1>7. CASE ApplyCoupon(r)
  BY <1>7 DEF ApplyCoupon, Rollback, TxTypes
<1>8. CASE ReserveLine(r)
  BY <1>8 DEF ReserveLine, Rollback, TxTypes
<1>9. CASE SaveOrder(r)
  BY <1>9 DEF SaveOrder, Rollback
<1>10. CASE AnswerCreated(r)
  BY <1>10 DEF AnswerCreated
<1>11. CASE AnswerFailed(r)
  BY <1>11 DEF AnswerFailed
<1>12. CASE ChooseOrder(r)
  BY <1>12 DEF ChooseOrder
<1>13. CASE LockOrder(r)
  BY <1>13 DEF LockOrder, Rollback, TxTypes
<1>14. CASE InsertEvent(r)
  BY <1>14 DEF InsertEvent, Rollback, TxTypes
<1>15. CASE MoveLine(r)
  BY <1>15 DEF MoveLine, Rollback, TxTypes
<1>16. CASE CloseOrder(r)
  BY <1>16 DEF CloseOrder, Rollback
<1>17. CASE Abort(r)
  BY <1>17 DEF Abort, Rollback
<1> QED
  BY <1>1, <1>2, <1>3, <1>4, <1>5, <1>6, <1>7, <1>8, <1>9, <1>10, <1>11, <1>12, <1>13, <1>14,
     <1>15, <1>16, <1>17
  DEF RequestStep, CheckoutStep, CloseStep

LEMMA LocksStep ==
  ASSUME TxTypes, LocksOK, NEW r \in Requests, OnlyActs(r), Locking(r)
  PROVE  LocksOK'
<1>1. \A t \in Requests \ {r} : pc'[t] = pc[t]
  BY DEF OnlyActs, TxTypes
<1>2. \A t \in Requests \ {r} : InTransaction(t) => InTransaction(t)'
  BY <1>1 DEF InTransaction
<1>3. CASE UNCHANGED holds /\ (InTransaction(r) => InTransaction(r)')
  BY <1>2, <1>3 DEF LocksOK, LocksExclude, LocksInside
<1>4. CASE InTransaction(r)' /\ \E row : \E mode \in {Share, Exclusive} : Lock(r, row, mode)
  <2>1. PICK row : \E mode \in {Share, Exclusive} : Lock(r, row, mode)
    BY <1>4
  <2>2. PICK mode \in {Share, Exclusive} : Lock(r, row, mode)
    BY <2>1
  <2>3. LocksExclude'
    BY <2>2, LockExcludes DEF LocksOK
  <2>4. holds' = holds \cup {[by |-> r, row |-> row, mode |-> mode]}
    BY <2>2 DEF Lock
  <2> QED
    BY <1>2, <1>4, <2>3, <2>4 DEF LocksOK, LocksInside
<1>5. CASE ReleaseLocks(r)
  <2>1. holds' = {h \in holds : h.by # r}
    BY <1>5 DEF ReleaseLocks
  <2> QED
    BY <1>2, <2>1 DEF LocksOK, LocksExclude, LocksInside
<1> QED
  BY <1>3, <1>4, <1>5 DEF Locking

-----------------------------------------------------------------------------
(* What r has read is current when it has read it, action by action. *)

\* One more line adds its price times its quantity.
LEMMA AmountOneMore ==
  ASSUME NEW S, NEW s, s \notin S, NEW items, IsFiniteSet(AmountUnits(S, items)),
         skus[s].price * items[s] \in Nat
  PROVE  /\ IsFiniteSet(AmountUnits(S \cup {s}, items))
         /\ AmountOf(S \cup {s}, items) = AmountOf(S, items) + skus[s].price * items[s]
<1> DEFINE n == skus[s].price * items[s]
           new == {s} \X (1..n)
<1>1. AmountUnits(S \cup {s}, items) = AmountUnits(S, items) \cup new
  BY DEF AmountUnits
<1>2. AmountUnits(S, items) \cap new = {}
  BY DEF AmountUnits
<1>3. IsFiniteSet(new) /\ Cardinality(new) = n
  <2> HIDE DEF n
  <2>1. IsFiniteSet(1..n) /\ Cardinality(1..n) = n
    BY FS_Interval DEF n
  <2>2. IsFiniteSet({s}) /\ Cardinality({s}) = 1
    BY FS_Singleton
  <2>3. IsFiniteSet(new) /\ Cardinality(new) = Cardinality({s}) * Cardinality(1..n)
    BY <2>1, <2>2, FS_Product, Zenon
  <2>4. n \in Nat
    BY DEF n
  <2> QED
    BY <2>1, <2>2, <2>3, <2>4
<1> HIDE DEF new, n
<1>4. Cardinality(AmountUnits(S, items)) \in Nat /\ n \in Nat
  BY FS_CardinalityType DEF n
<1>5. /\ IsFiniteSet(AmountUnits(S, items) \cup new)
      /\ Cardinality(AmountUnits(S, items) \cup new) =
           Cardinality(AmountUnits(S, items)) + n - Cardinality({})
  BY <1>2, <1>3, FS_Union
<1>6. Cardinality({}) = 0
  BY FS_EmptySet
<1>7. Cardinality(AmountUnits(S, items) \cup new) = Cardinality(AmountUnits(S, items)) + n
  BY <1>4, <1>5, <1>6
<1> QED
  BY <1>1, <1>5, <1>7, Zenon DEF AmountOf, n

LEMMA NothingCosts ==
  ASSUME NEW items
  PROVE  IsFiniteSet(AmountUnits({}, items)) /\ AmountOf({}, items) = 0
<1>1. AmountUnits({}, items) = {}
  BY DEF AmountUnits
<1> QED
  BY <1>1, FS_EmptySet DEF AmountOf

Own(r) == View(r)' /\ HoldsLocks(r)'

\* A request that is not under way relies on nothing.
LEMMA AtRest ==
  ASSUME NEW r \in Requests, pc'[r] \in {"answer", "refused", "failed", "done"}
  PROVE  Own(r)
  BY DEF Own, View, HoldsLocks, NothingRead, CartIsCurrent, PricesAreCurrent, TimeIsRead,
         CouponIsCurrent, OrderIsCurrent, StockIsCurrent, HasOwner, HasCart, HasPriced, HasTime,
         HasCoupon, HasOrder, HasEvent, CloseLabels

LEMMA RollbackRests ==
  ASSUME TxTypes, NEW r \in Requests, NEW label \in {"refused", "failed", "done"},
         Rollback(r, label)
  PROVE  Own(r)
  BY AtRest DEF Rollback, Goto, TxTypes

\* A request that has read nothing yet.
LEMMA AtStart ==
  ASSUME NEW r \in Requests, pc'[r] \in {"owner", "key", "cart"}, tx'[r] = NoTx,
         pc'[r] # "owner" => Has(r, UserRow(Request[r].user), Exclusive)'
  PROVE  Own(r)
  BY DEF Own, View, HoldsLocks, NothingRead, CartIsCurrent, PricesAreCurrent, TimeIsRead,
         CouponIsCurrent, OrderIsCurrent, StockIsCurrent, HasOwner, HasCart, HasPriced, HasTime,
         HasCoupon, HasOrder, HasEvent, CloseLabels

LEMMA CartOwn ==
  ASSUME TypeOK, TxTypes, NEW r \in Requests, View(r), HoldsLocks(r), ReadCart(r)
  PROVE  Own(r)
<1> DEFINE u == Request[r].user
<1>1. CASE Rollback(r, "refused")
  BY <1>1, RollbackRests
<1>2. CASE ~Rollback(r, "refused")
  <2>1. /\ tx' = [tx EXCEPT ![r].items = carts[u]]
        /\ pc'[r] = "price" /\ pc[r] = "cart"
        /\ UNCHANGED holds /\ UNCHANGED vars
        /\ Lines(u) # {} /\ ~(Cardinality(Lines(u)) > MaxOrderItems)
    BY <1>2 DEF ReadCart, TxTypes, Goto, At
  <2>2. tx[r] = NoTx /\ Request[r].op = "checkout" /\ u \in Users
    BY <2>1, Asks DEF View, NothingRead, ReadCart, At
  <2>3. /\ tx'[r].items = carts[u] /\ tx'[r].priced = {} /\ tx'[r].total = 0
        /\ tx'[r].discount = 0 /\ tx'[r].stock = NoStock
    BY <2>1, <2>2 DEF TxTypes, TxRow, NoTx
  <2>4. LinesOf(r)' = Lines(u)
    BY <2>3 DEF LinesOf, Lines
  <2>5. Has(r, UserRow(u), Exclusive)'
    BY <2>1 DEF HoldsLocks, HasOwner, Has, LocksOf
  <2>7. CartIsCurrent(r)'
    BY <2>1, <2>3, <2>4 DEF CartIsCurrent, vars
  <2>8. PricesAreCurrent(r)'
    BY <2>1, <2>3, NothingCosts, FS_EmptySet DEF PricesAreCurrent, HasPriced, vars, AmountOf, AmountUnits
  <2>9. HoldsLocks(r)'
    BY <2>1, <2>3, <2>5 DEF HoldsLocks, HasOwner, HasCoupon, HasOrder, HasEvent
  <2> QED
    BY <2>1, <2>3, <2>7, <2>8, <2>9
    DEF Own, View, NothingRead, TimeIsRead, CouponIsCurrent, OrderIsCurrent, StockIsCurrent,
        HasTime, HasCoupon, HasOrder, HasEvent, CloseLabels
<1> QED
  BY <1>1, <1>2

LEMMA PriceOwn ==
  ASSUME TypeOK, TxTypes, NEW r \in Requests, View(r), HoldsLocks(r), PriceLine(r)
  PROVE  Own(r)
<1> DEFINE u == Request[r].user
<1>1. CASE Rollback(r, "refused")
  BY <1>1, RollbackRests
<1>2. CASE ~Rollback(r, "refused")
  <2>1. PICK s \in Skus :
          /\ s \in Unpriced(r)
          /\ skus[s].status = SKUStatusActive
          /\ Lock(r, SkuRow(s), Share)
          /\ tx' = [tx EXCEPT ![r].priced = @ \cup {s},
                              ![r].total = @ + skus[s].price * tx[r].items[s]]
          /\ pc' = [pc EXCEPT ![r] = IF Unpriced(r) = {s} THEN "clock" ELSE "price"]
    BY <1>2 DEF PriceLine, Goto, Lowest, Saleable
  <2>2. /\ pc[r] = "price" /\ UNCHANGED vars /\ tx[r] \in TxRow
        /\ CartIsCurrent(r) /\ PricesAreCurrent(r) /\ CouponIsCurrent(r) /\ StockIsCurrent(r)
    BY DEF PriceLine, At, View, TxTypes
  <2>3. /\ tx'[r].priced = tx[r].priced \cup {s} /\ tx'[r].items = tx[r].items
        /\ tx'[r].total = tx[r].total + skus[s].price * tx[r].items[s]
        /\ tx'[r].discount = tx[r].discount /\ tx'[r].stock = tx[r].stock
        /\ pc'[r] = IF Unpriced(r) = {s} THEN "clock" ELSE "price"
    BY <2>1, <2>2 DEF TxTypes, TxRow
  <2>4. LinesOf(r)' = LinesOf(r)
    BY <2>3 DEF LinesOf
  <2>5. s \in LinesOf(r) /\ s \notin tx[r].priced /\ tx[r].priced \subseteq LinesOf(r)
    BY <2>1, <2>2 DEF Unpriced, PricesAreCurrent, HasCart
  <2>6. Unpriced(r) = {s} => tx'[r].priced = LinesOf(r)
    BY <2>3, <2>5 DEF Unpriced
  <2>7. /\ IsFiniteSet(AmountUnits(tx'[r].priced, tx[r].items))
        /\ tx'[r].total = AmountOf(tx'[r].priced, tx[r].items)
    <3>1. skus[s].price * tx[r].items[s] \in Nat
      BY <2>2, LimitsAreNatural DEF TypeOK, TxRow, Items, Quantities
    <3>2. /\ IsFiniteSet(AmountUnits(tx[r].priced, tx[r].items))
          /\ tx[r].total = AmountOf(tx[r].priced, tx[r].items)
      BY <2>2 DEF PricesAreCurrent, HasCart
    <3>3. /\ IsFiniteSet(AmountUnits(tx[r].priced \cup {s}, tx[r].items))
          /\ AmountOf(tx[r].priced \cup {s}, tx[r].items) =
               AmountOf(tx[r].priced, tx[r].items) + skus[s].price * tx[r].items[s]
      BY <2>5, <3>1, <3>2, AmountOneMore, Zenon
    <3> QED
      BY <2>3, <3>2, <3>3
  <2>8. /\ AmountUnits(tx[r].priced, tx[r].items)' = AmountUnits(tx'[r].priced, tx[r].items)
        /\ AmountOf(tx[r].priced, tx[r].items)' = AmountOf(tx'[r].priced, tx[r].items)
    BY <2>2, <2>3 DEF AmountUnits, AmountOf, vars
  <2>9. CartIsCurrent(r)'
    BY <2>2, <2>3, <2>4 DEF CartIsCurrent, HasCart, vars
  <2>10. PricesAreCurrent(r)'
    <3>1. IsFiniteSet(tx'[r].priced) /\ tx'[r].priced \subseteq LinesOf(r)
      BY <2>2, <2>3, <2>5, FS_AddElement DEF PricesAreCurrent, HasCart
    <3>2. \A z \in tx'[r].priced : skus'[z].status = SKUStatusActive
      BY <2>1, <2>2, <2>3 DEF PricesAreCurrent, HasCart, vars
    <3>3. pc'[r] \in HasPriced => tx'[r].priced = LinesOf(r)
      BY <2>3, <2>6 DEF HasPriced
    <3> QED
      BY <3>1, <3>2, <3>3, <2>4, <2>7, <2>8 DEF PricesAreCurrent
  <2>11. HoldsLocks(r)'
    <3>1. Has(r, SkuRow(s), Share)' /\ \A x, m : Has(r, x, m) => Has(r, x, m)'
      BY <2>1, LockStep
    <3>2. Has(r, UserRow(u), Exclusive) /\ \A z \in tx[r].priced : Has(r, SkuRow(z), Share)
      BY <2>2 DEF HoldsLocks, HasOwner, HasCart
    <3> QED
      BY <3>1, <3>2, <2>3 DEF HoldsLocks, HasCoupon, HasOrder, HasEvent
  <2>12. CouponIsCurrent(r)'
    BY <2>2, <2>3 DEF CouponIsCurrent, HasCoupon
  <2>13. StockIsCurrent(r)'
    BY <2>2, <2>3 DEF StockIsCurrent, HasCoupon, HasEvent
  <2> QED
    BY <2>3, <2>9, <2>10, <2>11, <2>12, <2>13
    DEF Own, View, NothingRead, TimeIsRead, OrderIsCurrent, HasTime, HasOrder, HasEvent, CloseLabels
<1> QED
  BY <1>1, <1>2

LEMMA ClockOwn ==
  ASSUME TypeOK, TxTypes, NEW r \in Requests, View(r), HoldsLocks(r), ReadClock(r)
  PROVE  Own(r)
<1>1. CASE Rollback(r, "refused")
  BY <1>1, RollbackRests
<1>2. CASE ~Rollback(r, "refused")
  <2>1. /\ tx' = [tx EXCEPT ![r].now = clock]
        /\ pc' = [pc EXCEPT ![r] = IF Request[r].coupon = Null THEN "reserve" ELSE "coupon"]
        /\ clock + OrderPaymentTTL <= MaxTime /\ UNCHANGED holds
    BY <1>2 DEF ReadClock, Goto
  <2>2. /\ pc[r] = "clock" /\ UNCHANGED vars /\ tx[r] \in TxRow
        /\ CartIsCurrent(r) /\ PricesAreCurrent(r) /\ CouponIsCurrent(r) /\ StockIsCurrent(r)
    BY DEF ReadClock, At, View, TxTypes
  <2>3. /\ tx'[r].priced = tx[r].priced /\ tx'[r].items = tx[r].items
        /\ tx'[r].total = tx[r].total /\ tx'[r].now = clock
        /\ tx'[r].discount = tx[r].discount /\ tx'[r].stock = tx[r].stock
        /\ pc'[r] = IF Request[r].coupon = Null THEN "reserve" ELSE "coupon"
    BY <2>1, <2>2 DEF TxTypes, TxRow
  <2>4. LinesOf(r)' = LinesOf(r)
    BY <2>3 DEF LinesOf
  <2>5. CartIsCurrent(r)'
    BY <2>2, <2>3, <2>4 DEF CartIsCurrent, HasCart, vars
  <2>6. PricesAreCurrent(r)'
    BY <2>2, <2>3, <2>4 DEF PricesAreCurrent, HasCart, HasPriced, AmountOf, AmountUnits, vars
  <2>7. TimeIsRead(r)'
    BY <2>1, <2>2, <2>3 DEF TimeIsRead, TypeOK, vars
  <2>8. CouponIsCurrent(r)'
    BY <2>2, <2>3 DEF CouponIsCurrent, HasCoupon
  <2>9. StockIsCurrent(r)'
    BY <2>2, <2>3 DEF StockIsCurrent, HasCoupon, HasEvent, NoStock
  <2>10. HoldsLocks(r)'
    <3>1. \A x, m : Has(r, x, m)' <=> Has(r, x, m)
      BY <2>1 DEF Has, LocksOf
    <3>2. tx[r].stock = NoStock
      BY <2>2 DEF StockIsCurrent
    <3> QED
      BY <3>1, <3>2, <2>2, <2>3
      DEF HoldsLocks, HasOwner, HasCart, HasCoupon, HasOrder, HasEvent, NoStock
  <2> QED
    BY <2>3, <2>5, <2>6, <2>7, <2>8, <2>9, <2>10
    DEF Own, View, NothingRead, OrderIsCurrent, HasOrder, HasEvent, CloseLabels
<1> QED
  BY <1>1, <1>2

LEMMA CouponOwn ==
  ASSUME TypeOK, TxTypes, NEW r \in Requests, View(r), HoldsLocks(r), ApplyCoupon(r)
  PROVE  Own(r)
<1> DEFINE c == Request[r].coupon
<1>1. CASE Rollback(r, "refused")
  BY <1>1, RollbackRests
<1>2. CASE ~Rollback(r, "refused")
  <2>1. /\ CouponApplies(c, Request[r].user, tx[r].total, tx[r].now)
        /\ Lock(r, CouponRowOf(c), Exclusive)
        /\ tx' = [tx EXCEPT ![r].discount = Discount(CouponOf[c], tx[r].total)]
        /\ pc' = [pc EXCEPT ![r] = "reserve"]
    BY <1>2 DEF ApplyCoupon, Goto
  <2>2. /\ pc[r] = "coupon" /\ UNCHANGED vars /\ tx[r] \in TxRow
        /\ CartIsCurrent(r) /\ PricesAreCurrent(r) /\ TimeIsRead(r) /\ CouponIsCurrent(r)
        /\ StockIsCurrent(r)
    BY DEF ApplyCoupon, At, View, TxTypes
  <2>3. /\ tx'[r].priced = tx[r].priced /\ tx'[r].items = tx[r].items
        /\ tx'[r].total = tx[r].total /\ tx'[r].now = tx[r].now
        /\ tx'[r].discount = Discount(CouponOf[c], tx[r].total) /\ tx'[r].stock = tx[r].stock
        /\ pc'[r] = "reserve"
    BY <2>1, <2>2 DEF TxTypes, TxRow
  <2>4. LinesOf(r)' = LinesOf(r)
    BY <2>3 DEF LinesOf
  <2>5. CartIsCurrent(r)'
    BY <2>2, <2>3, <2>4 DEF CartIsCurrent, HasCart, vars
  <2>6. PricesAreCurrent(r)'
    BY <2>2, <2>3, <2>4 DEF PricesAreCurrent, HasCart, HasPriced, AmountOf, AmountUnits, vars
  <2>7. TimeIsRead(r)'
    BY <2>2, <2>3 DEF TimeIsRead, HasTime, vars
  <2>8. CouponIsCurrent(r)'
    <3>1. CouponApplies(c, Request[r].user, tx[r].total, tx[r].now)'
      BY <2>1, <2>2, <2>3 DEF CouponApplies, ActiveUsages, ActiveUsagesOf, vars
    <3> QED
      BY <2>2, <2>3, <3>1 DEF CouponIsCurrent, HasCoupon
  <2>9. tx[r].stock = NoStock
    BY <2>2 DEF StockIsCurrent
  <2>10. StockIsCurrent(r)'
    BY <2>3, <2>9 DEF StockIsCurrent, HasCoupon, HasEvent, NoStock
  <2>11. HoldsLocks(r)'
    <3>1. Has(r, CouponRowOf(c), Exclusive)' /\ \A x, m : Has(r, x, m) => Has(r, x, m)'
      BY <2>1, LockStep
    <3> QED
      BY <3>1, <2>2, <2>3, <2>9
      DEF HoldsLocks, HasOwner, HasCart, HasCoupon, HasOrder, HasEvent, NoStock
  <2> QED
    BY <2>3, <2>5, <2>6, <2>7, <2>8, <2>10, <2>11
    DEF Own, View, NothingRead, OrderIsCurrent, HasOrder, HasEvent, CloseLabels
<1> QED
  BY <1>1, <1>2

\* A stock row that r has written is locked and as r will leave it.
LEMMA StockOwn ==
  ASSUME TypeOK, TxTypes, NEW r \in Requests, View(r), HoldsLocks(r), UNCHANGED vars,
         pc[r] \in {"reserve", "stock"}, NEW s \in Unstocked(r), Suffices(r, s),
         Lock(r, StockRow(s), Exclusive), tx' = [tx EXCEPT ![r].stock[s] = Written(r, s)],
         pc'[r] = IF Unstocked(r) = {s} THEN IF pc[r] = "reserve" THEN "save" ELSE "close"
                  ELSE pc[r]
  PROVE  Own(r)
<1>1. /\ tx[r] \in TxRow /\ s \in Skus /\ s \in LinesOf(r)
      /\ CartIsCurrent(r) /\ PricesAreCurrent(r) /\ TimeIsRead(r) /\ CouponIsCurrent(r)
      /\ OrderIsCurrent(r) /\ StockIsCurrent(r) /\ Follows(r)
  BY DEF View, TxTypes, Unstocked, LinesOf
<1>2. /\ tx'[r].priced = tx[r].priced /\ tx'[r].items = tx[r].items /\ tx'[r].order = tx[r].order
      /\ tx'[r].total = tx[r].total /\ tx'[r].now = tx[r].now /\ tx'[r].version = tx[r].version
      /\ tx'[r].discount = tx[r].discount
      /\ tx'[r].stock = [tx[r].stock EXCEPT ![s] = Written(r, s)]
  BY <1>1 DEF TxTypes, TxRow
<1>3. /\ tx'[r].stock[s] = Written(r, s)
      /\ \A z \in Skus \ {s} : tx'[r].stock[z] = tx[r].stock[z]
  BY <1>1, <1>2 DEF TxRow
<1>4. LinesOf(r)' = LinesOf(r)
  BY <1>2 DEF LinesOf
<1>5. Written(r, s) # Null
  BY <1>1, WrittenType, RequestsAreWellFormed DEF StockRows
<1>6. Unstocked(r)' = Unstocked(r) \ {s}
  BY <1>1, <1>3, <1>4, <1>5 DEF Unstocked, LinesOf
<1>7. /\ pc[r] = "reserve" => pc'[r] \in {"reserve", "save"}
      /\ pc[r] = "stock" => pc'[r] \in {"stock", "close"}
  OBVIOUS
<1>8. CartIsCurrent(r)'
  BY <1>1, <1>2, <1>4, <1>7 DEF CartIsCurrent, HasCart, vars
<1>9. PricesAreCurrent(r)'
  BY <1>1, <1>2, <1>4, <1>7
  DEF PricesAreCurrent, HasCart, HasPriced, AmountOf, AmountUnits, vars
<1>10. TimeIsRead(r)'
  BY <1>1, <1>2, <1>7 DEF TimeIsRead, HasTime, vars
<1>11. CouponIsCurrent(r)'
  <2>1. CouponApplies(Request[r].coupon, Request[r].user, tx[r].total, tx[r].now)' <=>
          CouponApplies(Request[r].coupon, Request[r].user, tx[r].total, tx[r].now)
    BY <1>2 DEF CouponApplies, ActiveUsages, ActiveUsagesOf, vars
  <2> QED
    BY <1>1, <1>2, <1>7, <2>1 DEF CouponIsCurrent, HasCoupon
<1>12. OrderIsCurrent(r)'
  <2>1. Admitted(r, tx[r].order)' <=> Admitted(r, tx[r].order)
    BY <1>2 DEF Admitted, vars
  <2> QED
    BY <1>1, <1>2, <1>7, <2>1 DEF OrderIsCurrent, CloseLabels, HasOrder, HasEvent, vars
<1>13. StockIsCurrent(r)'
  <2>1. ASSUME NEW z \in Skus, tx'[r].stock[z] # Null
        PROVE  z \in LinesOf(r) /\ Suffices(r, z)' /\ tx'[r].stock[z] = Written(r, z)'
    <3>1. z \in LinesOf(r) /\ Suffices(r, z) /\ tx'[r].stock[z] = Written(r, z)
      BY <1>1, <1>3, <2>1 DEF StockIsCurrent, HasCoupon, HasEvent
    <3> QED
      BY <1>2, <3>1 DEF Suffices, Written, vars
  <2>2. pc'[r] \in {"save", "close"} => Unstocked(r)' = {}
    BY <1>6
  <2> QED
    BY <1>4, <1>7, <2>1, <2>2 DEF StockIsCurrent
<1>14. HoldsLocks(r)'
  <2>1. Has(r, StockRow(s), Exclusive)' /\ \A x, m : Has(r, x, m) => Has(r, x, m)'
    BY LockStep
  <2>2. pc[r] \in HasCoupon \cup HasEvent
    BY DEF HasCoupon, HasEvent
  <2>3. ASSUME NEW z \in Skus, tx'[r].stock[z] # Null
        PROVE  Has(r, StockRow(z), Exclusive)'
    BY <1>3, <2>1, <2>2, <2>3 DEF HoldsLocks
  <2> QED
    BY <1>2, <1>7, <2>1, <2>3 DEF HoldsLocks, HasOwner, HasCart, HasCoupon, HasOrder, HasEvent
<1> QED
  BY <1>7, <1>8, <1>9, <1>10, <1>11, <1>12, <1>13, <1>14 DEF Own, View, NothingRead

LEMMA ReserveOwn ==
  ASSUME TypeOK, TxTypes, NEW r \in Requests, View(r), HoldsLocks(r), ReserveLine(r)
  PROVE  Own(r)
<1>1. CASE Rollback(r, "refused")
  BY <1>1, RollbackRests
<1>2. CASE ~Rollback(r, "refused")
  <2>1. PICK s \in Skus :
          /\ s \in Unstocked(r)
          /\ CanReserve(inventory[s], tx[r].items[s])
          /\ Lock(r, StockRow(s), Exclusive)
          /\ tx' = [tx EXCEPT ![r].stock[s] = Reserve(inventory[s], tx[r].items[s])]
          /\ pc' = [pc EXCEPT ![r] = IF Unstocked(r) = {s} THEN "save" ELSE "reserve"]
    BY <1>2 DEF ReserveLine, Lowest, Goto
  <2>2. Request[r].op = "checkout" /\ pc[r] = "reserve" /\ UNCHANGED vars
    BY DEF ReserveLine, At
  <2>3. Suffices(r, s) /\ Written(r, s) = Reserve(inventory[s], tx[r].items[s])
    BY <2>1, <2>2 DEF Suffices, Written
  <2>4. pc'[r] = IF Unstocked(r) = {s} THEN "save" ELSE "reserve"
    BY <2>1 DEF TxTypes
  <2> QED
    BY <2>1, <2>2, <2>3, <2>4, StockOwn
<1> QED
  BY <1>1, <1>2

LEMMA MoveOwn ==
  ASSUME TypeOK, TxTypes, NEW r \in Requests, View(r), HoldsLocks(r), MoveLine(r)
  PROVE  Own(r)
<1>1. CASE Rollback(r, "done")
  BY <1>1, RollbackRests
<1>2. CASE ~Rollback(r, "done")
  <2>1. PICK s \in Skus :
          /\ s \in Unstocked(r)
          /\ HasReserved(inventory[s], tx[r].items[s])
          /\ Lock(r, StockRow(s), Exclusive)
          /\ tx' = [tx EXCEPT ![r].stock[s] =
               IF Request[r].op = "pay" THEN Commit(inventory[s], tx[r].items[s])
                                        ELSE Release(inventory[s], tx[r].items[s])]
          /\ pc' = [pc EXCEPT ![r] = IF Unstocked(r) = {s} THEN "close" ELSE "stock"]
    BY <1>2 DEF MoveLine, NextLine, Lowest, Goto
  <2>2. Request[r].op # "checkout" /\ pc[r] = "stock" /\ UNCHANGED vars
    BY DEF MoveLine, TxTypes, Follows, CloseLabels
  <2>3. Suffices(r, s)
    BY <2>1, <2>2 DEF Suffices
  <2>4. tx' = [tx EXCEPT ![r].stock[s] = Written(r, s)]
    BY <2>1, <2>2 DEF Written
  <2>5. pc'[r] = IF Unstocked(r) = {s} THEN "close" ELSE "stock"
    BY <2>1 DEF TxTypes
  <2> QED
    BY <2>1, <2>2, <2>3, <2>4, <2>5, StockOwn
<1> QED
  BY <1>1, <1>2

LEMMA ChooseOwn ==
  ASSUME TypeOK, TxTypes, NEW r \in Requests, View(r), ChooseOrder(r)
  PROVE  Own(r)
<1>1. PICK o \in Orders :
        orders[o].status # NoStatus /\ tx' = [tx EXCEPT ![r].order = o, ![r].now = clock]
  BY DEF ChooseOrder
<1>2. pc'[r] = "lock" /\ pc[r] = "idle" /\ UNCHANGED vars /\ tx[r] = NoTx
  BY DEF ChooseOrder, Goto, TxTypes, View, NothingRead
<1>3. tx'[r].order = o /\ tx'[r].now = clock /\ tx'[r].stock = NoStock
  BY <1>1, <1>2 DEF TxTypes, NoTx
<1>4. OrderIsCurrent(r)'
  BY <1>1, <1>2, <1>3 DEF OrderIsCurrent, HasOrder, HasEvent, vars, TypeOK
<1>5. StockIsCurrent(r)'
  BY <1>2, <1>3 DEF StockIsCurrent, HasCoupon, HasEvent, NoStock
<1> QED
  BY <1>2, <1>4, <1>5
  DEF Own, View, HoldsLocks, NothingRead, CartIsCurrent, PricesAreCurrent, TimeIsRead,
      CouponIsCurrent, HasOwner, HasCart, HasTime, HasCoupon, HasOrder, HasEvent

LEMMA LockOrderOwn ==
  ASSUME TypeOK, TxTypes, NEW r \in Requests, View(r), LockOrder(r)
  PROVE  Own(r)
<1>1. CASE Rollback(r, "done")
  BY <1>1, RollbackRests
<1>2. CASE ~Rollback(r, "done")
  <2> DEFINE label == IF Request[r].op = "pay" THEN "event" ELSE "stock"
  <2>1. PICK o \in Orders :
          /\ tx[r].order = o /\ orders[o].status # NoStatus /\ tx[r].now <= clock
    BY DEF View, OrderIsCurrent, LockOrder, CloseLabels
  <2>2. /\ Admitted(r, o)
        /\ Lock(r, OrderRow(o), Exclusive)
        /\ tx' = [tx EXCEPT ![r].items = orders[o].items, ![r].version = orders[o].version,
                            ![r].now = IF Request[r].op = "pay" THEN clock ELSE @]
        /\ pc' = [pc EXCEPT ![r] = label]
    BY <1>2, <2>1 DEF LockOrder, Goto
  <2>3. /\ pc[r] = "lock" /\ UNCHANGED vars /\ tx[r] \in TxRow /\ Follows(r)
        /\ tx[r].stock = NoStock
    BY DEF LockOrder, View, TxTypes, StockIsCurrent
  <2>4. /\ tx'[r].items = orders[o].items /\ tx'[r].version = orders[o].version
        /\ tx'[r].order = o /\ tx'[r].stock = NoStock
        /\ tx'[r].now = IF Request[r].op = "pay" THEN clock ELSE tx[r].now
        /\ pc'[r] = label
    BY <2>1, <2>2, <2>3 DEF TxTypes, TxRow
  <2>5. tx'[r].now <= clock
    BY <2>1, <2>4 DEF TypeOK
  <2>6. Admitted(r, o)'
    BY <2>2, <2>3, <2>4 DEF Admitted, vars
  <2>7. OrderIsCurrent(r)'
    <3>1. Admitted(r, tx[r].order)'
      BY <2>4, <2>6 DEF Admitted
    <3> QED
      BY <2>1, <2>3, <2>4, <2>5, <3>1 DEF OrderIsCurrent, HasEvent, HasOrder, vars
  <2>8. StockIsCurrent(r)'
    <3>1. Unstocked(r)' = LinesOf(r)'
      BY <2>4 DEF Unstocked, NoStock, LinesOf
    <3> QED
      BY <2>4, <3>1 DEF StockIsCurrent, NoStock
  <2>9. HoldsLocks(r)'
    <3>1. Has(r, OrderRow(o), Exclusive)'
      BY <2>2, LockStep
    <3> QED
      BY <2>4, <3>1 DEF HoldsLocks, HasOwner, HasCart, HasCoupon, HasOrder, HasEvent, NoStock
  <2> QED
    BY <2>4, <2>7, <2>8, <2>9
    DEF Own, View, NothingRead, CartIsCurrent, PricesAreCurrent, TimeIsRead,
        CouponIsCurrent, HasCart, HasTime, HasCoupon
<1> QED
  BY <1>1, <1>2

LEMMA EventOwn ==
  ASSUME TypeOK, TxTypes, NEW r \in Requests, View(r), HoldsLocks(r), InsertEvent(r)
  PROVE  Own(r)
<1>1. CASE Rollback(r, "done")
  BY <1>1, RollbackRests
<1>2. CASE ~Rollback(r, "done")
  <2>1. /\ \A row \in events : row.event # Request[r].event
        /\ orders[tx[r].order].status = PendingPayment
        /\ Unexpired(orders[tx[r].order], tx[r].now)
        /\ Lock(r, EventRow(Request[r].event), Exclusive)
        /\ pc'[r] = "stock" /\ tx' = tx
    BY <1>2 DEF InsertEvent, Goto, TxTypes
  <2>2. /\ pc[r] = "event" /\ UNCHANGED vars /\ Request[r].op = "pay"
        /\ OrderIsCurrent(r) /\ tx[r].stock = NoStock
    BY DEF InsertEvent, At, View, StockIsCurrent
  <2>3. OrderIsCurrent(r)'
    <3>1. Admitted(r, tx[r].order)'
      BY <2>1, <2>2 DEF OrderIsCurrent, HasOrder, Admitted, vars
    <3> QED
      BY <2>1, <2>2, <3>1 DEF OrderIsCurrent, HasEvent, HasOrder, CloseLabels, vars
  <2>4. StockIsCurrent(r)'
    BY <2>1, <2>2 DEF StockIsCurrent, NoStock
  <2>5. HoldsLocks(r)'
    BY <2>1, <2>2, LockStep
    DEF HoldsLocks, HasOwner, HasCart, HasCoupon, HasOrder, HasEvent, NoStock
  <2> QED
    BY <2>1, <2>3, <2>4, <2>5
    DEF Own, View, NothingRead, CartIsCurrent, PricesAreCurrent, TimeIsRead,
        CouponIsCurrent, HasCart, HasTime, HasCoupon
<1> QED
  BY <1>1, <1>2

LEMMA StatementOwn ==
  ASSUME TypeOK, TxTypes, NEW r \in Requests, View(r), HoldsLocks(r), RequestStep(r) \/ Abort(r)
  PROVE  Own(r)
<1> USE DEF Goto, At
<1>1. CASE CheckKey(r)
  BY <1>1, AtRest, AtStart DEF CheckKey, TxTypes, View, NothingRead
<1>2. CASE LockCartOwner(r)
  BY <1>2, AtStart, LockStep DEF LockCartOwner, TxTypes, View, NothingRead
<1>3. CASE RecheckKey(r)
  <2>1. Has(r, UserRow(Request[r].user), Exclusive)
    BY <1>3 DEF RecheckKey, HoldsLocks, HasOwner
  <2>2. UNCHANGED holds => Has(r, UserRow(Request[r].user), Exclusive)'
    BY <2>1 DEF Has, LocksOf
  <2> QED
    BY <1>3, <2>2, AtRest, AtStart DEF RecheckKey, TxTypes, View, NothingRead
<1>4. CASE ReadCart(r)
  BY <1>4, CartOwn
<1>5. CASE PriceLine(r)
  BY <1>5, PriceOwn
<1>6. CASE ReadClock(r)
  BY <1>6, ClockOwn
<1>7. CASE ApplyCoupon(r)
  BY <1>7, CouponOwn
<1>8. CASE ReserveLine(r)
  BY <1>8, ReserveOwn
<1>9. CASE SaveOrder(r)
  BY <1>9, AtRest DEF SaveOrder, Rollback, TxTypes
<1>10. CASE AnswerCreated(r)
  BY <1>10, AtRest DEF AnswerCreated, TxTypes
<1>11. CASE AnswerFailed(r)
  BY <1>11, AtRest DEF AnswerFailed, TxTypes
<1>12. CASE ChooseOrder(r)
  BY <1>12, ChooseOwn
<1>13. CASE LockOrder(r)
  BY <1>13, LockOrderOwn
<1>14. CASE InsertEvent(r)
  BY <1>14, EventOwn
<1>15. CASE MoveLine(r)
  BY <1>15, MoveOwn
<1>16. CASE CloseOrder(r)
  BY <1>16, AtRest DEF CloseOrder, Rollback, TxTypes
<1>17. CASE Abort(r)
  BY <1>17, RollbackRests DEF Abort, AfterRollback
<1> QED
  BY <1>1, <1>2, <1>3, <1>4, <1>5, <1>6, <1>7, <1>8, <1>9, <1>10, <1>11, <1>12, <1>13, <1>14,
     <1>15, <1>16, <1>17
  DEF RequestStep, CheckoutStep, CloseStep

-----------------------------------------------------------------------------
(* The locks keep everybody else away. *)

LEMMA NothingDisturbed ==
  ASSUME TypeOK, NEW t \in Requests, UNCHANGED vars
  PROVE  Undisturbed(t)
  BY DEF Undisturbed, vars, TypeOK, ActiveUsages

\* The active usages of a coupon, when no usage becomes active.
LEMMA NoNewUsage ==
  ASSUME NEW c \in Coupons,
         \A o \in ActiveUsages(c)' :
           /\ orders[o].coupon = c /\ usages[o] \in {UsageReserved, UsageConsumed}
           /\ orders'[o].user = orders[o].user
  PROVE  /\ ActiveUsages(c)' \subseteq ActiveUsages(c)
         /\ \A o \in ActiveUsages(c)' : orders'[o].user = orders[o].user
  BY DEF ActiveUsages

LEMMA SingleRowDisturbsNobody ==
  ASSUME TypeOK, NEW t \in Requests, SingleRowStep
  PROVE  Undisturbed(t)
<1> USE DEF TypeOK, vars
<1>0. \A row, m : Unlocked(row) => ~Has(t, row, m)
  BY LockedIsNotUnlocked
<1>1. CASE \E p \in Products : CreateProduct(p) \/ SaveProduct(p) \/ DeleteProduct(p)
  BY <1>1 DEF CreateProduct, SaveProduct, DeleteProduct, Undisturbed, ActiveUsages
<1>2. CASE \E u \in Users : WriteCart(u)
  <2>1. PICK u \in Users : WriteCart(u)
    BY <1>2
  <2>2. \A v \in Users \ {u} : carts'[v] = carts[v]
    BY <2>1 DEF WriteCart, CartAdd, CartUpdate, CartDelete, CartClear
  <2>3. UNCHANGED <<clock, products, skus, inventory, orders, usages, payments, events>>
    BY <2>1 DEF WriteCart, CartAdd, CartUpdate, CartDelete, CartClear
  <2>4. ~Has(t, UserRow(u), Exclusive)
    BY <1>0, <2>1 DEF WriteCart
  <2> QED
    BY <2>2, <2>3, <2>4 DEF Undisturbed, ActiveUsages
<1>3. CASE \E s \in Skus : CreateSKU(s) \/ (Unlocked(SkuRow(s)) /\ UpdateSKU(s))
  <2>1. PICK s \in Skus : CreateSKU(s) \/ (Unlocked(SkuRow(s)) /\ UpdateSKU(s))
    BY <1>3
  <2>2. CASE CreateSKU(s)
    BY <2>2 DEF CreateSKU, Undisturbed, ActiveUsages
  <2>3. CASE Unlocked(SkuRow(s)) /\ UpdateSKU(s)
    BY <1>0, <2>3 DEF UpdateSKU, Undisturbed, ActiveUsages
  <2> QED
    BY <2>1, <2>2, <2>3
<1>4. CASE \E o \in Orders :
             /\ Unlocked(OrderRow(o))
             /\ \/ \E target \in OrderStatuses : Advance(o, target)
                \/ CreatePayment(o)
                \/ \E e \in Events : /\ Unlocked(EventRow(e))
                                     /\ PaymentFails(e, o) \/ PaymentRepeats(e, o)
  <2>1. PICK o \in Orders :
             /\ Unlocked(OrderRow(o))
             /\ \/ \E target \in OrderStatuses : Advance(o, target)
                \/ CreatePayment(o)
                \/ \E e \in Events : /\ Unlocked(EventRow(e))
                                     /\ PaymentFails(e, o) \/ PaymentRepeats(e, o)
    BY <1>4
  <2>2. ~Has(t, OrderRow(o), Exclusive)
    BY <1>0, <2>1
  <2>3. CASE \E target \in OrderStatuses : Advance(o, target)
    <3>1. PICK target, now : Moved(o, target, now) /\ target \in {Processing, Completed}
      BY <2>3 DEF Advance, Moved
    <3>2. UNCHANGED <<clock, products, skus, inventory, carts, usages, payments, events>>
      BY <2>3 DEF Advance
    <3>3. /\ orders'[o].user = orders[o].user /\ orders'[o].coupon = orders[o].coupon
          /\ orders'[o].status = target /\ target # NoStatus
          /\ \A p \in Orders \ {o} : orders'[p] = orders[p]
      BY <3>1, MovedRow
    <3>4. \A c \in Coupons : \A p \in ActiveUsages(c)' :
            /\ orders[p].coupon = c /\ usages[p] \in {UsageReserved, UsageConsumed}
            /\ orders'[p].user = orders[p].user
      BY <3>2, <3>3 DEF ActiveUsages
    <3> QED
      BY <2>2, <3>2, <3>3, <3>4, NoNewUsage DEF Undisturbed
  <2>4. CASE CreatePayment(o)
    BY <2>2, <2>4 DEF CreatePayment, Undisturbed, ActiveUsages
  <2>5. CASE \E e \in Events : /\ Unlocked(EventRow(e))
                               /\ PaymentFails(e, o) \/ PaymentRepeats(e, o)
    <3>1. PICK e \in Events : /\ Unlocked(EventRow(e))
                              /\ PaymentFails(e, o) \/ PaymentRepeats(e, o)
      BY <2>5
    <3>2. ~Has(t, EventRow(e), Exclusive)
      BY <1>0, <3>1
    <3>3. \A row \in events' : row.event # e => row \in events
      BY <3>1 DEF PaymentFails, PaymentRepeats, RecordEvent
    <3>4. /\ UNCHANGED <<clock, products, skus, inventory, carts, orders, usages>>
          /\ \A p \in Orders \ {o} : payments'[p] = payments[p]
      BY <3>1 DEF PaymentFails, PaymentRepeats
    <3> QED
      BY <2>2, <3>2, <3>3, <3>4 DEF Undisturbed, ActiveUsages
  <2> QED
    BY <2>1, <2>3, <2>4, <2>5
<1>5. CASE Tick
  BY <1>5 DEF Tick, Undisturbed, ActiveUsages
<1> QED
  BY <1>1, <1>2, <1>3, <1>4, <1>5 DEF SingleRowStep

\* What r writes to the stock at its commit, it has locked.
LEMMA StockOfOthers ==
  ASSUME TypeOK, TxTypes, LocksExclude, NEW r \in Requests, NEW t \in Requests, t # r,
         HoldsLocks(r), pc[r] \in HasCoupon \cup HasEvent, inventory' = StockAfter(r),
         NEW s \in Skus, Has(t, StockRow(s), Exclusive)
  PROVE  inventory'[s] = inventory[s]
<1>1. ~Has(r, StockRow(s), Exclusive)
  BY LockedOnce
<1>2. tx[r].stock[s] = Null
  BY <1>1 DEF HoldsLocks
<1> QED
  BY <1>2 DEF StockAfter

LEMMA SaveDisturbsNobody ==
  ASSUME TypeOK, TxTypes, LocksExclude, NEW r \in Requests, NEW t \in Requests, t # r,
         View(r), HoldsLocks(r), SaveOrder(r)
  PROVE  Undisturbed(t)
<1> DEFINE q == Request[r]
<1>1. CASE UNCHANGED vars
  BY <1>1, NothingDisturbed
<1>2. CASE ~UNCHANGED vars
  <2>1. PICK o \in Orders :
          /\ orders[o].status = NoStatus
          /\ orders' = [orders EXCEPT ![o] =
               NewOrder(q.user, q.key, q.coupon, tx[r].items, tx[r].total,
                        tx[r].discount, tx[r].now)]
          /\ usages' = IF q.coupon = Null THEN usages
                       ELSE [usages EXCEPT ![o] = UsageReserved]
          /\ carts' = [carts EXCEPT ![q.user] = NoItems]
          /\ inventory' = StockAfter(r)
          /\ UNCHANGED <<clock, products, skus, payments, events>>
    BY <1>2 DEF SaveOrder
  <2>2. /\ pc[r] = "save" /\ q.op = "checkout" /\ q.user \in Users
        /\ q.coupon \in Coupons \cup {Null}
    BY Asks DEF SaveOrder, At
  <2>3. /\ Has(r, UserRow(q.user), Exclusive)
        /\ q.coupon # Null => Has(r, CouponRowOf(q.coupon), Exclusive)
    BY <2>2 DEF HoldsLocks, HasOwner, HasCoupon
  <2>4. Placed(o, q.user, q.key, q.coupon, tx[r].now)
    BY <2>1 DEF Placed
  <2>5. /\ orders'[o].coupon = q.coupon /\ orders'[o].status = PendingPayment
        /\ \A p \in Orders \ {o} : orders'[p] = orders[p]
    BY <2>4, PlacedRow
  <2>6. \A u \in Users : Has(t, UserRow(u), Exclusive) => carts'[u] = carts[u]
    <3>1. \A u \in Users : Has(t, UserRow(u), Exclusive) => u # q.user
      BY <2>3, LockedOnce
    <3> QED
      BY <2>1, <3>1 DEF TypeOK
  <2>7. \A s \in Skus : Has(t, StockRow(s), Exclusive) => inventory'[s] = inventory[s]
    BY <2>1, <2>2, StockOfOthers DEF HasCoupon
  <2>8. ASSUME NEW c \in Coupons, Has(t, CouponRowOf(c), Exclusive)
        PROVE  /\ ActiveUsages(c)' \subseteq ActiveUsages(c)
               /\ \A p \in ActiveUsages(c)' : orders'[p].user = orders[p].user
    <3>1. q.coupon # c
      BY <2>3, <2>8, LockedOnce, TablesAreFinite
    <3>2. \A p \in ActiveUsages(c)' : p # o
      BY <2>5, <3>1 DEF ActiveUsages
    <3>3. \A p \in Orders \ {o} : orders'[p] = orders[p] /\ usages'[p] = usages[p]
      BY <2>1, <2>5 DEF TypeOK
    <3> QED
      BY <3>2, <3>3 DEF ActiveUsages
  <2> QED
    BY <2>1, <2>5, <2>6, <2>7, <2>8 DEF Undisturbed, TypeOK
<1> QED
  BY <1>1, <1>2

LEMMA CloseDisturbsNobody ==
  ASSUME TypeOK, TxTypes, LocksExclude, NEW r \in Requests, NEW t \in Requests, t # r,
         View(r), HoldsLocks(r), CloseOrder(r)
  PROVE  Undisturbed(t)
<1> DEFINE pays == Request[r].op = "pay"
<1>1. CASE UNCHANGED vars
  BY <1>1, NothingDisturbed
<1>2. CASE ~UNCHANGED vars
  <2>1. PICK o \in Orders : tx[r].order = o
    BY DEF View, OrderIsCurrent, CloseLabels, CloseOrder
  <2>2. /\ orders' = [orders EXCEPT ![o] = Transition(@, Target(r), tx[r].now)]
        /\ inventory' = StockAfter(r)
        /\ MoveUsage(o, IF pays THEN UsageConsumed ELSE UsageReleased)
        /\ IF pays
             THEN /\ payments' = [payments EXCEPT ![o] = PaymentSucceeded]
                  /\ events' = events \cup
                       {[event |-> Request[r].event, order |-> o,
                         amount |-> Payable(orders[o]), status |-> CallbackSuccess]}
             ELSE UNCHANGED <<payments, events>>
        /\ UNCHANGED <<clock, products, skus, carts>>
    BY <1>2, <2>1 DEF CloseOrder
  <2>3. pc[r] = "close" /\ Request[r].op \in {"cancel", "expire", "pay"}
    BY Asks DEF CloseOrder, TxTypes, Follows, CloseLabels
  <2>4. /\ Has(r, OrderRow(o), Exclusive)
        /\ pays => Has(r, EventRow(Request[r].event), Exclusive)
    BY <2>1, <2>3 DEF HoldsLocks, HasOrder, HasEvent
  <2>5. ~Has(t, OrderRow(o), Exclusive)
    BY <2>4, LockedOnce
  <2>6. Target(r) \in {Cancelled, Expired, Paid}
    BY <2>3 DEF Target
  <2>7. /\ orders'[o] = Transition(orders[o], Target(r), tx[r].now)
        /\ orders[o] \in Order
        /\ \A p \in Orders \ {o} : orders'[p] = orders[p]
    BY <2>2 DEF TypeOK
  <2>8. /\ orders'[o].status \in {Cancelled, Expired, Paid}
        /\ orders'[o].user = orders[o].user /\ orders'[o].coupon = orders[o].coupon
    BY <2>6, <2>7 DEF Transition, Order
  <2>9. \A s \in Skus : Has(t, StockRow(s), Exclusive) => inventory'[s] = inventory[s]
    BY <2>2, <2>3, StockOfOthers DEF HasEvent
  <2>10. ASSUME NEW e \in Events, Has(t, EventRow(e), Exclusive), NEW row \in events', row.event = e
         PROVE  row \in events
    <3>1. pays => Request[r].event # e
      BY <2>4, <2>10, LockedOnce
    <3> QED
      BY <2>2, <2>10, <3>1
  <2>11. \A p \in Orders \ {o} : payments'[p] = payments[p] /\ usages'[p] = usages[p]
    BY <2>2 DEF MoveUsage, TypeOK
  <2>12. ASSUME NEW c \in Coupons
         PROVE  /\ ActiveUsages(c)' \subseteq ActiveUsages(c)
                /\ \A p \in ActiveUsages(c)' : orders'[p].user = orders[p].user
    <3>1. o \in ActiveUsages(c)' => orders[o].coupon = c /\ usages[o] = UsageReserved
      BY <2>2, <2>8, TablesAreFinite DEF ActiveUsages, MoveUsage
    <3> QED
      BY <2>7, <2>8, <2>11, <3>1 DEF ActiveUsages
  <2> QED
    BY <2>2, <2>5, <2>7, <2>8, <2>9, <2>10, <2>11, <2>12 DEF Undisturbed, TypeOK
<1> QED
  BY <1>1, <1>2

LEMMA StatementDisturbsNobody ==
  ASSUME TypeOK, TxTypes, LocksExclude, NEW r \in Requests, NEW t \in Requests, t # r,
         View(r), HoldsLocks(r), RequestStep(r) \/ Abort(r)
  PROVE  Undisturbed(t)
<1>1. CASE SaveOrder(r)
  BY <1>1, SaveDisturbsNobody
<1>2. CASE CloseOrder(r)
  BY <1>2, CloseDisturbsNobody
<1>3. CASE ~SaveOrder(r) /\ ~CloseOrder(r)
  <2>1. UNCHANGED vars
    BY <1>3
    DEF RequestStep, CheckoutStep, CloseStep, Abort, CheckKey, LockCartOwner, RecheckKey,
        ReadCart, PriceLine, ReadClock, ApplyCoupon, ReserveLine, AnswerCreated, AnswerFailed,
        ChooseOrder, LockOrder, InsertEvent, MoveLine
  <2> QED
    BY <2>1, NothingDisturbed
<1> QED
  BY <1>1, <1>2, <1>3

-----------------------------------------------------------------------------
(* The sum that Commerce folds over the cart is the sum that the transaction *)
(* adds up line by line.                                                     *)

LEMMA SubtotalIsAmount ==
  ASSUME TypeOK, NEW u \in Users, IsFiniteSet(Lines(u)),
         IsFiniteSet(AmountUnits(Lines(u), carts[u]))
  PROVE  Subtotal(u) = AmountOf(Lines(u), carts[u])
<1> DEFINE L == Lines(u)
           cost(x) == skus[x].price * carts[u][x]
           first(T) == CHOOSE x \in T : TRUE
           h == [T \in SUBSET L |-> AmountOf(T, carts[u])]
           body(f) == [T \in SUBSET L |->
                         IF T = {} THEN 0 ELSE cost(first(T)) + f[T \ {first(T)}]]
           iter == CHOOSE f : f = body(f)
<1>1. Subtotal(u) = iter[L]
  BY DEF Subtotal, MapThenSumSet, MapThenFoldSet
<1>2. \A x \in L : cost(x) \in Nat
  BY LimitsAreNatural DEF Lines, TypeOK, Items, Quantities
<1>3. \A T \in SUBSET L : T # {} => first(T) \in T
  OBVIOUS
<1>4. ASSUME NEW T \in SUBSET L, NEW x \in T
      PROVE  h[T] = cost(x) + h[T \ {x}]
  <2> DEFINE R == T \ {x}
  <2>1. AmountUnits(R, carts[u]) \subseteq AmountUnits(L, carts[u]) /\ R \in SUBSET L
    BY DEF AmountUnits
  <2>2. IsFiniteSet(AmountUnits(R, carts[u]))
    BY <2>1, FS_Subset
  <2>3. AmountOf(R, carts[u]) \in Nat
    BY <2>2, FS_CardinalityType DEF AmountOf
  <2>4. x \notin R /\ R \cup {x} = T /\ skus[x].price * carts[u][x] \in Nat
    BY <1>2
  <2>5. AmountOf(R \cup {x}, carts[u]) = AmountOf(R, carts[u]) + skus[x].price * carts[u][x]
    BY <2>2, <2>4, AmountOneMore, Zenon
  <2> HIDE DEF R
  <2>6. AmountOf(T, carts[u]) = AmountOf(R, carts[u]) + cost(x)
    BY <2>4, <2>5, Zenon
  <2>7. cost(x) \in Nat
    BY <1>2
  <2> HIDE DEF cost
  <2>8. AmountOf(T, carts[u]) = cost(x) + AmountOf(R, carts[u])
    BY <2>3, <2>6, <2>7
  <2> QED
    BY <2>1, <2>8 DEF R
<1>5. h[{}] = 0
  BY NothingCosts
<1> HIDE DEF h
<1>6. h = body(h)
  <2>1. h = [T \in SUBSET L |-> h[T]]
    BY DEF h
  <2>2. ASSUME NEW T \in SUBSET L
        PROVE  h[T] = IF T = {} THEN 0 ELSE cost(first(T)) + h[T \ {first(T)}]
    BY <1>3, <1>4, <1>5
  <2> QED
    BY <2>1, <2>2, Zenon
<1>7. iter = body(iter)
  BY <1>6
<1> HIDE DEF iter
<1>8. \A T \in SUBSET L : iter[T] = IF T = {} THEN 0 ELSE cost(first(T)) + iter[T \ {first(T)}]
  BY <1>7
<1> HIDE DEF cost, first
<1> DEFINE Bad == {T \in SUBSET L : iter[T] # h[T]}
<1>9. Bad = {}
  <2> SUFFICES ASSUME Bad # {} PROVE FALSE
    OBVIOUS
  <2>1. IsWellFoundedOn(StrictSubsetOrdering(L), SUBSET L)
    BY FS_StrictSubsetOrderingWellFounded, FS_FiniteSubsetsOfFinite
  <2>2. PICK M \in Bad : \A T \in Bad : <<T, M>> \notin StrictSubsetOrdering(L)
    <3> HIDE DEF Bad
    <3>1. Bad \subseteq SUBSET L
      BY DEF Bad
    <3> QED
      BY <2>1, <3>1, WFMin
  <2>3. M # {}
    BY <1>5, <1>8
  <2>4. first(M) \in M /\ M \in SUBSET L
    BY <1>3, <2>3
  <2>5. M \ {first(M)} \in SUBSET L
        /\ <<M \ {first(M)}, M>> \in StrictSubsetOrdering(L)
    BY <2>4 DEF StrictSubsetOrdering
  <2>6. iter[M \ {first(M)}] = h[M \ {first(M)}]
    BY <2>2, <2>5
  <2>7. iter[M] = h[M]
    BY <1>4, <1>8, <2>3, <2>4, <2>6
  <2> QED
    BY <2>7
<1>10. iter[L] = h[L]
  BY <1>9
<1> QED
  BY <1>1, <1>10 DEF h

-----------------------------------------------------------------------------
(* Every commit is a step of Commerce, taken at once. *)

\* The stock as the transaction leaves it, over all SKUs.
LEMMA StockAtCommit ==
  ASSUME TypeOK, TxTypes, NEW r \in Requests, StockIsCurrent(r), pc[r] \in {"save", "close"}
  PROVE  /\ StockAfter(r) = [s \in Skus |-> Written(r, s)]
         /\ \A s \in Skus : Suffices(r, s)
<1>1. ASSUME NEW s \in Skus
      PROVE  Suffices(r, s) /\ StockAfter(r)[s] = Written(r, s)
  <2>1. inventory[s] \in [available: Nat, reserved: Nat] /\ tx[r].items[s] \in Nat
    BY LimitsAreNatural DEF TypeOK, TxTypes, TxRow, Items, Quantities
  <2>2. CASE s \in LinesOf(r)
    BY <2>2 DEF StockIsCurrent, Unstocked, HasCoupon, HasEvent, StockAfter
  <2>3. CASE s \notin LinesOf(r)
    <3>1. tx[r].stock[s] = Null
      BY <2>3 DEF StockIsCurrent, HasCoupon, HasEvent
    <3>2. tx[r].items[s] = 0
      BY <2>1, <2>3 DEF LinesOf
    <3>3. Written(r, s) = inventory[s]
      BY <2>1, <3>2 DEF Written, Reserve, Release, Commit
    <3> QED
      BY <2>1, <3>1, <3>2, <3>3 DEF Suffices, CanReserve, HasReserved, StockAfter
  <2> QED
    BY <2>2, <2>3
<1>2. StockAfter(r) = [s \in Skus |-> StockAfter(r)[s]]
  BY DEF StockAfter
<1> QED
  BY <1>1, <1>2

\* What the transaction of r does to the tables when it commits order o.
Bought(r, o) ==
  LET u == Request[r].user
      c == Request[r].coupon
      now == tx[r].now
      discount == IF c = Null THEN 0 ELSE Discount(CouponOf[c], Subtotal(u))
  IN  /\ o \in Orders /\ now \in Stamps
      /\ orders[o].status = NoStatus
      /\ KeyUnused(u, Request[r].key)
      /\ Lines(u) # {} /\ Cardinality(Lines(u)) <= MaxOrderItems
      /\ Lines(u) = tx[r].priced
      /\ \A s \in Lines(u) : skus[s].status = SKUStatusActive
      /\ Subtotal(u) \in 0..MaxAmount
      /\ c # Null => CouponApplies(c, u, Subtotal(u), now)
      /\ \A s \in Lines(u) : CanReserve(inventory[s], carts[u][s])
      /\ inventory' = [s \in Skus |-> Reserve(inventory[s], carts[u][s])]
      /\ orders' = [orders EXCEPT ![o] =
           NewOrder(u, Request[r].key, c, carts[u], Subtotal(u), discount, now)]
      /\ usages' = IF c = Null THEN usages ELSE [usages EXCEPT ![o] = UsageReserved]
      /\ carts' = [carts EXCEPT ![u] = NoItems]
      /\ now + OrderPaymentTTL <= MaxTime
      /\ UNCHANGED <<clock, products, skus, payments, events>>

LEMMA SaveBuys ==
  ASSUME TypeOK, TxTypes, NEW r \in Requests, View(r), SaveOrder(r), ~UNCHANGED vars
  PROVE  /\ Request[r].user \in Users /\ Request[r].key \in Keys
         /\ \E o \in Orders : Bought(r, o)
<1> DEFINE q == Request[r]
           u == q.user
           c == q.coupon
<1>1. /\ q.op = "checkout" /\ u \in Users /\ q.key \in Keys /\ c \in Coupons \cup {Null}
      /\ pc[r] = "save" /\ tx[r].now \in Stamps /\ tx[r] \in TxRow
  BY Asks DEF SaveOrder, At, InTime, TxTypes
<1>2. OrderWithKey(r) = {}
  BY DEF SaveOrder
<1>3. PICK o \in Orders :
        /\ orders[o].status = NoStatus
        /\ orders' = [orders EXCEPT ![o] =
             NewOrder(u, q.key, c, tx[r].items, tx[r].total, tx[r].discount, tx[r].now)]
        /\ usages' = IF c = Null THEN usages ELSE [usages EXCEPT ![o] = UsageReserved]
        /\ carts' = [carts EXCEPT ![u] = NoItems]
        /\ inventory' = StockAfter(r)
        /\ UNCHANGED <<clock, products, skus, payments, events>>
  BY <1>2 DEF SaveOrder
<1>4. /\ CartIsCurrent(r) /\ PricesAreCurrent(r) /\ TimeIsRead(r) /\ CouponIsCurrent(r)
      /\ StockIsCurrent(r)
  BY DEF View
<1>5. /\ tx[r].items = carts[u] /\ LinesOf(r) # {} /\ ~(Cardinality(LinesOf(r)) > MaxOrderItems)
  BY <1>1, <1>4 DEF CartIsCurrent, HasCart
<1>6. LinesOf(r) = Lines(u)
  BY <1>5 DEF LinesOf, Lines
<1>7. /\ tx[r].priced = Lines(u) /\ IsFiniteSet(Lines(u))
      /\ IsFiniteSet(AmountUnits(Lines(u), carts[u]))
      /\ tx[r].total = AmountOf(Lines(u), carts[u])
      /\ \A s \in Lines(u) : skus[s].status = SKUStatusActive
  BY <1>1, <1>4, <1>5, <1>6 DEF PricesAreCurrent, HasCart, HasPriced
<1>8. Lines(u) # {} /\ Cardinality(Lines(u)) <= MaxOrderItems
  BY <1>5, <1>6, <1>7, LimitsAreNatural, FS_CardinalityType
<1>9. Subtotal(u) = tx[r].total
  BY <1>1, <1>7, SubtotalIsAmount
<1>10. Subtotal(u) \in 0..MaxAmount
  BY <1>1, <1>9 DEF TxRow
<1>11. tx[r].now + OrderPaymentTTL <= MaxTime
  BY <1>1, <1>4 DEF TimeIsRead, HasTime
<1>12. /\ c # Null => CouponApplies(c, u, Subtotal(u), tx[r].now)
       /\ tx[r].discount = IF c = Null THEN 0 ELSE Discount(CouponOf[c], Subtotal(u))
  BY <1>1, <1>4, <1>9 DEF CouponIsCurrent, HasCoupon
<1>13. KeyUnused(u, q.key)
  BY <1>2 DEF KeyUnused, OrderWithKey
<1>14. /\ \A s \in Skus : CanReserve(inventory[s], carts[u][s])
       /\ inventory' = [s \in Skus |-> Reserve(inventory[s], carts[u][s])]
  BY <1>1, <1>3, <1>4, <1>5, StockAtCommit DEF Suffices, Written
<1>15. Bought(r, o)
  BY <1>1, <1>3, <1>5, <1>7, <1>8, <1>9, <1>10, <1>11, <1>12, <1>13, <1>14 DEF Bought, Lines
<1> QED
  BY <1>1, <1>15

LEMMA BoughtIsPurchase ==
  ASSUME NEW r \in Requests, NEW o \in Orders, Bought(r, o)
  PROVE  Purchase(Request[r].user, Request[r].key, Request[r].coupon)
  BY DEF Bought, Purchase

\* The three ways to close an order, as one step.
LEMMA CloseCommits ==
  ASSUME TypeOK, TxTypes, NEW r \in Requests, View(r), CloseOrder(r), ~UNCHANGED vars
  PROVE  LET o == tx[r].order
         IN  \/ Request[r].user \in Users /\ Cancel(Request[r].user, o)
             \/ Expire(o)
             \/ Request[r].event \in Events /\ PaymentSucceeds(Request[r].event, o)
<1> DEFINE now == tx[r].now
<1>1. PICK o \in Orders : tx[r].order = o
  BY DEF View, OrderIsCurrent, CloseLabels, CloseOrder
<1>2. /\ orders' = [orders EXCEPT ![o] = Transition(@, Target(r), now)]
      /\ inventory' = StockAfter(r)
      /\ MoveUsage(o, IF Request[r].op = "pay" THEN UsageConsumed ELSE UsageReleased)
      /\ IF Request[r].op = "pay"
           THEN /\ payments' = [payments EXCEPT ![o] = PaymentSucceeded]
                /\ events' = events \cup
                     {[event |-> Request[r].event, order |-> o,
                       amount |-> Payable(orders[o]), status |-> CallbackSuccess]}
           ELSE UNCHANGED <<payments, events>>
      /\ UNCHANGED <<clock, products, skus, carts>>
  BY <1>1 DEF CloseOrder
<1>3. /\ pc[r] = "close" /\ now \in Stamps
      /\ Request[r].op \in {"cancel", "expire", "pay"}
  BY Asks DEF CloseOrder, InTime, TxTypes, Follows, CloseLabels
<1>4. /\ tx[r].items = orders[o].items /\ Admitted(r, o)
      /\ Request[r].op = "pay" =>
           /\ \A row \in events : row.event # Request[r].event
           /\ orders[o].status = PendingPayment /\ Unexpired(orders[o], now)
  BY <1>1, <1>3 DEF View, OrderIsCurrent, HasOrder, HasEvent
<1>5. /\ StockAfter(r) = [s \in Skus |-> Written(r, s)]
      /\ \A s \in Skus : HasReserved(inventory[s], orders[o].items[s])
  BY <1>3, <1>4, StockAtCommit DEF View, Suffices
<1>6. Request[r].op # "pay" =>
        inventory' = [s \in Skus |-> Release(inventory[s], orders[o].items[s])]
  BY <1>2, <1>3, <1>4, <1>5 DEF Written
<1>7. orders[o].status = PendingPayment =>
        CanTransition(orders[o], Expired) /\ CanTransition(orders[o], Paid)
  BY DEF CanTransition, AllowedOrderTransitions
<1>8. CASE Request[r].op = "cancel"
  <2>1. orders[o].user = Request[r].user /\ CanTransition(orders[o], Cancelled)
    BY <1>4, <1>8, AdmittedCases
  <2>2. Target(r) = Cancelled
    BY <1>8 DEF Target
  <2>3. ReleaseOrder(o, Cancelled, now)
    BY <1>2, <1>5, <1>6, <1>8, <2>1, <2>2 DEF ReleaseOrder
  <2> QED
    BY <1>1, <1>3, <1>8, <2>1, <2>3, Asks DEF Cancel
<1>9. CASE Request[r].op = "expire"
  <2>1. orders[o].status = PendingPayment /\ orders[o].expiresAt <= now
    BY <1>4, <1>9, AdmittedCases
  <2>2. Target(r) = Expired
    BY <1>9 DEF Target
  <2>3. ReleaseOrder(o, Expired, now)
    BY <1>2, <1>5, <1>6, <1>7, <1>9, <2>1, <2>2 DEF ReleaseOrder
  <2> QED
    BY <1>1, <1>3, <2>1, <2>3 DEF Expire
<1>10. CASE Request[r].op = "pay"
  <2>1. payments[o] # NoStatus
    BY <1>4, <1>10, AdmittedCases
  <2>2. Target(r) = Paid
    BY <1>10 DEF Target
  <2>3. inventory' = [s \in Skus |-> Commit(inventory[s], orders[o].items[s])]
    BY <1>2, <1>4, <1>5, <1>10 DEF Written
  <2>4. RecordEvent(Request[r].event, o, CallbackSuccess)
    BY <1>2, <1>4, <1>10, <2>1 DEF RecordEvent
  <2>5. PaymentSucceeds(Request[r].event, o)
    BY <1>2, <1>3, <1>4, <1>5, <1>7, <1>10, <2>2, <2>3, <2>4 DEF PaymentSucceeds
  <2> QED
    BY <1>1, <1>10, <2>5, Asks
<1> QED
  BY <1>3, <1>8, <1>9, <1>10

LEMMA SingleRowIsStep == SingleRowStep => Next
<1> SUFFICES ASSUME SingleRowStep PROVE Next
  OBVIOUS
<1> USE DEF Next, OperatorStep, ShopperStep, PaymentStep
<1>1. CASE \E p \in Products : CreateProduct(p) \/ SaveProduct(p) \/ DeleteProduct(p)
  BY <1>1
<1>2. CASE \E u \in Users : WriteCart(u)
  BY <1>2 DEF WriteCart
<1>3. CASE \E s \in Skus : CreateSKU(s) \/ (Unlocked(SkuRow(s)) /\ UpdateSKU(s))
  BY <1>3
<1>4. CASE \E o \in Orders :
             /\ Unlocked(OrderRow(o))
             /\ \/ \E target \in OrderStatuses : Advance(o, target)
                \/ CreatePayment(o)
                \/ \E e \in Events : /\ Unlocked(EventRow(e))
                                     /\ PaymentFails(e, o) \/ PaymentRepeats(e, o)
  BY <1>4
<1>5. CASE Tick
  BY <1>5
<1> QED
  BY <1>1, <1>2, <1>3, <1>4, <1>5 DEF SingleRowStep

LEMMA StatementCommits ==
  ASSUME TypeOK, TxTypes, NEW r \in Requests, View(r), RequestStep(r) \/ Abort(r)
  PROVE  [Commits]_vars
<1>1. CASE SaveOrder(r) /\ ~UNCHANGED vars
  <2>1. /\ Request[r].user \in Users /\ Request[r].key \in Keys
        /\ \E o \in Orders : Bought(r, o)
    BY <1>1, SaveBuys
  <2>2. Purchase(Request[r].user, Request[r].key, Request[r].coupon)
    BY <2>1, BoughtIsPurchase
  <2> QED
    BY <2>1, <2>2, Asks DEF Commits
<1>2. CASE CloseOrder(r) /\ ~UNCHANGED vars
  <2>1. PICK o \in Orders : tx[r].order = o
    BY <1>2 DEF View, OrderIsCurrent, CloseLabels, CloseOrder
  <2>2. \/ Request[r].user \in Users /\ Cancel(Request[r].user, o)
        \/ Expire(o)
        \/ Request[r].event \in Events /\ PaymentSucceeds(Request[r].event, o)
    BY <1>2, <2>1, CloseCommits
  <2> QED
    BY <2>2 DEF Commits, Next, ShopperStep, PaymentStep
<1>3. CASE ~SaveOrder(r) /\ ~CloseOrder(r)
  BY <1>3
  DEF RequestStep, CheckoutStep, CloseStep, Abort, CheckKey, LockCartOwner, RecheckKey,
      ReadCart, PriceLine, ReadClock, ApplyCoupon, ReserveLine, AnswerCreated, AnswerFailed,
      ChooseOrder, LockOrder, InsertEvent, MoveLine
<1> QED
  BY <1>1, <1>2, <1>3

-----------------------------------------------------------------------------
(* The inductive invariant. *)

TxInv ==
  /\ TypeOK /\ StockInv /\ OrderInv
  /\ TxTypes /\ LocksOK
  /\ \A r \in Requests : View(r) /\ HoldsLocks(r)

LEMMA TxInvInit == TxInit => TxInv
<1> SUFFICES ASSUME TxInit PROVE TxInv
  OBVIOUS
<1>1. TypeOK /\ StockInv /\ OrderInv
  BY InitType, StockInit, OrderInvInit DEF TxInit
<1>2. TxTypes
  <2>1. NoReply \in Replies
    BY DEF NoReply, Replies
  <2> QED
    BY <2>1, NoTxType
    DEF TxInit, TxTypes, Labels, Follows, CheckoutLabels, CloseLabels
<1>3. LocksOK
  BY DEF TxInit, LocksOK, LocksExclude, LocksInside
<1>4. ASSUME NEW r \in Requests
      PROVE  View(r) /\ HoldsLocks(r)
  <2>1. pc[r] = "idle" /\ tx[r] = NoTx
    BY DEF TxInit
  <2> QED
    BY <2>1
    DEF View, HoldsLocks, NothingRead, CartIsCurrent, PricesAreCurrent, TimeIsRead,
        CouponIsCurrent, OrderIsCurrent, StockIsCurrent, HasOwner, HasCart, HasPriced, HasTime,
        HasCoupon, HasOrder, HasEvent, CloseLabels
<1> QED
  BY <1>1, <1>2, <1>3, <1>4 DEF TxInv

LEMMA CommitsKeep ==
  ASSUME TypeOK, StockInv, OrderInv, [Commits]_vars
  PROVE  TypeOK' /\ StockInv' /\ OrderInv'
  BY TypeStep, StockStep, OrderInvStep

LEMMA OwnTypes ==
  ASSUME TxTypes, NEW r \in Requests, OnlyActs(r), Copies(r)
  PROVE  TxTypes'
<1>1. \A t \in Requests \ {r} : pc'[t] = pc[t]
  BY DEF OnlyActs, TxTypes
<1>2. \A t \in Requests : Follows(t)'
  BY <1>1 DEF Copies, Follows, TxTypes
<1> QED
  BY <1>2 DEF OnlyActs, Copies, TxTypes

LEMMA StatementKeeps ==
  ASSUME TxInv, NEW r \in Requests, RequestStep(r) \/ Abort(r)
  PROVE  TxInv'
<1>1. TypeOK /\ StockInv /\ OrderInv /\ TxTypes /\ LocksOK /\ View(r) /\ HoldsLocks(r)
  BY DEF TxInv
<1>2. OnlyActs(r) /\ Copies(r) /\ Locking(r) /\ Own(r)
  BY <1>1, StatementActs, StatementCopies, StatementLocks, StatementOwn
<1>3. TypeOK' /\ StockInv' /\ OrderInv'
  BY <1>1, StatementCommits, CommitsKeep
<1>4. TxTypes' /\ LocksOK'
  BY <1>1, <1>2, OwnTypes, LocksStep
<1>5. ASSUME NEW t \in Requests, t # r
      PROVE  View(t)' /\ HoldsLocks(t)'
  <2>1. View(t) /\ HoldsLocks(t)
    BY DEF TxInv
  <2>2. Undisturbed(t)
    BY <1>1, <1>5, StatementDisturbsNobody DEF LocksOK
  <2>3. Waits(t)
    BY <1>1, <1>2, <1>5 DEF OnlyActs, Waits, TxTypes
  <2> QED
    BY <1>1, <1>3, <2>1, <2>2, <2>3, ViewStays
<1>6. View(r)' /\ HoldsLocks(r)'
  BY <1>2 DEF Own
<1> QED
  BY <1>3, <1>4, <1>5, <1>6 DEF TxInv

LEMMA SingleRowKeeps ==
  ASSUME TxInv, SingleRowStep
  PROVE  TxInv'
<1>1. TypeOK /\ StockInv /\ OrderInv /\ TxTypes /\ LocksOK
  BY DEF TxInv
<1>2. UNCHANGED txVars
  BY DEF SingleRowStep
<1>3. TypeOK' /\ StockInv' /\ OrderInv'
  BY <1>1, SingleRowIsStep, CommitsKeep DEF Commits
<1>4. TxTypes' /\ LocksOK'
  BY <1>1, <1>2
  DEF txVars, TxTypes, Follows, LocksOK, LocksExclude, LocksInside, InTransaction
<1>5. ASSUME NEW t \in Requests
      PROVE  View(t)' /\ HoldsLocks(t)'
  <2>1. View(t) /\ HoldsLocks(t)
    BY DEF TxInv
  <2>2. Waits(t)
    BY <1>2 DEF txVars, Waits, LocksOf
  <2> QED
    BY <1>1, <1>3, <2>1, <2>2, SingleRowDisturbsNobody, ViewStays
<1> QED
  BY <1>3, <1>4, <1>5 DEF TxInv

LEMMA TxInvStep == TxInv /\ [TxNext]_allVars => TxInv'
<1> SUFFICES ASSUME TxInv, [TxNext]_allVars PROVE TxInv'
  OBVIOUS
<1>1. CASE SingleRowStep
  BY <1>1, SingleRowKeeps
<1>2. CASE \E r \in Requests : RequestStep(r) \/ Abort(r)
  BY <1>2, StatementKeeps
<1>3. CASE UNCHANGED allVars
  <2>1. UNCHANGED vars /\ UNCHANGED txVars
    BY <1>3 DEF allVars
  <2>2. TypeOK /\ StockInv /\ OrderInv /\ TxTypes /\ LocksOK
    BY DEF TxInv
  <2>3. TypeOK' /\ StockInv' /\ OrderInv'
    BY <2>1, <2>2, CommitsKeep
  <2>4. TxTypes' /\ LocksOK'
    BY <2>1, <2>2
    DEF txVars, TxTypes, Follows, LocksOK, LocksExclude, LocksInside, InTransaction
  <2>5. ASSUME NEW t \in Requests
        PROVE  View(t)' /\ HoldsLocks(t)'
    <3>1. View(t) /\ HoldsLocks(t)
      BY DEF TxInv
    <3>2. Waits(t)
      BY <2>1 DEF txVars, Waits, LocksOf
    <3> QED
      BY <2>1, <2>2, <2>3, <3>1, <3>2, NothingDisturbed, ViewStays
  <2> QED
    BY <2>3, <2>4, <2>5 DEF TxInv
<1> QED
  BY <1>1, <1>2, <1>3 DEF TxNext

LEMMA TxInvariant == TxSpec => []TxInv
  BY TxInvInit, TxInvStep, PTL DEF TxSpec

\* Who owns an order, which key made it and with which coupon, never changes.
OwnersKept ==
  \A o \in Orders : /\ orders'[o].user = orders[o].user /\ orders'[o].key = orders[o].key
                    /\ orders'[o].coupon = orders[o].coupon
                    /\ orders[o].status # NoStatus => orders'[o].status # NoStatus
                    /\ orders[o].status = NoStatus => orders'[o].status = NoStatus

\* Only the commit of a checkout adds an order.
OrderAdded(r, o) ==
  /\ Request[r].op = "checkout" /\ OrderWithKey(r) = {}
  /\ Placed(o, Request[r].user, Request[r].key, Request[r].coupon, tx[r].now)
  /\ tx'[r].order = o /\ pc'[r] \in {"answer", "failed"} /\ UNCHANGED replies

LEMMA MovedKeepsOwners ==
  ASSUME TypeOK, NEW o \in Orders, NEW target, NEW now, Moved(o, target, now)
  PROVE  OwnersKept
<1>1. orders[o].status # NoStatus /\ target # NoStatus
  <2>1. orders[o] \in Order /\ CanTransition(orders[o], target)
    BY DEF TypeOK, Moved
  <2> QED
    BY <2>1, Moves
<1> QED
  BY <1>1, MovedRow DEF OwnersKept

LEMMA SingleRowKeepsOwners ==
  ASSUME TypeOK, SingleRowStep
  PROVE  OwnersKept
<1>1. UNCHANGED orders \/ \E o \in Orders, target \in OrderStatuses : Advance(o, target)
  BY DEF SingleRowStep, CreateProduct, SaveProduct, DeleteProduct, WriteCart, CartAdd,
         CartUpdate, CartDelete, CartClear, CreateSKU, UpdateSKU, CreatePayment, PaymentFails,
         PaymentRepeats, Tick
<1>2. CASE UNCHANGED orders
  BY <1>2 DEF OwnersKept
<1>3. CASE \E o \in Orders, target \in OrderStatuses : Advance(o, target)
  <2>1. PICK o, target, now : o \in Orders /\ Moved(o, target, now)
    BY <1>3 DEF Advance, Moved
  <2> QED
    BY <2>1, MovedKeepsOwners
<1> QED
  BY <1>1, <1>2, <1>3

LEMMA StatementAdds ==
  ASSUME TypeOK, TxTypes, NEW r \in Requests, View(r), RequestStep(r) \/ Abort(r)
  PROVE  OwnersKept \/ \E o \in Orders : OrderAdded(r, o)
<1>1. CASE UNCHANGED vars
  BY <1>1 DEF OwnersKept, vars
<1>2. CASE SaveOrder(r) /\ ~UNCHANGED vars
  <2>1. PICK o \in Orders, label \in {"answer", "failed"} :
          /\ orders[o].status = NoStatus
          /\ orders' = [orders EXCEPT ![o] =
               NewOrder(Request[r].user, Request[r].key, Request[r].coupon, tx[r].items,
                        tx[r].total, tx[r].discount, tx[r].now)]
          /\ tx' = [tx EXCEPT ![r].order = o]
          /\ pc' = [pc EXCEPT ![r] = label]
    BY <1>2 DEF SaveOrder, Goto
  <2>2. Placed(o, Request[r].user, Request[r].key, Request[r].coupon, tx[r].now)
    BY <2>1 DEF Placed
  <2>3. tx'[r].order = o /\ pc'[r] = label
    BY <2>1 DEF TxTypes, TxRow
  <2> QED
    BY <1>2, <2>2, <2>3 DEF OrderAdded, SaveOrder, At
<1>3. CASE CloseOrder(r) /\ ~UNCHANGED vars
  <2>1. PICK o \in Orders : tx[r].order = o
    BY <1>3 DEF View, OrderIsCurrent, CloseLabels, CloseOrder
  <2>2. \/ Request[r].user \in Users /\ Cancel(Request[r].user, o)
        \/ Expire(o)
        \/ Request[r].event \in Events /\ PaymentSucceeds(Request[r].event, o)
    BY <1>3, <2>1, CloseCommits
  <2>3. PICK target, now : Moved(o, target, now)
    BY <2>2 DEF Cancel, Expire, PaymentSucceeds, ReleaseOrder, Moved
  <2> QED
    BY <2>3, MovedKeepsOwners
<1>4. CASE ~SaveOrder(r) /\ ~CloseOrder(r)
  <2>1. UNCHANGED vars
    BY <1>4
    DEF RequestStep, CheckoutStep, CloseStep, Abort, CheckKey, LockCartOwner, RecheckKey,
        ReadCart, PriceLine, ReadClock, ApplyCoupon, ReserveLine, AnswerCreated, AnswerFailed,
        ChooseOrder, LockOrder, InsertEvent, MoveLine
  <2> QED
    BY <1>1, <2>1
<1> QED
  BY <1>1, <1>2, <1>3, <1>4

-----------------------------------------------------------------------------
(* The answers. *)

IsOrderOf(o, r) ==
  /\ o \in Orders
  /\ orders[o].user = Request[r].user /\ orders[o].key = Request[r].key
  /\ orders[o].coupon = Request[r].coupon

\* No other request uses the key of r.
Alone(r) ==
  \A t \in Requests \ {r} :
    ~(Request[t].op = "checkout" /\ Request[t].user = Request[r].user
                                 /\ Request[t].key = Request[r].key)

\* Whoever is answered is done.  The key of a checkout that nobody else uses
\* has no order before that checkout has saved it.
Answered(r) ==
  /\ replies[r].kind # "none" => pc[r] = "done" /\ Request[r].op = "checkout"
  /\ replies[r].kind = "order" => IsOrderOf(replies[r].order, r)
  /\ pc[r] = "answer" => IsOrderOf(tx[r].order, r)
  /\ /\ Request[r].op = "checkout" /\ Alone(r)
     /\ pc[r] \notin {"answer", "failed", "done"} \/ replies[r].kind = "rejected"
     => OrderWithKey(r) = {}

\* A free row belongs to nobody, and a key to one order.
KeysInv ==
  /\ \A o \in Orders : orders[o].status = NoStatus => orders[o].user = Null
  /\ \A o, p \in Orders :
       orders[o].user \in Users /\ orders[p].user = orders[o].user /\ orders[p].key = orders[o].key
       => o = p

LEMMA KeysStep ==
  ASSUME TypeOK, TxTypes, KeysInv,
         OwnersKept \/ \E r \in Requests : \E o \in Orders : OrderAdded(r, o)
  PROVE  KeysInv'
<1>1. CASE OwnersKept
  BY <1>1 DEF OwnersKept, KeysInv
<1>2. CASE \E r \in Requests : \E o \in Orders : OrderAdded(r, o)
  <2>1. PICK r \in Requests, o \in Orders : OrderAdded(r, o)
    BY <1>2
  <2>2. /\ orders'[o].user = Request[r].user /\ orders'[o].key = Request[r].key
        /\ orders'[o].status = PendingPayment
        /\ \A p \in Orders \ {o} : orders'[p] = orders[p]
    BY <2>1, PlacedRow DEF OrderAdded
  <2>3. \A p \in Orders : ~(orders[p].user = Request[r].user /\ orders[p].key = Request[r].key)
    BY <2>1 DEF OrderAdded, OrderWithKey
  <2>4. \A p \in Orders : orders'[p].status = NoStatus => orders'[p].user = Null
    BY <2>2 DEF KeysInv
  <2>5. ASSUME NEW p \in Orders, NEW x \in Orders, orders'[p].user \in Users,
               orders'[x].user = orders'[p].user, orders'[x].key = orders'[p].key, p # x
        PROVE  FALSE
    <3>1. CASE p # o /\ x # o
      BY <2>2, <2>5, <3>1 DEF KeysInv
    <3>2. CASE p = o \/ x = o
      BY <2>2, <2>3, <2>5, <3>2
    <3> QED
      BY <3>1, <3>2
  <2> QED
    BY <2>4, <2>5 DEF KeysInv
<1> QED
  BY <1>1, <1>2

\* An order that a checkout has been told about stays its order.
LEMMA OrderStaysOf ==
  ASSUME TypeOK, TxTypes, KeysInv, NEW t \in Requests, Request[t].op = "checkout",
         OwnersKept \/ \E r \in Requests : \E o \in Orders : OrderAdded(r, o),
         NEW o, IsOrderOf(o, t)
  PROVE  IsOrderOf(o, t)'
<1>1. orders[o].status # NoStatus
  BY Asks, TablesAreFinite DEF IsOrderOf, KeysInv
<1>2. CASE OwnersKept
  BY <1>2 DEF OwnersKept, IsOrderOf
<1>3. CASE \E r \in Requests : \E p \in Orders : OrderAdded(r, p)
  <2>1. PICK r \in Requests, p \in Orders : OrderAdded(r, p)
    BY <1>3
  <2>2. orders[p].status = NoStatus /\ \A x \in Orders \ {p} : orders'[x] = orders[x]
    BY <2>1, PlacedRow DEF OrderAdded, Placed
  <2> QED
    BY <1>1, <2>2 DEF IsOrderOf
<1> QED
  BY <1>2, <1>3

\* A key that nobody else uses gets no order from somebody else.
LEMMA KeyStaysUnused ==
  ASSUME TypeOK, TxTypes, NEW t \in Requests, Alone(t), OrderWithKey(t) = {},
         OwnersKept \/ \E r \in Requests \ {t} : \E o \in Orders : OrderAdded(r, o)
  PROVE  OrderWithKey(t)' = {}
<1>1. CASE OwnersKept
  BY <1>1 DEF OwnersKept, OrderWithKey
<1>2. CASE \E r \in Requests \ {t} : \E o \in Orders : OrderAdded(r, o)
  <2>1. PICK r \in Requests \ {t}, o \in Orders : OrderAdded(r, o)
    BY <1>2
  <2>2. /\ orders'[o].user = Request[r].user /\ orders'[o].key = Request[r].key
        /\ \A p \in Orders \ {o} : orders'[p] = orders[p]
    BY <2>1, PlacedRow DEF OrderAdded
  <2>3. ~(Request[r].user = Request[t].user /\ Request[r].key = Request[t].key)
    BY <2>1 DEF Alone, OrderAdded
  <2> QED
    BY <2>2, <2>3 DEF OrderWithKey
<1> QED
  BY <1>1, <1>2

\* Somebody else's step leaves r with its answer.
LEMMA AnsweredStays ==
  ASSUME TypeOK, TxTypes, KeysInv, NEW t \in Requests, Answered(t),
         pc'[t] = pc[t], tx'[t] = tx[t], replies'[t] = replies[t],
         OwnersKept \/ \E r \in Requests \ {t} : \E o \in Orders : OrderAdded(r, o)
  PROVE  Answered(t)'
<1>1. replies[t].kind = "order" => IsOrderOf(replies[t].order, t)'
  BY OrderStaysOf DEF Answered, IsOrderOf
<1>2. pc[t] = "answer" => IsOrderOf(tx[t].order, t)'
  BY OrderStaysOf DEF Answered, IsOrderOf, TxTypes, Follows, CheckoutLabels
<1>3. /\ Request[t].op = "checkout" /\ Alone(t)
      /\ pc[t] \notin {"answer", "failed", "done"} \/ replies[t].kind = "rejected"
      => OrderWithKey(t)' = {}
  BY KeyStaysUnused DEF Answered
<1>4. Alone(t)' <=> Alone(t)
  BY DEF Alone
<1> QED
  BY <1>1, <1>2, <1>3, <1>4 DEF Answered

LEMMA AnsweredQuietly ==
  ASSUME TxTypes, NEW r \in Requests, Answered(r), UNCHANGED vars, UNCHANGED replies,
         pc[r] \notin {"answer", "failed", "done"}, pc'[r] # "answer"
  PROVE  Answered(r)'
<1>1. replies[r].kind = "none"
  BY DEF Answered
<1>2. OrderWithKey(r)' = OrderWithKey(r) /\ (Alone(r)' <=> Alone(r))
  BY DEF OrderWithKey, Alone, vars
<1> QED
  BY <1>1, <1>2 DEF Answered

LEMMA ReplayAnswers ==
  ASSUME TxTypes, NEW r \in Requests, UNCHANGED vars, Replay(r), pc'[r] = "done",
         Request[r].op = "checkout"
  PROVE  Answered(r)'
<1>1. PICK o \in OrderWithKey(r) :
        replies' = [replies EXCEPT ![r] =
          IF SameRequest(o, r) THEN Answer("order", o) ELSE Answer("conflict", Null)]
  BY DEF Replay
<1>2. replies'[r] = IF SameRequest(o, r) THEN Answer("order", o) ELSE Answer("conflict", Null)
  BY <1>1 DEF TxTypes
<1>3. CASE SameRequest(o, r)
  <2>1. IsOrderOf(o, r)
    BY <1>3 DEF SameRequest, OrderWithKey, IsOrderOf
  <2>2. replies'[r].kind = "order" /\ replies'[r].order = o
    BY <1>2, <1>3 DEF Answer
  <2> QED
    BY <2>1, <2>2 DEF Answered, IsOrderOf, vars
<1>4. CASE ~SameRequest(o, r)
  <2>1. replies'[r].kind = "conflict"
    BY <1>2, <1>4 DEF Answer
  <2> QED
    BY <2>1 DEF Answered
<1> QED
  BY <1>3, <1>4

LEMMA StatementAnswers ==
  ASSUME TypeOK, TxTypes, KeysInv, NEW r \in Requests, View(r), Answered(r),
         RequestStep(r) \/ Abort(r)
  PROVE  Answered(r)'
<1> USE DEF Goto, At
<1>1. CASE CheckKey(r)
  <2>0. UNCHANGED vars /\ Request[r].op = "checkout" /\ pc[r] = "idle"
    BY <1>1 DEF CheckKey
  <2>1. CASE Replay(r) /\ Goto(r, "done")
    BY <2>0, <2>1, ReplayAnswers DEF TxTypes
  <2>2. CASE UNCHANGED replies /\ Goto(r, "owner")
    BY <2>0, <2>2, AnsweredQuietly DEF TxTypes
  <2>3. CASE replies' = [replies EXCEPT ![r] = Answer("unknown", Null)] /\ Goto(r, "done")
    <3>1. replies'[r].kind = "unknown" /\ pc'[r] = "done"
      BY <2>3 DEF Answer, TxTypes
    <3> QED
      BY <2>0, <3>1 DEF Answered
  <2> QED
    BY <1>1, <2>1, <2>2, <2>3 DEF CheckKey
<1>2. CASE RecheckKey(r)
  BY <1>2, ReplayAnswers, AnsweredQuietly DEF RecheckKey, TxTypes
<1>3. CASE \/ LockCartOwner(r) \/ ReadCart(r) \/ PriceLine(r) \/ ReadClock(r) \/ ApplyCoupon(r)
           \/ ReserveLine(r) \/ ChooseOrder(r) \/ LockOrder(r) \/ InsertEvent(r) \/ MoveLine(r)
  <2>1. UNCHANGED vars /\ UNCHANGED replies /\ pc[r] \notin {"answer", "failed", "done"}
    BY <1>3
    DEF LockCartOwner, ReadCart, PriceLine, ReadClock, ApplyCoupon, ReserveLine, ChooseOrder,
        LockOrder, InsertEvent, MoveLine
  <2>2. pc'[r] # "answer"
    BY <1>3
    DEF LockCartOwner, ReadCart, PriceLine, ReadClock, ApplyCoupon, ReserveLine, ChooseOrder,
        LockOrder, InsertEvent, MoveLine, Rollback, TxTypes
  <2> QED
    BY <2>1, <2>2, AnsweredQuietly
<1>4. CASE SaveOrder(r)
  <2>1. CASE UNCHANGED vars
    <3>1. pc'[r] = "refused" /\ UNCHANGED replies
      <4>1. OrderWithKey(r) # {}
        <5> SUFFICES ASSUME OrderWithKey(r) = {} PROVE FALSE
          OBVIOUS
        <5>1. PICK o \in Orders :
                orders[o].status = NoStatus
                /\ orders' = [orders EXCEPT ![o] =
                     NewOrder(Request[r].user, Request[r].key, Request[r].coupon, tx[r].items,
                              tx[r].total, tx[r].discount, tx[r].now)]
          BY <1>4 DEF SaveOrder
        <5>2. orders'[o].status = PendingPayment
          BY <5>1 DEF TypeOK, NewOrder
        <5> QED
          BY <2>1, <5>1, <5>2 DEF vars
      <4> QED
        BY <1>4, <4>1 DEF SaveOrder, Rollback, TxTypes
    <3> QED
      BY <1>4, <2>1, <3>1, AnsweredQuietly DEF SaveOrder
  <2>2. CASE ~UNCHANGED vars
    <3>1. PICK o \in Orders, label \in {"answer", "failed"} :
            /\ orders[o].status = NoStatus
            /\ orders' = [orders EXCEPT ![o] =
                 NewOrder(Request[r].user, Request[r].key, Request[r].coupon, tx[r].items,
                          tx[r].total, tx[r].discount, tx[r].now)]
            /\ tx' = [tx EXCEPT ![r].order = o]
            /\ pc' = [pc EXCEPT ![r] = label]
      BY <1>4, <2>2 DEF SaveOrder
    <3>2. tx'[r].order = o /\ pc'[r] = label /\ replies'[r] = replies[r]
      BY <1>4, <3>1 DEF SaveOrder, TxTypes, TxRow
    <3>3. IsOrderOf(o, r)'
      BY <3>1 DEF IsOrderOf, NewOrder, TypeOK
    <3>4. replies[r].kind = "none"
      BY <1>4 DEF SaveOrder, Answered
    <3> QED
      BY <3>2, <3>3, <3>4 DEF Answered, IsOrderOf
  <2> QED
    BY <2>1, <2>2
<1>5. CASE AnswerCreated(r)
  <2>1. IsOrderOf(tx[r].order, r) /\ UNCHANGED vars /\ Request[r].op = "checkout" /\ pc'[r] = "done"
    BY <1>5 DEF AnswerCreated, Answered, TxTypes
  <2>2. replies'[r] = Answer("order", tx[r].order) \/ replies'[r] = Answer("unknown", Null)
    BY <1>5 DEF AnswerCreated, TxTypes
  <2> QED
    BY <2>1, <2>2 DEF Answered, IsOrderOf, Answer, vars
<1>6. CASE AnswerFailed(r)
  <2>1. UNCHANGED vars /\ Request[r].op = "checkout" /\ pc'[r] = "done"
    BY <1>6 DEF AnswerFailed, TxTypes, Follows, CheckoutLabels
  <2>2. CASE Replay(r)
    BY <2>1, <2>2, ReplayAnswers
  <2>3. CASE replies' = [replies EXCEPT ![r] = Answer(Verdict(pc[r]), Null)]
    <3>1. replies'[r].kind = Verdict(pc[r])
      BY <2>3 DEF TxTypes, Answer
    <3>2. replies'[r].kind = "unknown" \/ (replies'[r].kind = "rejected" /\ pc[r] = "refused")
      BY <3>1 DEF Verdict
    <3>3. pc[r] = "refused" /\ Request[r].op = "checkout" /\ Alone(r) => OrderWithKey(r) = {}
      BY DEF Answered
    <3>4. OrderWithKey(r)' = OrderWithKey(r) /\ (Alone(r)' <=> Alone(r))
      BY <2>1 DEF OrderWithKey, Alone, vars
    <3> QED
      BY <2>1, <3>2, <3>3, <3>4 DEF Answered
  <2> QED
    BY <1>6, <2>2, <2>3 DEF AnswerFailed
<1>7. CASE CloseOrder(r)
  <2>1. Request[r].op # "checkout" /\ pc'[r] = "done" /\ replies'[r] = replies[r]
    BY <1>7 DEF CloseOrder, Rollback, TxTypes, Follows, CloseLabels
  <2>2. replies[r].kind = "none"
    BY <1>7 DEF CloseOrder, Answered
  <2> QED
    BY <2>1, <2>2 DEF Answered
<1>8. CASE Abort(r)
  <2>1. pc'[r] \in {"failed", "done"} /\ UNCHANGED vars /\ UNCHANGED replies
    BY <1>8 DEF Abort, Rollback, AfterRollback, TxTypes
  <2> QED
    BY <1>8, <2>1, AnsweredQuietly DEF Abort, InTransaction
<1> QED
  BY <1>1, <1>2, <1>3, <1>4, <1>5, <1>6, <1>7, <1>8 DEF RequestStep, CheckoutStep, CloseStep

AnswersInv == KeysInv /\ \A r \in Requests : Answered(r)

LEMMA AnswersInvInit == TxInit => AnswersInv
<1> SUFFICES ASSUME TxInit PROVE AnswersInv
  OBVIOUS
<1>1. \A o \in Orders : orders[o].user = Null
  BY DEF TxInit, Init, NoOrder
<1>2. ASSUME NEW r \in Requests
      PROVE  Answered(r)
  <2>1. pc[r] = "idle" /\ replies[r].kind = "none"
    BY DEF TxInit, NoReply
  <2>2. Request[r].op = "checkout" => OrderWithKey(r) = {}
    BY <1>1, Asks, TablesAreFinite DEF OrderWithKey
  <2> QED
    BY <2>1, <2>2 DEF Answered
<1> QED
  BY <1>1, <1>2, TablesAreFinite DEF AnswersInv, KeysInv

LEMMA AnswersInvStep == TxInv /\ AnswersInv /\ [TxNext]_allVars => AnswersInv'
<1> SUFFICES ASSUME TxInv, AnswersInv, [TxNext]_allVars PROVE AnswersInv'
  OBVIOUS
<1>1. TypeOK /\ TxTypes /\ KeysInv
  BY DEF TxInv, AnswersInv
<1>2. CASE SingleRowStep \/ UNCHANGED allVars
  <2>1. OwnersKept /\ UNCHANGED txVars
    BY <1>1, <1>2, SingleRowKeepsOwners DEF SingleRowStep, allVars, vars, OwnersKept
  <2>2. \A t \in Requests : Answered(t)'
    BY <1>1, <2>1, AnsweredStays DEF AnswersInv, txVars
  <2> QED
    BY <1>1, <2>1, <2>2, KeysStep DEF AnswersInv
<1>3. CASE \E r \in Requests : RequestStep(r) \/ Abort(r)
  <2>1. PICK r \in Requests : RequestStep(r) \/ Abort(r)
    BY <1>3
  <2>2. View(r) /\ Answered(r)
    BY DEF TxInv, AnswersInv
  <2>3. OwnersKept \/ \E o \in Orders : OrderAdded(r, o)
    BY <1>1, <2>1, <2>2, StatementAdds
  <2>4. KeysInv'
    BY <1>1, <2>3, KeysStep
  <2>5. Answered(r)'
    BY <1>1, <2>1, <2>2, StatementAnswers
  <2>6. ASSUME NEW t \in Requests, t # r
        PROVE  Answered(t)'
    <3>1. pc'[t] = pc[t] /\ tx'[t] = tx[t] /\ replies'[t] = replies[t]
      BY <1>1, <2>1, <2>6, StatementActs DEF OnlyActs, TxTypes
    <3>2. Answered(t)
      BY DEF AnswersInv
    <3> QED
      BY <1>1, <2>3, <2>6, <3>1, <3>2, AnsweredStays
  <2> QED
    BY <2>4, <2>5, <2>6 DEF AnswersInv
<1> QED
  BY <1>2, <1>3 DEF TxNext

LEMMA AnswersInvariant == TxSpec => []AnswersInv
  BY TxInvariant, AnswersInvInit, AnswersInvStep, PTL DEF TxSpec

\* Every step of the transactions is a step of Commerce, with one liberty: a checkout
\* buys what was on sale when it looked, even if the product has been delisted since.
THEOREM CommitsAreAtomic == TxSpec => [][Commits]_vars
<1>1. TxInv /\ [TxNext]_allVars => [Commits]_vars
  <2> SUFFICES ASSUME TxInv, [TxNext]_allVars PROVE [Commits]_vars
    OBVIOUS
  <2>1. CASE SingleRowStep
    BY <2>1, SingleRowIsStep DEF Commits
  <2>2. CASE \E r \in Requests : RequestStep(r) \/ Abort(r)
    BY <2>2, StatementCommits DEF TxInv
  <2>3. CASE UNCHANGED allVars
    BY <2>3 DEF allVars
  <2> QED
    BY <2>1, <2>2, <2>3 DEF TxNext
<1> QED
  BY <1>1, TxInvariant, PTL DEF TxSpec

\* What the tables promise each other holds between any two statements of the
\* transactions, and not only between the atomic operations of Commerce.
TablesAgree ==
  /\ ReservedIsHeld /\ StockConserved /\ CouponFollowsOrder /\ CouponLimits
  /\ PaymentFollowsOrder /\ CallbacksHonoured /\ HistoryIsLegal

THEOREM TablesAlwaysAgree == TxSpec => []TablesAgree
<1>1. TxInv => TablesAgree
  BY DEF TxInv, StockInv, OrderInv, TablesAgree
<1> QED
  BY <1>1, TxInvariant, PTL

\* OrderService.Create: whoever is answered with an order gets the one order of this
\* key, and gets what was asked for, whatever retries and other requests are under way.
THEOREM AnswersAreUnique == TxSpec => []AnswersAgree
<1>1. TypeOK /\ AnswersInv => AnswersAgree
  <2> SUFFICES ASSUME TypeOK, AnswersInv, NEW r \in Requests, replies[r].kind = "order"
               PROVE  /\ IsOrderOf(replies[r].order, r)
                      /\ \A t \in Requests :
                           /\ replies[t].kind = "order"
                           /\ Request[t].user = Request[r].user /\ Request[t].key = Request[r].key
                           => replies[t].order = replies[r].order
    BY DEF AnswersAgree, IsOrderOf
  <2>1. \A t \in Requests : replies[t].kind = "order" =>
          IsOrderOf(replies[t].order, t) /\ Request[t].user \in Users
    BY Asks DEF AnswersInv, Answered
  <2>2. ASSUME NEW t \in Requests, replies[t].kind = "order",
               Request[t].user = Request[r].user, Request[t].key = Request[r].key
        PROVE  replies[t].order = replies[r].order
    BY <2>1, <2>2 DEF IsOrderOf, AnswersInv, KeysInv
  <2> QED
    BY <2>1, <2>2
<1>2. TxInv => TypeOK
  BY DEF TxInv
<1> QED
  BY <1>1, <1>2, TxInvariant, AnswersInvariant, PTL

\* OrderService.Create: a refusal is final, so that a shopper who tries again with a new
\* key cannot buy twice; only an internal error leaves the outcome open.
THEOREM RefusalsAreFinal == TxSpec => []RejectedMeansNoOrder
<1>1. AnswersInv => RejectedMeansNoOrder
  BY DEF AnswersInv, Answered, Alone, RejectedMeansNoOrder
<1> QED
  BY <1>1, AnswersInvariant, PTL

-----------------------------------------------------------------------------
(* The refinement: under ProductsAsSeen, every step is one of Commerce. *)

\* A product that a checkout has seen exists, and only checkouts look at products.
SeenInv ==
  /\ \A p \in Products : products[p] \in ProductInputs \cup {NoStatus, StatusDeleted}
  /\ \A r \in Requests : pc[r] \in CloseLabels => tx[r].priced = {}
  /\ \A r \in Requests : \A s \in tx[r].priced : products[ProductOf[s]] # NoStatus

\* Products are never removed.
ProductsKept ==
  \A p \in Products :
    /\ products'[p] = products[p] \/ products'[p] \in ProductInputs \cup {StatusDeleted}
    /\ products[p] # NoStatus => products'[p] # NoStatus

LEMMA InputsExist == \A status \in ProductInputs \cup {StatusDeleted} : status # NoStatus
  BY CatalogueIsWellFormed DEF StatusOnSale, StatusDraft, StatusSoldOut, StatusDeleted

LEMMA SingleRowKeepsProducts ==
  ASSUME TypeOK, SingleRowStep
  PROVE  ProductsKept
<1>1. CASE \E p \in Products : CreateProduct(p) \/ SaveProduct(p) \/ DeleteProduct(p)
  BY <1>1, InputsExist DEF ProductsKept, CreateProduct, SaveProduct, DeleteProduct, TypeOK
<1>2. CASE products' = products
  BY <1>2 DEF ProductsKept
<1>3. CASE ~\E p \in Products : CreateProduct(p) \/ SaveProduct(p) \/ DeleteProduct(p)
  BY <1>2, <1>3
  DEF SingleRowStep, WriteCart, CartAdd, CartUpdate, CartDelete, CartClear, CreateSKU, UpdateSKU,
      Advance, CreatePayment, PaymentFails, PaymentRepeats, Tick
<1> QED
  BY <1>1, <1>3

\* No statement of a request writes a product.
LEMMA StatementKeepsProducts ==
  ASSUME NEW r \in Requests, RequestStep(r) \/ Abort(r)
  PROVE  products' = products
<1>1. SaveOrder(r) => products' = products
  BY DEF SaveOrder, vars
<1>2. CloseOrder(r) => products' = products
  BY DEF CloseOrder, vars
<1> QED
  BY <1>1, <1>2
  DEF RequestStep, CheckoutStep, CloseStep, Abort, CheckKey, LockCartOwner, RecheckKey,
      ReadCart, PriceLine, ReadClock, ApplyCoupon, ReserveLine, AnswerCreated, AnswerFailed,
      ChooseOrder, LockOrder, InsertEvent, MoveLine, vars

\* A statement looks at one more product on sale, or at no other, or forgets them all.
Looks(r) ==
  \/ tx'[r].priced = tx[r].priced
  \/ tx'[r].priced = {}
  \/ \E s \in Skus : /\ products[ProductOf[s]] = StatusOnSale
                     /\ tx'[r].priced = tx[r].priced \cup {s} /\ Request[r].op = "checkout"
                     /\ pc'[r] \in {"price", "clock"}

LEMMA StatementLooks ==
  ASSUME TxTypes, NEW r \in Requests, View(r), SeenInv, RequestStep(r) \/ Abort(r)
  PROVE  /\ Looks(r)
         /\ pc'[r] \in CloseLabels => tx'[r].priced = {}
<1> USE DEF Goto, At, Looks
<1>0. /\ tx[r] \in TxRow /\ NoTx.priced = {} /\ (pc[r] = "idle" => tx[r] = NoTx)
      /\ pc[r] \in CloseLabels => tx[r].priced = {}
  BY DEF TxTypes, NoTx, View, NothingRead, SeenInv
<1>1. CASE \E label \in {"refused", "failed", "done"} : Rollback(r, label)
  BY <1>0, <1>1 DEF Rollback, TxTypes, CloseLabels
<1>2. CASE CheckKey(r) \/ LockCartOwner(r) \/ RecheckKey(r)
  BY <1>2 DEF CheckKey, LockCartOwner, RecheckKey, TxTypes, CloseLabels
<1>3. CASE ReadCart(r) /\ ~Rollback(r, "refused")
  <2>1. /\ tx' = [tx EXCEPT ![r].items = carts[Request[r].user]]
        /\ pc'[r] = "price"
    BY <1>3 DEF ReadCart, TxTypes
  <2> QED
    BY <1>0, <2>1 DEF TxTypes, TxRow, CloseLabels
<1>4. CASE PriceLine(r) /\ ~Rollback(r, "refused")
  <2>1. PICK s \in Skus :
          /\ products[ProductOf[s]] = StatusOnSale
          /\ tx' = [tx EXCEPT ![r].priced = @ \cup {s},
                              ![r].total = @ + skus[s].price * tx[r].items[s]]
          /\ pc' = [pc EXCEPT ![r] = IF Unpriced(r) = {s} THEN "clock" ELSE "price"]
    BY <1>4 DEF PriceLine, Saleable
  <2>2. tx'[r].priced = tx[r].priced \cup {s} /\ pc'[r] \in {"price", "clock"}
    BY <1>0, <2>1 DEF TxTypes, TxRow
  <2> QED
    BY <1>4, <2>1, <2>2 DEF PriceLine, CloseLabels
<1>5. CASE ReadClock(r) /\ ~Rollback(r, "refused")
  BY <1>0, <1>5 DEF ReadClock, TxTypes, TxRow, CloseLabels
<1>6. CASE ApplyCoupon(r) /\ ~Rollback(r, "refused")
  BY <1>0, <1>6 DEF ApplyCoupon, TxTypes, TxRow, CloseLabels
<1>7. CASE ReserveLine(r) /\ ~Rollback(r, "refused")
  BY <1>0, <1>7 DEF ReserveLine, TxTypes, TxRow, CloseLabels
<1>8. CASE SaveOrder(r) /\ ~Rollback(r, "refused")
  BY <1>0, <1>8 DEF SaveOrder, TxTypes, TxRow, CloseLabels
<1>9. CASE AnswerCreated(r) \/ AnswerFailed(r)
  BY <1>0, <1>9 DEF AnswerCreated, AnswerFailed, TxTypes, CloseLabels
<1>10. CASE ChooseOrder(r)
  BY <1>0, <1>10 DEF ChooseOrder, TxTypes, TxRow
<1>11. CASE LockOrder(r) /\ ~Rollback(r, "done")
  BY <1>0, <1>11 DEF LockOrder, TxTypes, TxRow, CloseLabels
<1>12. CASE InsertEvent(r) /\ ~Rollback(r, "done")
  BY <1>0, <1>12 DEF InsertEvent, TxTypes, CloseLabels
<1>13. CASE MoveLine(r) /\ ~Rollback(r, "done")
  BY <1>0, <1>13 DEF MoveLine, TxTypes, TxRow, CloseLabels
<1>14. CASE CloseOrder(r) /\ ~Rollback(r, "done")
  BY <1>0, <1>14 DEF CloseOrder, TxTypes, CloseLabels
<1>15. Abort(r) => \E label \in {"refused", "failed", "done"} : Rollback(r, label)
  BY DEF Abort, AfterRollback
<1> QED
  BY <1>1, <1>2, <1>3, <1>4, <1>5, <1>6, <1>7, <1>8, <1>9, <1>10, <1>11, <1>12, <1>13, <1>14, <1>15
  DEF RequestStep, CheckoutStep, CloseStep

LEMMA SeenInvInit == TxInit => SeenInv
  BY DEF TxInit, Init, SeenInv, NoTx, CloseLabels

LEMMA SeenInvStep == TxInv /\ SeenInv /\ [TxNext]_allVars => SeenInv'
<1> SUFFICES ASSUME TxInv, SeenInv, [TxNext]_allVars PROVE SeenInv'
  OBVIOUS
<1>1. TypeOK /\ TxTypes
  BY DEF TxInv
<1>2. \A r \in Requests : \A s \in tx[r].priced : s \in Skus /\ ProductOf[s] \in Products
  BY <1>1, CatalogueIsWellFormed DEF TxTypes, TxRow
<1>3. CASE SingleRowStep
  <2>1. ProductsKept /\ UNCHANGED txVars
    BY <1>1, <1>3, SingleRowKeepsProducts DEF SingleRowStep
  <2> QED
    BY <1>2, <2>1 DEF SeenInv, ProductsKept, txVars
<1>4. CASE \E r \in Requests : RequestStep(r) \/ Abort(r)
  <2>1. PICK r \in Requests : RequestStep(r) \/ Abort(r)
    BY <1>4
  <2>2. /\ products' = products /\ OnlyActs(r) /\ Looks(r)
        /\ pc'[r] \in CloseLabels => tx'[r].priced = {}
    BY <1>1, <2>1, StatementKeepsProducts, StatementActs, StatementLooks DEF TxInv
  <2>3. \A t \in Requests \ {r} : pc'[t] = pc[t] /\ tx'[t] = tx[t]
    BY <1>1, <2>2 DEF OnlyActs, TxTypes
  <2>4. \A s \in tx'[r].priced : products'[ProductOf[s]] # NoStatus
    BY <2>2 DEF Looks, SeenInv, StatusOnSale
  <2> QED
    BY <2>2, <2>3, <2>4 DEF SeenInv
<1>5. CASE UNCHANGED allVars
  BY <1>5 DEF SeenInv, allVars, vars, txVars
<1> QED
  BY <1>3, <1>4, <1>5 DEF TxNext

LEMMA SeenInvariant == TxSpec => []SeenInv
  BY TxInvariant, SeenInvInit, SeenInvStep, PTL DEF TxSpec

-----------------------------------------------------------------------------
(* The operations of Commerce over ProductsAsSeen: only the tests of Saleable, *)
(* the product writes and the creation of a SKU look at the products.          *)

USE DEF Promise!NoStatus, Promise!PendingPayment, Promise!Paid, Promise!Processing,
        Promise!Completed, Promise!Cancelled, Promise!Expired, Promise!UsageReserved,
        Promise!UsageConsumed, Promise!UsageReleased, Promise!PaymentPending,
        Promise!PaymentSucceeded, Promise!PaymentFailed, Promise!CallbackSuccess,
        Promise!CallbackFailure, Promise!SKUStatusActive, Promise!SKUStatusInactive,
        Promise!StatusOnSale, Promise!StatusDeleted, Promise!OrderStatuses,
        Promise!AllowedOrderTransitions, Promise!CanTransition, Promise!Transition,
        Promise!WasPaid, Promise!Stamps, Promise!Lines, Promise!NoItems, Promise!MoveUsage

LEMMA SeenStays ==
  ASSUME products' = products, \A t \in Requests : tx'[t].priced = tx[t].priced
  PROVE  ProductsAsSeen' = ProductsAsSeen
<1>1. \A p : SeenOnSale(p)' <=> SeenOnSale(p)
  BY DEF SeenOnSale
<1> QED
  BY <1>1 DEF ProductsAsSeen

\* A product as seen is on sale, or as it is written.
LEMMA AsSeen ==
  ASSUME NEW p \in Products
  PROVE  ProductsAsSeen[p] = IF SeenOnSale(p) THEN StatusOnSale ELSE products[p]
  BY DEF ProductsAsSeen

LEMMA SaleableAsSeen ==
  ASSUME NEW s \in Skus, Saleable(s)
  PROVE  Promise!Saleable(s)
<1>1. ProductsAsSeen[ProductOf[s]] = StatusOnSale
  BY AsSeen, CatalogueIsWellFormed DEF Saleable
<1> QED
  BY <1>1 DEF Saleable, Promise!Saleable, StatusOnSale

LEMMA ProductWriteAsSeen ==
  ASSUME TypeOK, SeenInv, NEW p \in Products, UNCHANGED txVars,
         CreateProduct(p) \/ SaveProduct(p) \/ DeleteProduct(p)
  PROVE  UNCHANGED Promise!vars
           \/ Promise!CreateProduct(p) \/ Promise!SaveProduct(p) \/ Promise!DeleteProduct(p)
<1>1. PICK status :
        /\ products' = [products EXCEPT ![p] = status]
        /\ \/ products[p] = NoStatus /\ status \in ProductInputs
           \/ products[p] \notin {NoStatus, StatusDeleted} /\ status \in ProductInputs \cup {StatusDeleted}
        /\ UNCHANGED <<clock, skus, inventory, carts, orders, usages, payments, events>>
  BY DEF CreateProduct, SaveProduct, DeleteProduct
<1>2. \A q : SeenOnSale(q)' <=> SeenOnSale(q)
  BY DEF SeenOnSale, txVars
<1>3. CASE SeenOnSale(p)
  <2>1. ProductsAsSeen' = ProductsAsSeen
    BY <1>1, <1>2, <1>3 DEF ProductsAsSeen, TypeOK
  <2> QED
    BY <1>1, <2>1 DEF Promise!vars
<1>4. CASE ~SeenOnSale(p)
  <2>1. ProductsAsSeen[p] = products[p]
    BY <1>4, AsSeen
  <2>2. ProductsAsSeen' = [ProductsAsSeen EXCEPT ![p] = status]
    BY <1>1, <1>2, <1>4 DEF ProductsAsSeen, TypeOK
  <2> QED
    BY <1>1, <2>1, <2>2
    DEF Promise!CreateProduct, Promise!SaveProduct, Promise!DeleteProduct, StatusDeleted
<1> QED
  BY <1>3, <1>4

LEMMA CartWriteAsSeen ==
  ASSUME NEW u \in Users, UNCHANGED txVars, WriteCart(u)
  PROVE  \/ \E s \in Skus : \/ Promise!CartAdd(u, s) \/ Promise!CartUpdate(u, s)
                            \/ Promise!CartDelete(u, s)
         \/ Promise!CartClear(u)
<1>1. products' = products
  BY DEF WriteCart, CartAdd, CartUpdate, CartDelete, CartClear
<1>2. ProductsAsSeen' = ProductsAsSeen
  BY <1>1, SeenStays DEF txVars
<1>3. CASE CartClear(u)
  BY <1>2, <1>3 DEF CartClear, Promise!CartClear, NoItems
<1>4. CASE \E s \in Skus : CartAdd(u, s) \/ CartUpdate(u, s) \/ CartDelete(u, s)
  <2>1. PICK s \in Skus : CartAdd(u, s) \/ CartUpdate(u, s) \/ CartDelete(u, s)
    BY <1>4
  <2>2. Saleable(s) => Promise!Saleable(s)
    BY SaleableAsSeen
  <2>3. CartAdd(u, s) => Promise!CartAdd(u, s)
    BY <1>2, <2>2 DEF CartAdd, Promise!CartAdd
  <2>4. CartUpdate(u, s) => Promise!CartUpdate(u, s)
    BY <1>2, <2>2 DEF CartUpdate, Promise!CartUpdate, Lines
  <2>5. CartDelete(u, s) => Promise!CartDelete(u, s)
    BY <1>2 DEF CartDelete, Promise!CartDelete, Lines
  <2> QED
    BY <2>1, <2>3, <2>4, <2>5
<1> QED
  BY <1>3, <1>4 DEF WriteCart

LEMMA SKUWriteAsSeen ==
  ASSUME SeenInv, NEW s \in Skus, UNCHANGED txVars, CreateSKU(s) \/ UpdateSKU(s)
  PROVE  Promise!CreateSKU(s) \/ Promise!UpdateSKU(s)
<1>1. ProductsAsSeen' = ProductsAsSeen
  BY SeenStays DEF txVars, CreateSKU, UpdateSKU
<1>2. products[ProductOf[s]] # NoStatus => ProductsAsSeen[ProductOf[s]] # NoStatus
  BY AsSeen, CatalogueIsWellFormed DEF StatusOnSale
<1>3. CreateSKU(s) => Promise!CreateSKU(s)
  BY <1>1, <1>2 DEF CreateSKU, Promise!CreateSKU
<1>4. UpdateSKU(s) => Promise!UpdateSKU(s)
  BY <1>1 DEF UpdateSKU, Promise!UpdateSKU
<1> QED
  BY <1>3, <1>4

LEMMA OrderWriteAsSeen ==
  ASSUME NEW o \in Orders, ProductsAsSeen' = ProductsAsSeen
  PROVE  /\ \A target : Advance(o, target) => Promise!Advance(o, target)
         /\ CreatePayment(o) => Promise!CreatePayment(o)
         /\ \A e : /\ PaymentFails(e, o) => Promise!PaymentFails(e, o)
                   /\ PaymentRepeats(e, o) => Promise!PaymentRepeats(e, o)
                   /\ PaymentSucceeds(e, o) => Promise!PaymentSucceeds(e, o)
         /\ \A u : Cancel(u, o) => Promise!Cancel(u, o)
         /\ Expire(o) => Promise!Expire(o)
<1> USE DEF Stamps, CanTransition, AllowedOrderTransitions, Transition
<1>1. ASSUME NEW target, Advance(o, target)
      PROVE  Promise!Advance(o, target)
  BY <1>1 DEF Advance, Promise!Advance
<1>2. CreatePayment(o) => Promise!CreatePayment(o)
  BY DEF CreatePayment, Promise!CreatePayment, Unexpired, Promise!Unexpired
<1>3. ASSUME NEW e
      PROVE  /\ PaymentFails(e, o) => Promise!PaymentFails(e, o)
             /\ PaymentRepeats(e, o) => Promise!PaymentRepeats(e, o)
  BY DEF PaymentFails, Promise!PaymentFails, PaymentRepeats, Promise!PaymentRepeats,
         RecordEvent, Promise!RecordEvent, Payable, Promise!Payable, WasPaid
<1>4. ASSUME NEW e, PaymentSucceeds(e, o)
      PROVE  Promise!PaymentSucceeds(e, o)
  BY <1>4
  DEF PaymentSucceeds, Promise!PaymentSucceeds, RecordEvent, Promise!RecordEvent, Payable,
      Promise!Payable, Unexpired, Promise!Unexpired, HasReserved, Promise!HasReserved,
      Commit, Promise!Commit, MoveUsage
<1>5. ASSUME NEW target, NEW now, ReleaseOrder(o, target, now)
      PROVE  Promise!ReleaseOrder(o, target, now)
  BY <1>5
  DEF ReleaseOrder, Promise!ReleaseOrder, HasReserved, Promise!HasReserved, Release,
      Promise!Release, MoveUsage
<1>6. ASSUME NEW u, Cancel(u, o)
      PROVE  Promise!Cancel(u, o)
  BY <1>5, <1>6 DEF Cancel, Promise!Cancel
<1>7. Expire(o) => Promise!Expire(o)
  BY <1>5 DEF Expire, Promise!Expire
<1> QED
  BY <1>1, <1>2, <1>3, <1>4, <1>6, <1>7

LEMMA CouponAsSeen ==
  ASSUME NEW c, NEW u, NEW amount, NEW now, CouponApplies(c, u, amount, now)
  PROVE  Promise!CouponApplies(c, u, amount, now)
<1>1. \A S : Promise!Cardinality(S) = Cardinality(S)
  BY DEF Promise!Cardinality, Cardinality
<1>2. Promise!ActiveUsages(c) = ActiveUsages(c) /\ Promise!ActiveUsagesOf(c, u) = ActiveUsagesOf(c, u)
  BY DEF ActiveUsages, Promise!ActiveUsages, ActiveUsagesOf, Promise!ActiveUsagesOf
<1>3. Promise!CouponWellFormed(CouponOf[c])
  <2>1. CouponWellFormed(CouponOf[c])
    BY DEF CouponApplies
  <2>2. ASSUME NEW coupon
        PROVE  Promise!CouponWellFormed(coupon) = CouponWellFormed(coupon)
    BY DEF CouponWellFormed, Promise!CouponWellFormed, FixedDiscount, Promise!FixedDiscount,
           ThresholdDiscount, Promise!ThresholdDiscount, Percentage, Promise!Percentage,
           BasisPoints, Promise!BasisPoints
  <2> QED
    BY <2>1, <2>2
<1>4. Promise!BelowLimits(CouponOf[c], Promise!Cardinality(Promise!ActiveUsages(c)),
                          Promise!Cardinality(Promise!ActiveUsagesOf(c, u)))
  BY <1>1, <1>2 DEF CouponApplies, BelowLimits, Promise!BelowLimits
<1> QED
  BY <1>3, <1>4
  DEF CouponApplies, Promise!CouponApplies, CouponActive, Promise!CouponActive,
      CouponBelongsTo, Promise!CouponBelongsTo, MinimumReached, Promise!MinimumReached

LEMMA SameSubtotal ==
  ASSUME NEW u
  PROVE  Promise!Subtotal(u) = Subtotal(u)
  BY DEF Subtotal, Promise!Subtotal, Lines, MapThenSumSet, Promise!MapThenSumSet,
         MapThenFoldSet, Promise!MapThenFoldSet

LEMMA SameDiscount ==
  ASSUME NEW coupon, NEW amount
  PROVE  Promise!Discount(coupon, amount) = Discount(coupon, amount)
  BY DEF Discount, Promise!Discount, PercentageDiscount, Promise!PercentageDiscount,
         Percentage, Promise!Percentage, BasisPoints, Promise!BasisPoints

LEMMA SameSize ==
  ASSUME NEW S
  PROVE  Promise!Cardinality(S) = Cardinality(S)
  BY DEF Promise!Cardinality, Cardinality

LEMMA CheckoutAsSeen ==
  ASSUME NEW r \in Requests, NEW o \in Orders, Bought(r, o), ProductsAsSeen' = ProductsAsSeen
  PROVE  Promise!Checkout(Request[r].user, Request[r].key, Request[r].coupon)
<1> DEFINE u == Request[r].user
           k == Request[r].key
           c == Request[r].coupon
           now == tx[r].now
           discount == IF c = Null THEN 0 ELSE Discount(CouponOf[c], Subtotal(u))
<1>1. /\ now \in Stamps /\ orders[o].status = NoStatus
      /\ KeyUnused(u, k)
      /\ Lines(u) # {} /\ Cardinality(Lines(u)) <= MaxOrderItems
      /\ Lines(u) = tx[r].priced
      /\ \A s \in Lines(u) : skus[s].status = SKUStatusActive
      /\ Subtotal(u) \in 0..MaxAmount
      /\ c # Null => CouponApplies(c, u, Subtotal(u), now)
      /\ \A s \in Lines(u) : CanReserve(inventory[s], carts[u][s])
      /\ inventory' = [s \in Skus |-> Reserve(inventory[s], carts[u][s])]
      /\ orders' = [orders EXCEPT ![o] = NewOrder(u, k, c, carts[u], Subtotal(u), discount, now)]
      /\ usages' = IF c = Null THEN usages ELSE [usages EXCEPT ![o] = UsageReserved]
      /\ carts' = [carts EXCEPT ![u] = NoItems]
      /\ now + OrderPaymentTTL <= MaxTime
      /\ UNCHANGED <<clock, products, skus, payments, events>>
  BY DEF Bought
<1>2. Promise!Lines(u) = Lines(u) /\ Promise!Stamps = Stamps
  BY DEF Lines, Stamps
<1>3. \A s \in Lines(u) : Promise!Saleable(s)
  <2>1. ASSUME NEW s \in Lines(u)
        PROVE  ProductsAsSeen[ProductOf[s]] = StatusOnSale
    <3>1. SeenOnSale(ProductOf[s]) /\ ProductOf[s] \in Products
      BY <1>1, CatalogueIsWellFormed DEF SeenOnSale, Lines
    <3> QED
      BY <3>1, AsSeen
  <2> QED
    BY <1>1, <2>1 DEF Promise!Saleable, StatusOnSale
<1>4. /\ Promise!Subtotal(u) = Subtotal(u)
      /\ (IF c = Null THEN 0 ELSE Promise!Discount(CouponOf[c], Promise!Subtotal(u))) = discount
      /\ Promise!Cardinality(Lines(u)) = Cardinality(Lines(u))
  BY SameSubtotal, SameDiscount, SameSize
<1>5. Promise!KeyUnused(u, k)
  BY <1>1 DEF KeyUnused, Promise!KeyUnused
<1>6. c # Null => Promise!CouponApplies(c, u, Promise!Subtotal(u), now)
  BY <1>1, <1>4, CouponAsSeen
<1>7. /\ \A s \in Lines(u) : Promise!CanReserve(inventory[s], carts[u][s])
      /\ inventory' = [s \in Skus |-> Promise!Reserve(inventory[s], carts[u][s])]
  BY <1>1 DEF CanReserve, Promise!CanReserve, Reserve, Promise!Reserve
<1>8. orders' = [orders EXCEPT ![o] =
        Promise!NewOrder(u, k, c, carts[u], Promise!Subtotal(u), discount, now)]
  BY <1>1, <1>4 DEF NewOrder, Promise!NewOrder
<1>9. carts' = [carts EXCEPT ![u] = Promise!NoItems]
  BY <1>1 DEF NoItems
<1> HIDE DEF u, k, c, now, discount
<1>10. \E p \in Orders, t \in Promise!Stamps :
         LET subtotal == Promise!Subtotal(u)
             amount == IF c = Null THEN 0 ELSE Promise!Discount(CouponOf[c], subtotal)
         IN  /\ orders[p].status = Promise!NoStatus
             /\ Promise!KeyUnused(u, k)
             /\ Promise!Lines(u) # {} /\ Promise!Cardinality(Promise!Lines(u)) <= MaxOrderItems
             /\ \A s \in Promise!Lines(u) : Promise!Saleable(s)
             /\ subtotal \in 0..MaxAmount
             /\ c # Null => Promise!CouponApplies(c, u, subtotal, t)
             /\ \A s \in Promise!Lines(u) : Promise!CanReserve(inventory[s], carts[u][s])
             /\ inventory' = [s \in Skus |-> Promise!Reserve(inventory[s], carts[u][s])]
             /\ orders' = [orders EXCEPT ![p] =
                  Promise!NewOrder(u, k, c, carts[u], subtotal, amount, t)]
             /\ usages' = IF c = Null THEN usages
                          ELSE [usages EXCEPT ![p] = Promise!UsageReserved]
             /\ carts' = [carts EXCEPT ![u] = Promise!NoItems]
             /\ t + OrderPaymentTTL <= MaxTime
             /\ UNCHANGED <<clock, ProductsAsSeen, skus, payments, events>>
  BY <1>1, <1>2, <1>3, <1>4, <1>5, <1>6, <1>7, <1>8, <1>9
<1> QED
  BY <1>10 DEF Promise!Checkout, u, k, c

LEMMA SingleRowAsSeen ==
  ASSUME TypeOK, SeenInv, SingleRowStep
  PROVE  Promise!Next \/ UNCHANGED Promise!vars
<1>0. UNCHANGED txVars
  BY DEF SingleRowStep
<1>1. CASE \E p \in Products : CreateProduct(p) \/ SaveProduct(p) \/ DeleteProduct(p)
  BY <1>0, <1>1, ProductWriteAsSeen DEF Promise!Next, Promise!OperatorStep
<1>2. CASE \E u \in Users : WriteCart(u)
  <2>1. PICK u \in Users : WriteCart(u)
    BY <1>2
  <2>2. \/ \E s \in Skus : \/ Promise!CartAdd(u, s) \/ Promise!CartUpdate(u, s)
                           \/ Promise!CartDelete(u, s)
        \/ Promise!CartClear(u)
    BY <1>0, <2>1, CartWriteAsSeen
  <2> QED
    BY <2>2 DEF Promise!Next, Promise!ShopperStep
<1>3. CASE \E s \in Skus : CreateSKU(s) \/ (Unlocked(SkuRow(s)) /\ UpdateSKU(s))
  BY <1>0, <1>3, SKUWriteAsSeen DEF Promise!Next, Promise!OperatorStep
<1>4. CASE \E o \in Orders :
             \/ \E target \in OrderStatuses : Advance(o, target)
             \/ CreatePayment(o)
             \/ \E e \in Events : PaymentFails(e, o) \/ PaymentRepeats(e, o)
  <2>1. products' = products
    BY <1>4 DEF Advance, CreatePayment, PaymentFails, PaymentRepeats
  <2>2. ProductsAsSeen' = ProductsAsSeen
    BY <1>0, <2>1, SeenStays DEF txVars
  <2>3. \A target : target \in OrderStatuses => target \in Promise!OrderStatuses
    BY DEF OrderStatuses
  <2>4. PICK o \in Orders :
          \/ \E target \in OrderStatuses : Advance(o, target)
          \/ CreatePayment(o)
          \/ \E e \in Events : PaymentFails(e, o) \/ PaymentRepeats(e, o)
    BY <1>4
  <2>5. \/ \E target \in OrderStatuses : Promise!Advance(o, target)
        \/ Promise!CreatePayment(o)
        \/ \E e \in Events : Promise!PaymentFails(e, o) \/ Promise!PaymentRepeats(e, o)
    BY <2>2, <2>4, OrderWriteAsSeen
  <2> QED
    BY <2>3, <2>5 DEF Promise!Next, Promise!OperatorStep, Promise!PaymentStep
<1>5. CASE Tick
  <2>1. products' = products
    BY <1>5 DEF Tick
  <2>2. ProductsAsSeen' = ProductsAsSeen
    BY <1>0, <2>1, SeenStays DEF txVars
  <2> QED
    BY <1>5, <2>2 DEF Tick, Promise!Tick, Promise!Next
<1> QED
  BY <1>1, <1>2, <1>3, <1>4, <1>5 DEF SingleRowStep

\* A statement that writes no table shows at most what was written meanwhile.
LEMMA StatementSettles ==
  ASSUME TypeOK, SeenInv, NEW r \in Requests, OnlyActs(r), Looks(r), TxTypes, UNCHANGED vars
  PROVE  ProductsSettle
<1>1. \A t \in Requests \ {r} : tx'[t] = tx[t]
  BY DEF OnlyActs, TxTypes
<1>2. products' = products
  BY DEF vars
<1>3. ASSUME NEW p \in Products
      PROVE  ProductsAsSeen'[p] = ProductsAsSeen[p]
               \/ (ProductsAsSeen[p] \notin {NoStatus, StatusDeleted}
                     /\ ProductsAsSeen'[p] \in ProductInputs \cup {StatusDeleted})
  <2>1. /\ ProductsAsSeen[p] = IF SeenOnSale(p) THEN StatusOnSale ELSE products[p]
        /\ ProductsAsSeen'[p] = IF SeenOnSale(p)' THEN StatusOnSale ELSE products[p]
    BY <1>2 DEF ProductsAsSeen
  <2>2. CASE SeenOnSale(p)' <=> SeenOnSale(p)
    BY <2>1, <2>2
  <2>3. CASE SeenOnSale(p) /\ ~SeenOnSale(p)'
    <3>1. products[p] # NoStatus
      BY <2>3 DEF SeenOnSale, SeenInv
    <3>2. products[p] \in ProductInputs \cup {StatusDeleted}
      BY <3>1 DEF SeenInv
    <3> QED
      BY <2>1, <2>3, <3>2 DEF StatusOnSale, StatusDeleted
  <2>4. CASE SeenOnSale(p)' /\ ~SeenOnSale(p)
    <3>1. PICK s \in tx'[r].priced : ProductOf[s] = p /\ s \notin tx[r].priced
      BY <1>1, <2>4 DEF SeenOnSale
    <3>2. products[p] = StatusOnSale
      BY <3>1 DEF Looks
    <3> QED
      BY <2>1, <2>4, <3>2
  <2> QED
    BY <2>2, <2>3, <2>4
<1> QED
  BY <1>3 DEF ProductsSettle, vars

LEMMA StatementAsSeen ==
  ASSUME TypeOK, TxTypes, SeenInv, NEW r \in Requests, View(r), RequestStep(r) \/ Abort(r)
  PROVE  Promise!Next \/ ProductsSettle
<1>0. OnlyActs(r) /\ Looks(r)
  BY StatementActs, StatementLooks
<1>1. CASE UNCHANGED vars
  BY <1>0, <1>1, StatementSettles
<1>2. CASE SaveOrder(r) /\ ~UNCHANGED vars
  <2>1. /\ Request[r].user \in Users /\ Request[r].key \in Keys
        /\ \E o \in Orders : Bought(r, o)
    BY <1>2, SaveBuys
  <2>2. PICK o \in Orders : Bought(r, o)
    BY <2>1
  <2>3. products' = products
    BY <2>2 DEF Bought
  <2>4. \E p \in Orders : tx' = [tx EXCEPT ![r].order = p]
    BY <1>2 DEF SaveOrder
  <2>5. \A t \in Requests : tx'[t].priced = tx[t].priced
    BY <2>4 DEF TxTypes, TxRow
  <2>6. ProductsAsSeen' = ProductsAsSeen
    BY <2>3, <2>5, SeenStays
  <2>7. Promise!Checkout(Request[r].user, Request[r].key, Request[r].coupon)
    BY <2>2, <2>6, CheckoutAsSeen
  <2> QED
    BY <2>1, <2>7, Asks DEF Promise!Next, Promise!ShopperStep
<1>3. CASE CloseOrder(r) /\ ~UNCHANGED vars
  <2>1. PICK o \in Orders : tx[r].order = o
    BY <1>3 DEF View, OrderIsCurrent, CloseLabels, CloseOrder
  <2>2. \/ Request[r].user \in Users /\ Cancel(Request[r].user, o)
        \/ Expire(o)
        \/ Request[r].event \in Events /\ PaymentSucceeds(Request[r].event, o)
    BY <1>3, <2>1, CloseCommits
  <2>3. products' = products
    BY <1>3, StatementKeepsProducts
  <2>4. tx' = [tx EXCEPT ![r] = NoTx] /\ tx[r].priced = {} /\ NoTx.priced = {}
    BY <1>3 DEF CloseOrder, SeenInv, CloseLabels, NoTx
  <2>5. \A t \in Requests : tx'[t].priced = tx[t].priced
    BY <2>4 DEF TxTypes
  <2>6. ProductsAsSeen' = ProductsAsSeen
    BY <2>3, <2>5, SeenStays
  <2>7. \/ Request[r].user \in Users /\ Promise!Cancel(Request[r].user, o)
        \/ Promise!Expire(o)
        \/ Request[r].event \in Events /\ Promise!PaymentSucceeds(Request[r].event, o)
    BY <2>2, <2>6, OrderWriteAsSeen
  <2> QED
    BY <2>7 DEF Promise!Next, Promise!ShopperStep, Promise!PaymentStep
<1>4. CASE ~SaveOrder(r) /\ ~CloseOrder(r)
  <2>1. UNCHANGED vars
    BY <1>4
    DEF RequestStep, CheckoutStep, CloseStep, Abort, CheckKey, LockCartOwner, RecheckKey,
        ReadCart, PriceLine, ReadClock, ApplyCoupon, ReserveLine, AnswerCreated, AnswerFailed,
        ChooseOrder, LockOrder, InsertEvent, MoveLine
  <2> QED
    BY <1>1, <2>1
<1> QED
  BY <1>1, <1>2, <1>3, <1>4

LEMMA NothingSeenAtFirst == TxInit => Promise!Init
<1> SUFFICES ASSUME TxInit PROVE Promise!Init
  OBVIOUS
<1>1. \A p : ~SeenOnSale(p)
  BY DEF SeenOnSale, TxInit, NoTx
<1>2. ProductsAsSeen = products
  BY <1>1 DEF ProductsAsSeen, TxInit, Init
<1> QED
  BY <1>2 DEF TxInit, Init, Promise!Init, NoOrder, Promise!NoOrder, NoItems

\* Checkout, cart writes, cancellation, expiry and payment, interleaved statement by
\* statement under their row locks, look like the atomic operations of Commerce.
THEOREM PromiseIsKept == TxSpec => KeepsPromise
<1>1. TxInv /\ SeenInv /\ [TxNext]_allVars => [Promise!Next \/ ProductsSettle]_(Promise!vars)
  <2> SUFFICES ASSUME TxInv, SeenInv, [TxNext]_allVars
               PROVE  [Promise!Next \/ ProductsSettle]_(Promise!vars)
    OBVIOUS
  <2>0. TypeOK /\ TxTypes
    BY DEF TxInv
  <2>1. CASE SingleRowStep
    BY <2>0, <2>1, SingleRowAsSeen
  <2>2. CASE \E r \in Requests : RequestStep(r) \/ Abort(r)
    BY <2>0, <2>2, StatementAsSeen DEF TxInv
  <2>3. CASE UNCHANGED allVars
    <3>1. ProductsAsSeen' = ProductsAsSeen
      BY <2>3, SeenStays DEF allVars, vars, txVars
    <3> QED
      BY <2>3, <3>1 DEF allVars, vars, Promise!vars
  <2> QED
    BY <2>1, <2>2, <2>3 DEF TxNext
<1> QED
  BY <1>1, NothingSeenAtFirst, TxInvariant, SeenInvariant, PTL DEF TxSpec, KeepsPromise

-----------------------------------------------------------------------------
(* Who waits for whom. *)

\* Why r holds the lock h.
Taken(r, h) ==
  \/ pc[r] \in HasOwner /\ h.row = UserRow(Request[r].user)
  \/ h.mode = Share /\ \E s \in Skus : h.row = SkuRow(s)
  \/ pc[r] \in HasCoupon /\ h.row = CouponRowOf(Request[r].coupon)
  \/ pc[r] \in HasOrder /\ h.row = OrderRow(tx[r].order)
  \/ pc[r] \in HasEvent /\ h.row = EventRow(Request[r].event)
  \/ /\ pc[r] \in HasCoupon \cup HasEvent
     /\ \E s \in LinesOf(r) : h.row = StockRow(s) /\ tx[r].stock[s] # Null

\* A checkout or an expiry has the stock rows of its lowest lines.
InSkuOrder(r) ==
  /\ pc[r] \in {"reserve", "stock"}
  /\ pc[r] = "stock" => Request[r].op = "expire"
  => \A s \in LinesOf(r), z \in Unstocked(r) : tx[r].stock[s] # Null => SkuRank[s] < SkuRank[z]

Disciplined(r) == (\A h \in LocksOf(r) : Taken(r, h)) /\ InSkuOrder(r)

\* The transaction goes on with what it has.
GoesOn(r) ==
  /\ pc[r] \in HasOwner => pc'[r] \in HasOwner
  /\ pc[r] \in HasCoupon => pc'[r] \in HasCoupon
  /\ pc[r] \in HasOrder => pc'[r] \in HasOrder /\ tx'[r].order = tx[r].order
  /\ pc[r] \in HasEvent => pc'[r] \in HasEvent
  /\ pc[r] \in HasCoupon \cup HasEvent =>
       /\ tx'[r].items = tx[r].items
       /\ \A s \in Skus : tx[r].stock[s] # Null => tx'[r].stock[s] # Null

LEMMA TakenStays ==
  ASSUME NEW r, NEW h, Taken(r, h), GoesOn(r)
  PROVE  Taken(r, h)'
<1>1. pc[r] \in HasCoupon \cup HasEvent =>
        /\ pc'[r] \in HasCoupon \cup HasEvent
        /\ \A s \in LinesOf(r) : tx[r].stock[s] # Null => s \in LinesOf(r)' /\ tx'[r].stock[s] # Null
  BY DEF GoesOn, LinesOf
<1> QED
  BY <1>1 DEF Taken, GoesOn

\* One more lock.
LEMMA LocksGrow ==
  ASSUME NEW r, NEW row, NEW mode, Lock(r, row, mode)
  PROVE  LocksOf(r)' = LocksOf(r) \cup {[by |-> r, row |-> row, mode |-> mode]}
<1>1. holds' = holds \cup {[by |-> r, row |-> row, mode |-> mode]}
  BY DEF Lock
<1>2. [by |-> r, row |-> row, mode |-> mode].by = r
  OBVIOUS
<1> QED
  BY <1>1, <1>2 DEF LocksOf

LEMMA TakesOneMore ==
  ASSUME NEW r, NEW row, NEW mode, Lock(r, row, mode), GoesOn(r),
         \A h \in LocksOf(r) : Taken(r, h),
         \A h : h.row = row /\ h.mode = mode => Taken(r, h)'
  PROVE  \A h \in LocksOf(r)' : Taken(r, h)'
<1> DEFINE new == [by |-> r, row |-> row, mode |-> mode]
<1>1. new.row = row /\ new.mode = mode
  OBVIOUS
<1>2. LocksOf(r)' = LocksOf(r) \cup {new}
  BY LocksGrow
<1> HIDE DEF new
<1> QED
  BY <1>1, <1>2, TakenStays

\* One more stock row, the lowest that is missing.
LEMMA OrderKept ==
  ASSUME TypeOK, TxTypes, NEW r \in Requests, View(r), InSkuOrder(r),
         pc[r] \in {"reserve", "stock"}, NEW s \in Unstocked(r), Suffices(r, s),
         (pc[r] = "stock" /\ Request[r].op # "expire") \/ Lowest(Unstocked(r), s),
         tx' = [tx EXCEPT ![r].stock[s] = Written(r, s)],
         pc'[r] \in {"reserve", "stock"} => pc'[r] = pc[r]
  PROVE  InSkuOrder(r)' /\ tx'[r].stock[s] # Null /\ s \in LinesOf(r)'
           /\ tx'[r].items = tx[r].items /\ tx'[r].order = tx[r].order
           /\ \A z \in Skus : tx[r].stock[z] # Null => tx'[r].stock[z] # Null
<1>1. tx[r] \in TxRow /\ s \in Skus /\ s \in LinesOf(r) /\ tx[r].stock[s] = Null
  BY DEF TxTypes, Unstocked, LinesOf
<1>2. /\ tx'[r].items = tx[r].items /\ tx'[r].order = tx[r].order
      /\ tx'[r].stock = [tx[r].stock EXCEPT ![s] = Written(r, s)]
  BY <1>1 DEF TxTypes, TxRow
<1>3. /\ tx'[r].stock[s] = Written(r, s)
      /\ \A z \in Skus \ {s} : tx'[r].stock[z] = tx[r].stock[z]
  BY <1>1, <1>2 DEF TxRow
<1>4. Written(r, s) # Null
  BY <1>1, WrittenType, RequestsAreWellFormed DEF StockRows
<1>5. LinesOf(r)' = LinesOf(r) /\ Unstocked(r)' = Unstocked(r) \ {s}
  BY <1>1, <1>2, <1>3, <1>4 DEF Unstocked, LinesOf
<1>6. InSkuOrder(r)'
  <2> SUFFICES ASSUME pc'[r] \in {"reserve", "stock"}, pc'[r] = "stock" => Request[r].op = "expire",
                      NEW x \in LinesOf(r), NEW z \in Unstocked(r) \ {s}, tx'[r].stock[x] # Null
               PROVE  SkuRank[x] < SkuRank[z]
    BY <1>5 DEF InSkuOrder
  <2>1. pc'[r] = pc[r] /\ x \in Skus /\ z \in Skus /\ z # s
    BY DEF LinesOf, Unstocked
  <2>2. CASE x = s
    <3>1. SkuRank[s] <= SkuRank[z]
      BY <2>1 DEF Lowest
    <3>2. SkuRank[s] # SkuRank[z] /\ SkuRank[s] \in Nat /\ SkuRank[z] \in Nat
      BY <1>1, <2>1, RequestsAreWellFormed
    <3> QED
      BY <2>2, <3>1, <3>2
  <2>3. CASE x # s
    BY <1>3, <2>1, <2>3 DEF InSkuOrder
  <2> QED
    BY <2>2, <2>3
<1> QED
  BY <1>1, <1>2, <1>3, <1>4, <1>5, <1>6

LEMMA RollbackDisciplined ==
  ASSUME TxTypes, NEW r \in Requests, NEW label \in {"refused", "failed", "done"},
         Rollback(r, label)
  PROVE  Disciplined(r)'
<1>1. LocksOf(r)' = {} /\ pc'[r] = label
  BY ReleaseStep DEF Rollback, Goto, TxTypes
<1> QED
  BY <1>1 DEF Disciplined, InSkuOrder

LEMMA NewStockInOrder ==
  ASSUME NEW r, tx'[r].stock = NoStock
  PROVE  InSkuOrder(r)'
  BY DEF InSkuOrder, LinesOf, NoStock

LEMMA PriceDisciplined ==
  ASSUME TxTypes, NEW r \in Requests, View(r), Disciplined(r), PriceLine(r)
  PROVE  Disciplined(r)'
<1>1. CASE Rollback(r, "refused")
  BY <1>1, RollbackDisciplined
<1>2. CASE ~Rollback(r, "refused")
  <2>1. PICK s \in Skus :
          /\ Lock(r, SkuRow(s), Share)
          /\ pc' = [pc EXCEPT ![r] = IF Unpriced(r) = {s} THEN "clock" ELSE "price"]
    BY <1>2 DEF PriceLine, Goto
  <2>2. pc[r] = "price" /\ pc'[r] \in {"price", "clock"}
    BY <2>1 DEF PriceLine, At, TxTypes
  <2>3. GoesOn(r)
    BY <2>2 DEF GoesOn, HasOwner, HasCoupon, HasOrder, HasEvent
  <2>4. \A h : h.row = SkuRow(s) /\ h.mode = Share => Taken(r, h)'
    BY DEF Taken
  <2>5. \A h \in LocksOf(r)' : Taken(r, h)'
    BY <2>1, <2>3, <2>4, TakesOneMore DEF Disciplined
  <2> QED
    BY <2>2, <2>5 DEF Disciplined, InSkuOrder
<1> QED
  BY <1>1, <1>2

LEMMA CouponDisciplined ==
  ASSUME TxTypes, NEW r \in Requests, View(r), Disciplined(r), ApplyCoupon(r)
  PROVE  Disciplined(r)'
<1>1. CASE Rollback(r, "refused")
  BY <1>1, RollbackDisciplined
<1>2. CASE ~Rollback(r, "refused")
  <2>1. /\ Lock(r, CouponRowOf(Request[r].coupon), Exclusive)
        /\ \E d : tx' = [tx EXCEPT ![r].discount = d]
        /\ pc[r] = "coupon" /\ pc'[r] = "reserve"
    BY <1>2 DEF ApplyCoupon, Goto, At, TxTypes
  <2>2. tx'[r].stock = tx[r].stock /\ tx[r].stock = NoStock
    BY <2>1 DEF TxTypes, TxRow, View, StockIsCurrent
  <2>3. GoesOn(r)
    BY <2>1 DEF GoesOn, HasOwner, HasCoupon, HasOrder, HasEvent
  <2>4. \A h : h.row = CouponRowOf(Request[r].coupon) => Taken(r, h)'
    BY <2>1 DEF Taken, HasCoupon
  <2>5. \A h \in LocksOf(r)' : Taken(r, h)'
    BY <2>1, <2>3, <2>4, TakesOneMore DEF Disciplined
  <2> QED
    BY <2>2, <2>5, NewStockInOrder DEF Disciplined
<1> QED
  BY <1>1, <1>2

LEMMA StockDisciplined ==
  ASSUME TypeOK, TxTypes, NEW r \in Requests, View(r), Disciplined(r),
         pc[r] \in {"reserve", "stock"}, NEW s \in Unstocked(r), Suffices(r, s),
         (pc[r] = "stock" /\ Request[r].op # "expire") \/ Lowest(Unstocked(r), s),
         Lock(r, StockRow(s), Exclusive), tx' = [tx EXCEPT ![r].stock[s] = Written(r, s)],
         pc'[r] = IF Unstocked(r) = {s} THEN IF pc[r] = "reserve" THEN "save" ELSE "close"
                  ELSE pc[r]
  PROVE  Disciplined(r)'
<1>1. /\ pc[r] = "reserve" => pc'[r] \in {"reserve", "save"}
      /\ pc[r] = "stock" => pc'[r] \in {"stock", "close"}
      /\ pc'[r] \in {"reserve", "stock"} => pc'[r] = pc[r]
  OBVIOUS
<1>2. InSkuOrder(r)' /\ tx'[r].stock[s] # Null /\ s \in LinesOf(r)'
        /\ tx'[r].items = tx[r].items /\ tx'[r].order = tx[r].order
        /\ \A z \in Skus : tx[r].stock[z] # Null => tx'[r].stock[z] # Null
  BY <1>1, OrderKept DEF Disciplined
<1>3. GoesOn(r)
  BY <1>1, <1>2 DEF GoesOn, HasOwner, HasCoupon, HasOrder, HasEvent
<1>4. \A h : h.row = StockRow(s) => Taken(r, h)'
  BY <1>1, <1>2 DEF Taken, HasCoupon, HasEvent
<1>5. \A h \in LocksOf(r)' : Taken(r, h)'
  BY <1>3, <1>4, TakesOneMore DEF Disciplined
<1> QED
  BY <1>2, <1>5 DEF Disciplined

LEMMA ReserveDisciplined ==
  ASSUME TypeOK, TxTypes, NEW r \in Requests, View(r), Disciplined(r), ReserveLine(r)
  PROVE  Disciplined(r)'
<1>1. CASE Rollback(r, "refused")
  BY <1>1, RollbackDisciplined
<1>2. CASE ~Rollback(r, "refused")
  <2>1. PICK s \in Skus :
          /\ Lowest(Unstocked(r), s)
          /\ CanReserve(inventory[s], tx[r].items[s])
          /\ Lock(r, StockRow(s), Exclusive)
          /\ tx' = [tx EXCEPT ![r].stock[s] = Reserve(inventory[s], tx[r].items[s])]
          /\ pc' = [pc EXCEPT ![r] = IF Unstocked(r) = {s} THEN "save" ELSE "reserve"]
    BY <1>2 DEF ReserveLine, Goto
  <2>2. Request[r].op = "checkout" /\ pc[r] = "reserve" /\ s \in Unstocked(r)
    BY <2>1 DEF ReserveLine, At, Lowest
  <2>3. Suffices(r, s) /\ Written(r, s) = Reserve(inventory[s], tx[r].items[s])
    BY <2>1, <2>2 DEF Suffices, Written
  <2>4. pc'[r] = IF Unstocked(r) = {s} THEN "save" ELSE "reserve"
    BY <2>1 DEF TxTypes
  <2> QED
    BY <2>1, <2>2, <2>3, <2>4, StockDisciplined
<1> QED
  BY <1>1, <1>2

LEMMA MoveDisciplined ==
  ASSUME TypeOK, TxTypes, NEW r \in Requests, View(r), Disciplined(r), MoveLine(r)
  PROVE  Disciplined(r)'
<1>1. CASE Rollback(r, "done")
  BY <1>1, RollbackDisciplined
<1>2. CASE ~Rollback(r, "done")
  <2>1. PICK s \in Skus :
          /\ NextLine(r, s)
          /\ HasReserved(inventory[s], tx[r].items[s])
          /\ Lock(r, StockRow(s), Exclusive)
          /\ tx' = [tx EXCEPT ![r].stock[s] =
               IF Request[r].op = "pay" THEN Commit(inventory[s], tx[r].items[s])
                                        ELSE Release(inventory[s], tx[r].items[s])]
          /\ pc' = [pc EXCEPT ![r] = IF Unstocked(r) = {s} THEN "close" ELSE "stock"]
    BY <1>2 DEF MoveLine, Goto
  <2>2. /\ Request[r].op # "checkout" /\ pc[r] = "stock" /\ s \in Unstocked(r)
        /\ Request[r].op # "expire" \/ Lowest(Unstocked(r), s)
    BY <2>1 DEF MoveLine, TxTypes, Follows, CloseLabels, NextLine, Lowest
  <2>3. Suffices(r, s)
    BY <2>1, <2>2 DEF Suffices
  <2>4. tx' = [tx EXCEPT ![r].stock[s] = Written(r, s)]
    BY <2>1, <2>2 DEF Written
  <2>5. pc'[r] = IF Unstocked(r) = {s} THEN "close" ELSE "stock"
    BY <2>1 DEF TxTypes
  <2> QED
    BY <2>1, <2>2, <2>3, <2>4, <2>5, StockDisciplined
<1> QED
  BY <1>1, <1>2

LEMMA LockOrderDisciplined ==
  ASSUME TxTypes, NEW r \in Requests, View(r), Disciplined(r), LockOrder(r)
  PROVE  Disciplined(r)'
<1>1. CASE Rollback(r, "done")
  BY <1>1, RollbackDisciplined
<1>2. CASE ~Rollback(r, "done")
  <2> DEFINE o == tx[r].order
  <2>1. /\ Lock(r, OrderRow(o), Exclusive)
        /\ \E now : tx' = [tx EXCEPT ![r].items = orders[o].items,
                                     ![r].version = orders[o].version, ![r].now = now]
        /\ pc[r] = "lock" /\ pc'[r] \in {"event", "stock"}
    BY <1>2 DEF LockOrder, Goto, TxTypes
  <2>2. tx'[r].order = o /\ tx'[r].stock = NoStock
    BY <2>1 DEF TxTypes, TxRow, View, StockIsCurrent
  <2>3. GoesOn(r)
    BY <2>1 DEF GoesOn, HasOwner, HasCoupon, HasOrder, HasEvent
  <2>4. \A h : h.row = OrderRow(o) => Taken(r, h)'
    BY <2>1, <2>2 DEF Taken, HasOrder
  <2>5. \A h \in LocksOf(r)' : Taken(r, h)'
    BY <2>1, <2>3, <2>4, TakesOneMore DEF Disciplined
  <2> QED
    BY <2>2, <2>5, NewStockInOrder DEF Disciplined
<1> QED
  BY <1>1, <1>2

LEMMA EventDisciplined ==
  ASSUME TxTypes, NEW r \in Requests, View(r), Disciplined(r), InsertEvent(r)
  PROVE  Disciplined(r)'
<1>1. CASE Rollback(r, "done")
  BY <1>1, RollbackDisciplined
<1>2. CASE ~Rollback(r, "done")
  <2>1. /\ Lock(r, EventRow(Request[r].event), Exclusive)
        /\ pc[r] = "event" /\ pc'[r] = "stock" /\ tx' = tx
    BY <1>2 DEF InsertEvent, Goto, At, TxTypes
  <2>2. tx'[r].stock = NoStock
    BY <2>1 DEF View, StockIsCurrent
  <2>3. GoesOn(r)
    BY <2>1 DEF GoesOn, HasOwner, HasCoupon, HasOrder, HasEvent
  <2>4. \A h : h.row = EventRow(Request[r].event) => Taken(r, h)'
    BY <2>1 DEF Taken, HasEvent
  <2>5. \A h \in LocksOf(r)' : Taken(r, h)'
    BY <2>1, <2>3, <2>4, TakesOneMore DEF Disciplined
  <2> QED
    BY <2>2, <2>5, NewStockInOrder DEF Disciplined
<1> QED
  BY <1>1, <1>2

\* A transaction that takes no lock and reads no stock.
LEMMA QuietlyDisciplined ==
  ASSUME NEW r, Disciplined(r), GoesOn(r), holds' = holds,
         pc'[r] \in {"reserve", "stock"} => tx'[r].stock = NoStock
  PROVE  Disciplined(r)'
<1>1. LocksOf(r)' = LocksOf(r)
  BY DEF LocksOf
<1>2. \A h \in LocksOf(r)' : Taken(r, h)'
  BY <1>1, TakenStays DEF Disciplined
<1>3. InSkuOrder(r)'
  <2>1. CASE pc'[r] \in {"reserve", "stock"}
    BY <2>1, NewStockInOrder
  <2>2. CASE pc'[r] \notin {"reserve", "stock"}
    BY <2>2 DEF InSkuOrder
  <2> QED
    BY <2>1, <2>2
<1> QED
  BY <1>2, <1>3 DEF Disciplined

LEMMA StatementDisciplined ==
  ASSUME TypeOK, TxTypes, LocksOK, NEW r \in Requests, View(r), Disciplined(r),
         RequestStep(r) \/ Abort(r)
  PROVE  Disciplined(r)'
<1> USE DEF Goto, At
<1>1. CASE CheckKey(r) \/ ChooseOrder(r) \/ AnswerCreated(r) \/ AnswerFailed(r)
  <2>1. holds' = holds /\ pc[r] \in {"idle", "answer", "refused", "failed"}
    BY <1>1 DEF CheckKey, ChooseOrder, AnswerCreated, AnswerFailed
  <2>2. LocksOf(r)' = {}
    BY <2>1 DEF LocksOf, LocksOK, LocksInside, InTransaction
  <2>3. pc'[r] \in {"owner", "lock", "done"}
    BY <1>1 DEF CheckKey, ChooseOrder, AnswerCreated, AnswerFailed, TxTypes
  <2> QED
    BY <2>2, <2>3 DEF Disciplined, InSkuOrder
<1>2. CASE LockCartOwner(r)
  <2>1. /\ Lock(r, UserRow(Request[r].user), Exclusive)
        /\ pc[r] = "owner" /\ pc'[r] = "key"
    BY <1>2 DEF LockCartOwner, TxTypes
  <2>2. GoesOn(r)
    BY <2>1 DEF GoesOn, HasOwner, HasCoupon, HasOrder, HasEvent
  <2>3. \A h : h.row = UserRow(Request[r].user) => Taken(r, h)'
    BY <2>1 DEF Taken, HasOwner
  <2>4. \A h \in LocksOf(r)' : Taken(r, h)'
    BY <2>1, <2>2, <2>3, TakesOneMore DEF Disciplined
  <2> QED
    BY <2>1, <2>4 DEF Disciplined, InSkuOrder
<1>3. CASE RecheckKey(r)
  <2>1. CASE ReleaseLocks(r) /\ pc'[r] = "done"
    BY <2>1, ReleaseStep DEF Disciplined, InSkuOrder
  <2>2. CASE holds' = holds /\ pc'[r] = "cart"
    BY <1>3, <2>2, QuietlyDisciplined
    DEF RecheckKey, GoesOn, HasOwner, HasCoupon, HasOrder, HasEvent
  <2> QED
    BY <1>3, <2>1, <2>2 DEF RecheckKey, TxTypes
<1>4. CASE ReadCart(r)
  <2>1. CASE Rollback(r, "refused")
    BY <2>1, RollbackDisciplined
  <2>2. CASE holds' = holds /\ pc'[r] = "price"
    BY <1>4, <2>2, QuietlyDisciplined
    DEF ReadCart, GoesOn, HasOwner, HasCoupon, HasOrder, HasEvent
  <2> QED
    BY <1>4, <2>1, <2>2 DEF ReadCart, TxTypes
<1>5. CASE PriceLine(r)
  BY <1>5, PriceDisciplined
<1>6. CASE ReadClock(r)
  <2>1. CASE Rollback(r, "refused")
    BY <2>1, RollbackDisciplined
  <2>2. CASE ~Rollback(r, "refused")
    <3>1. /\ holds' = holds /\ pc[r] = "clock" /\ pc'[r] \in {"reserve", "coupon"}
          /\ tx' = [tx EXCEPT ![r].now = clock]
      BY <1>6, <2>2 DEF ReadClock, TxTypes
    <3>2. tx'[r].stock = NoStock
      BY <3>1 DEF TxTypes, TxRow, View, StockIsCurrent
    <3> QED
      BY <3>1, <3>2, QuietlyDisciplined DEF GoesOn, HasOwner, HasCoupon, HasOrder, HasEvent
  <2> QED
    BY <2>1, <2>2
<1>7. CASE ApplyCoupon(r)
  BY <1>7, CouponDisciplined
<1>8. CASE ReserveLine(r)
  BY <1>8, ReserveDisciplined
<1>9. CASE SaveOrder(r) \/ CloseOrder(r)
  <2>1. ReleaseLocks(r) /\ pc'[r] \in {"refused", "answer", "failed", "done"}
    BY <1>9 DEF SaveOrder, CloseOrder, Rollback, TxTypes
  <2> QED
    BY <2>1, ReleaseStep DEF Disciplined, InSkuOrder
<1>10. CASE LockOrder(r)
  BY <1>10, LockOrderDisciplined
<1>11. CASE InsertEvent(r)
  BY <1>11, EventDisciplined
<1>12. CASE MoveLine(r)
  BY <1>12, MoveDisciplined
<1>13. CASE Abort(r)
  BY <1>13, RollbackDisciplined DEF Abort, AfterRollback
<1> QED
  BY <1>1, <1>2, <1>3, <1>4, <1>5, <1>6, <1>7, <1>8, <1>9, <1>10, <1>11, <1>12, <1>13
  DEF RequestStep, CheckoutStep, CloseStep

LEMMA OthersDisciplined ==
  ASSUME NEW t, Disciplined(t), Waits(t)
  PROVE  Disciplined(t)'
<1>1. \A h : Taken(t, h) => Taken(t, h)'
  BY DEF Waits, Taken, LinesOf
<1>2. InSkuOrder(t)'
  BY DEF Waits, Disciplined, InSkuOrder, LinesOf, Unstocked
<1> QED
  BY <1>1, <1>2 DEF Waits, Disciplined

LEMMA DisciplineInit == TxInit => \A r \in Requests : Disciplined(r)
  BY DEF TxInit, Disciplined, LocksOf, InSkuOrder

LEMMA DisciplineStep ==
  ASSUME TxInv, \A r \in Requests : Disciplined(r), [TxNext]_allVars
  PROVE  \A r \in Requests : Disciplined(r)'
<1>1. TypeOK /\ TxTypes /\ LocksOK
  BY DEF TxInv
<1>2. CASE SingleRowStep \/ UNCHANGED allVars
  <2>1. \A t : Waits(t)
    BY <1>2 DEF SingleRowStep, allVars, txVars, Waits, LocksOf
  <2> QED
    BY <2>1, OthersDisciplined
<1>3. CASE \E r \in Requests : RequestStep(r) \/ Abort(r)
  <2>1. PICK r \in Requests : RequestStep(r) \/ Abort(r)
    BY <1>3
  <2>2. Disciplined(r)'
    BY <1>1, <2>1, StatementDisciplined DEF TxInv
  <2>3. \A t \in Requests : t # r => Waits(t)
    BY <1>1, <2>1, StatementActs DEF OnlyActs, TxTypes, Waits
  <2> QED
    BY <2>2, <2>3, OthersDisciplined
<1> QED
  BY <1>2, <1>3 DEF TxNext

LEMMA DisciplineInvariant == TxSpec => [](\A r \in Requests : Disciplined(r))
<1> DEFINE AllDisciplined == \A r \in Requests : Disciplined(r)
<1>1. TxInit => AllDisciplined
  BY DisciplineInit
<1>2. TxInv /\ AllDisciplined /\ [TxNext]_allVars => AllDisciplined'
  BY DisciplineStep
<1> HIDE DEF AllDisciplined
<1>3. TxSpec => []AllDisciplined
  BY <1>1, <1>2, TxInvariant, PTL DEF TxSpec
<1> QED
  BY <1>3 DEF AllDisciplined

\* The row that a waiting request needs.
LEMMA NeededRows ==
  ASSUME NEW r, NEW need \in NextRows(r)
  PROVE  /\ pc[r] \in {"owner", "price", "coupon", "lock", "event", "reserve", "stock"}
         /\ pc[r] = "owner" => need = <<UserRow(Request[r].user), Exclusive>>
         /\ pc[r] = "price" => \E s \in Skus : need = <<SkuRow(s), Share>>
         /\ pc[r] = "coupon" => need = <<CouponRowOf(Request[r].coupon), Exclusive>>
         /\ pc[r] = "lock" => need = <<OrderRow(tx[r].order), Exclusive>>
         /\ pc[r] = "event" => need = <<EventRow(Request[r].event), Exclusive>>
         /\ pc[r] = "reserve" => \E s \in Skus : /\ Lowest(Unstocked(r), s)
                                                 /\ need = <<StockRow(s), Exclusive>>
         /\ pc[r] = "stock" => \E s \in Skus : /\ NextLine(r, s)
                                               /\ need = <<StockRow(s), Exclusive>>
<1>1. pc[r] = "owner" => need = <<UserRow(Request[r].user), Exclusive>>
  BY DEF NextRows
<1>2. pc[r] = "price" => \E s \in Skus : need = <<SkuRow(s), Share>>
  BY DEF NextRows
<1>3. pc[r] = "coupon" => need = <<CouponRowOf(Request[r].coupon), Exclusive>>
  BY DEF NextRows
<1>4. pc[r] = "lock" => need = <<OrderRow(tx[r].order), Exclusive>>
  BY DEF NextRows
<1>5. pc[r] = "event" => need = <<EventRow(Request[r].event), Exclusive>>
  BY DEF NextRows
<1>6. pc[r] = "reserve" =>
        \E s \in Skus : Lowest(Unstocked(r), s) /\ need = <<StockRow(s), Exclusive>>
  BY DEF NextRows
<1>7. pc[r] = "stock" =>
        \E s \in Skus : NextLine(r, s) /\ need = <<StockRow(s), Exclusive>>
  BY DEF NextRows
<1>8. pc[r] \in {"owner", "price", "coupon", "lock", "event", "reserve", "stock"}
  BY DEF NextRows
<1> QED
  BY <1>1, <1>2, <1>3, <1>4, <1>5, <1>6, <1>7, <1>8

LEMMA RowsDiffer ==
  /\ \A u, s : UserRow(u) # SkuRow(s) /\ UserRow(u) # StockRow(s)
  /\ \A u, c : UserRow(u) # CouponRowOf(c)
  /\ \A u, o : UserRow(u) # OrderRow(o)
  /\ \A u, e : UserRow(u) # EventRow(e)
  /\ \A s, z : SkuRow(s) # StockRow(z)
  /\ \A s, c : SkuRow(s) # CouponRowOf(c) /\ StockRow(s) # CouponRowOf(c)
  /\ \A s, o : SkuRow(s) # OrderRow(o) /\ StockRow(s) # OrderRow(o)
  /\ \A s, e : SkuRow(s) # EventRow(e) /\ StockRow(s) # EventRow(e)
  /\ \A c, o : CouponRowOf(c) # OrderRow(o)
  /\ \A c, e : CouponRowOf(c) # EventRow(e)
  /\ \A o, e : OrderRow(o) # EventRow(e)
  /\ \A s, z : StockRow(s) = StockRow(z) => s = z
  BY DEF UserRow, SkuRow, StockRow, CouponRowOf, OrderRow, EventRow

\* Requests share the rows of SKUs.
LEMMA PriceWaitsForNobody ==
  ASSUME LocksOK, \A r \in Requests : Disciplined(r), NEW r \in Requests, pc[r] = "price"
  PROVE  MayWaitFor(r) = {}
<1> SUFFICES ASSUME NEW need \in NextRows(r), NEW t \in Blockers(r, need[1], need[2])
             PROVE  FALSE
  BY DEF MayWaitFor
<1>1. PICK s \in Skus : need = <<SkuRow(s), Share>>
  BY NeededRows
<1>2. PICK h \in LocksOf(t) : h.row = need[1] /\ ~(h.mode = Share /\ need[2] = Share)
  BY DEF Blockers, LocksOf
<1>3. t \in Requests
  BY <1>2 DEF LocksOK, LocksInside, LocksOf
<1>4. Taken(t, h) /\ h.row = SkuRow(s)
  BY <1>1, <1>2, <1>3 DEF Disciplined
<1>5. h.mode = Share
  BY <1>4, RowsDiffer DEF Taken
<1> QED
  BY <1>1, <1>2, <1>5

\* What r waits for at t, if both wait: the rows of a checkout come in the order owner,
\* coupon, stock, those of the others in the order order, event, stock.
LEMMA WaitsUpwards ==
  ASSUME NEW r \in Requests, NEW t \in Requests, Disciplined(t),
         t \in MayWaitFor(r), MayWaitFor(t) # {}, pc[r] # "price", pc[t] # "price"
  PROVE  /\ pc[r] \in {"owner", "coupon", "lock", "event", "reserve", "stock"}
         /\ pc[r] = "owner" => pc[t] \in {"coupon", "reserve"}
         /\ pc[r] = "coupon" => pc[t] = "reserve"
         /\ pc[r] = "lock" => pc[t] \in {"event", "stock"}
         /\ pc[r] = "event" => pc[t] = "stock"
         /\ pc[r] \in {"reserve", "stock"} =>
              /\ pc[t] \in {"reserve", "stock"}
              /\ \E s \in LinesOf(t) :
                   /\ tx[t].stock[s] # Null
                   /\ pc[r] = "reserve" => Lowest(Unstocked(r), s)
                   /\ pc[r] = "stock" => NextLine(r, s)
<1>1. PICK need \in NextRows(r) : t \in Blockers(r, need[1], need[2])
  BY DEF MayWaitFor
<1>2. PICK h \in LocksOf(t) : h.row = need[1] /\ ~(h.mode = Share /\ need[2] = Share)
  BY <1>1 DEF Blockers, LocksOf
<1>3. Taken(t, h)
  BY <1>2 DEF Disciplined
<1>4. /\ pc[t] \in {"owner", "coupon", "lock", "event", "reserve", "stock"}
      /\ pc[r] \in {"owner", "coupon", "lock", "event", "reserve", "stock"}
  BY <1>1, NeededRows DEF MayWaitFor
<1>5. pc[r] = "owner" => pc[t] \in {"coupon", "reserve"}
  <2> SUFFICES ASSUME pc[r] = "owner" PROVE pc[t] \in HasOwner
    BY <1>4 DEF HasOwner
  <2>1. h.row = UserRow(Request[r].user)
    BY <1>2, NeededRows
  <2> QED
    BY <1>3, <2>1, RowsDiffer DEF Taken
<1>6. pc[r] = "coupon" => pc[t] = "reserve"
  <2> SUFFICES ASSUME pc[r] = "coupon" PROVE pc[t] \in HasCoupon
    BY <1>4 DEF HasCoupon
  <2>1. h.row = CouponRowOf(Request[r].coupon)
    BY <1>2, NeededRows
  <2> QED
    BY <1>3, <2>1, RowsDiffer DEF Taken
<1>7. pc[r] = "lock" => pc[t] \in {"event", "stock"}
  <2> SUFFICES ASSUME pc[r] = "lock" PROVE pc[t] \in HasOrder
    BY <1>4 DEF HasOrder
  <2>1. h.row = OrderRow(tx[r].order)
    BY <1>2, NeededRows
  <2> QED
    BY <1>3, <2>1, RowsDiffer DEF Taken
<1>8. pc[r] = "event" => pc[t] = "stock"
  <2> SUFFICES ASSUME pc[r] = "event" PROVE pc[t] \in HasEvent
    BY <1>4 DEF HasEvent
  <2>1. h.row = EventRow(Request[r].event)
    BY <1>2, NeededRows
  <2> QED
    BY <1>3, <2>1, RowsDiffer DEF Taken
<1>9. ASSUME pc[r] \in {"reserve", "stock"}
      PROVE  /\ pc[t] \in {"reserve", "stock"}
             /\ \E s \in LinesOf(t) :
                  /\ tx[t].stock[s] # Null
                  /\ pc[r] = "reserve" => Lowest(Unstocked(r), s)
                  /\ pc[r] = "stock" => NextLine(r, s)
  <2>1. PICK s \in Skus : /\ need = <<StockRow(s), Exclusive>>
                          /\ pc[r] = "reserve" => Lowest(Unstocked(r), s)
                          /\ pc[r] = "stock" => NextLine(r, s)
    BY <1>9, NeededRows
  <2>2. h.row = StockRow(s)
    BY <1>2, <2>1
  <2>3. /\ pc[t] \in HasCoupon \cup HasEvent
        /\ \E z \in LinesOf(t) : h.row = StockRow(z) /\ tx[t].stock[z] # Null
    BY <1>3, <2>2, RowsDiffer DEF Taken
  <2>4. s \in LinesOf(t) /\ tx[t].stock[s] # Null
    BY <2>2, <2>3, RowsDiffer
  <2> QED
    BY <1>4, <2>1, <2>3, <2>4 DEF HasCoupon, HasEvent
<1> QED
  BY <1>4, <1>5, <1>6, <1>7, <1>8, <1>9

\* Ranks do not rise forever.
LEMMA HighestRank ==
  ASSUME NEW N \in SUBSET Skus, N # {}
  PROVE  \E s \in N : \A z \in N : ~(SkuRank[s] < SkuRank[z])
<1> SUFFICES ASSUME \A s \in N : \E z \in N : SkuRank[s] < SkuRank[z]
             PROVE  FALSE
  OBVIOUS
<1> DEFINE above(s) == {z \in Skus : SkuRank[s] < SkuRank[z]}
           A == {above(s) : s \in N}
<1>1. IsWellFoundedOn(StrictSubsetOrdering(Skus), SUBSET Skus)
  <2>1. IsFiniteSet(Skus)
    BY RequestsAreWellFormed
  <2> HIDE DEF above, A
  <2> QED
    BY <2>1, FS_StrictSubsetOrderingWellFounded, FS_FiniteSubsetsOfFinite
<1>2. A \subseteq SUBSET Skus /\ A # {}
  OBVIOUS
<1>3. PICK M \in A : \A T \in A : <<T, M>> \notin StrictSubsetOrdering(Skus)
  <2> HIDE DEF A
  <2> QED
    BY <1>1, <1>2, WFMin
<1>4. PICK s \in N : M = above(s)
  BY <1>3
<1>5. PICK z \in N : SkuRank[s] < SkuRank[z]
  OBVIOUS
<1>6. \A x \in Skus : SkuRank[x] \in Nat
  BY RequestsAreWellFormed
<1>7. above(z) \subseteq above(s) /\ z \in above(s) /\ z \notin above(z)
  BY <1>5, <1>6
<1>8. above(z) \in A /\ above(z) \in SUBSET Skus /\ above(s) \in SUBSET Skus
  OBVIOUS
<1> HIDE DEF above, A
<1>9. above(z) # above(s)
  BY <1>7
<1>10. <<above(z), above(s)>> \in StrictSubsetOrdering(Skus)
  BY <1>7, <1>8, <1>9 DEF StrictSubsetOrdering
<1> QED
  BY <1>3, <1>4, <1>8, <1>10

\* Whoever waits in such a circle holds its stock rows in SKU order.
LEMMA InnerWaits ==
  ASSUME NEW S \in SUBSET Requests, \A r \in Requests : Disciplined(r),
         \A r \in S : MayWaitFor(r) \cap S # {} /\ pc[r] # "price" /\ ~MidwayUnordered(r),
         NEW r \in S, pc[r] \in {"reserve", "stock"}
  PROVE  \E t \in S : \E s \in LinesOf(t) :
           /\ pc[t] \in {"reserve", "stock"} /\ tx[t].stock[s] # Null
           /\ pc[t] = "stock" => Request[t].op = "expire"
           /\ pc[r] = "reserve" => Lowest(Unstocked(r), s)
           /\ pc[r] = "stock" => NextLine(r, s)
<1>1. PICK t \in S : t \in MayWaitFor(r)
  OBVIOUS
<1>2. PICK s \in LinesOf(t) :
        /\ pc[t] \in {"reserve", "stock"} /\ tx[t].stock[s] # Null
        /\ pc[r] = "reserve" => Lowest(Unstocked(r), s)
        /\ pc[r] = "stock" => NextLine(r, s)
  <2>1. MayWaitFor(t) # {}
    BY <1>1
  <2> QED
    BY <1>1, <2>1, WaitsUpwards
<1>3. s \in Skus /\ s \notin Unstocked(t)
  BY <1>2 DEF LinesOf, Unstocked
<1>4. pc[t] = "stock" => Request[t].op = "expire"
  BY <1>1, <1>2, <1>3 DEF MidwayUnordered
<1> QED
  BY <1>1, <1>2, <1>4

LEMMA NoCircle ==
  ASSUME LocksOK, \A r \in Requests : Disciplined(r), NEW S \in SUBSET Requests, S # {},
         \A r \in S : MayWaitFor(r) \cap S # {},
         \A r \in S : ~MidwayUnordered(r)
  PROVE  FALSE
<1>1. \A r \in S : MayWaitFor(r) \cap S # {} /\ pc[r] # "price" /\ ~MidwayUnordered(r)
  BY PriceWaitsForNobody
<1>2. ASSUME NEW r \in S
      PROVE  \E t \in S : /\ pc[r] \in {"owner", "coupon", "lock", "event", "reserve", "stock"}
                          /\ pc[r] = "owner" => pc[t] \in {"coupon", "reserve"}
                          /\ pc[r] = "coupon" => pc[t] = "reserve"
                          /\ pc[r] = "lock" => pc[t] \in {"event", "stock"}
                          /\ pc[r] = "event" => pc[t] = "stock"
  <2>1. PICK t \in S : t \in MayWaitFor(r)
    BY <1>1
  <2>2. MayWaitFor(t) # {}
    BY <1>1
  <2> QED
    BY <1>1, <2>1, <2>2, WaitsUpwards
<1>3. PICK r \in S : pc[r] \in {"reserve", "stock"}
  <2>1. PICK a \in S : TRUE
    OBVIOUS
  <2>2. PICK b \in S : pc[b] \in {"coupon", "event", "reserve", "stock"}
    BY <1>2, <2>1
  <2>3. \E c \in S : pc[c] \in {"reserve", "stock"}
    BY <1>2, <2>2
  <2> QED
    BY <2>3
<1> DEFINE HeldRows == {s \in Skus : \E t \in S :
                          /\ pc[t] \in {"reserve", "stock"}
                          /\ pc[t] = "stock" => Request[t].op = "expire"
                          /\ s \in LinesOf(t) /\ tx[t].stock[s] # Null}
<1>4. HeldRows # {}
  <2>0. \E t \in S : \E s \in LinesOf(t) :
          /\ pc[t] \in {"reserve", "stock"} /\ tx[t].stock[s] # Null
          /\ pc[t] = "stock" => Request[t].op = "expire"
          /\ pc[r] = "reserve" => Lowest(Unstocked(r), s)
          /\ pc[r] = "stock" => NextLine(r, s)
    BY <1>1, <1>3, InnerWaits
  <2>1. PICK t \in S : \E s \in LinesOf(t) :
          /\ pc[t] \in {"reserve", "stock"} /\ tx[t].stock[s] # Null
          /\ pc[t] = "stock" => Request[t].op = "expire"
    BY <2>0
  <2>2. \A s \in LinesOf(t) : s \in Skus
    BY DEF LinesOf
  <2>3. PICK s \in LinesOf(t) : s \in HeldRows
    BY <2>1, <2>2
  <2> QED
    BY <2>3
<1>5. ASSUME NEW s \in HeldRows
      PROVE  \E z \in HeldRows : SkuRank[s] < SkuRank[z]
  <2>1. PICK t \in S :
          /\ pc[t] \in {"reserve", "stock"}
          /\ pc[t] = "stock" => Request[t].op = "expire"
          /\ s \in LinesOf(t) /\ tx[t].stock[s] # Null
    OBVIOUS
  <2>2. \E u \in S : \E z \in LinesOf(u) :
          /\ pc[u] \in {"reserve", "stock"} /\ tx[u].stock[z] # Null
          /\ pc[u] = "stock" => Request[u].op = "expire"
          /\ pc[t] = "reserve" => Lowest(Unstocked(t), z)
          /\ pc[t] = "stock" => NextLine(t, z)
    BY <1>1, <2>1, InnerWaits
  <2>3. PICK u \in S, z \in Skus :
          /\ z \in LinesOf(u) /\ z \in Unstocked(t)
          /\ pc[u] \in {"reserve", "stock"} /\ tx[u].stock[z] # Null
          /\ pc[u] = "stock" => Request[u].op = "expire"
    BY <2>1, <2>2 DEF NextLine, Lowest, LinesOf
  <2>4. SkuRank[s] < SkuRank[z]
    BY <2>1, <2>3 DEF Disciplined, InSkuOrder
  <2>5. z \in HeldRows
    BY <2>3
  <2> QED
    BY <2>4, <2>5
<1>6. HeldRows \in SUBSET Skus
  OBVIOUS
<1> HIDE DEF HeldRows
<1> QED
  BY <1>4, <1>5, <1>6, HighestRank

\* Requests that wait for each other in a circle have a cancellation or payment of several
\* lines among them, since preloadOrder loads these in no order: for any number of
\* requests, the lock order leaves no other deadlock.
THEOREM DeadlocksAreExplained == TxSpec => []OrderedNeverDeadlock
<1>1. LocksOK /\ (\A r \in Requests : Disciplined(r)) => OrderedNeverDeadlock
  BY NoCircle DEF OrderedNeverDeadlock
<1>2. TxInv => LocksOK
  BY DEF TxInv
<1> QED
  BY <1>1, <1>2, TxInvariant, DisciplineInvariant, PTL
=============================================================================
