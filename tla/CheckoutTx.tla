------------------------------ MODULE CheckoutTx ------------------------------
(***************************************************************************)
(* How the promises of Commerce are kept: the transactions of checkout,    *)
(* cart writes, cancellation, expiry and payment, statement by statement,  *)
(* with the row locks they take in PostgreSQL (READ COMMITTED).            *)
(*                                                                         *)
(* A transaction reads committed rows, keeps what it read and computed in  *)
(* tx[r], holds its row locks until it ends, and its writes become visible *)
(* in one step when it commits.  It may end at any earlier step: a timeout *)
(* of the request, a lost connection, a crash of the process, or the       *)
(* deadlock detector.                                                      *)
(***************************************************************************)
EXTENDS Commerce

CONSTANTS
  Requests,   \* requests in progress, each with a goroutine of its own
  Request,    \* what each of them asks for
  SkuRank     \* the order of the SKU identifiers

ASSUME RequestsAreWellFormed ==
  /\ Request \in [Requests -> [op: {"checkout", "cancel", "expire", "pay"},
                               user: Users \cup {Null}, key: Keys \cup {Null},
                               coupon: Coupons \cup {Null}, event: Events \cup {Null}]]
  /\ \A r \in Requests :
       /\ Request[r].op = "checkout" => Request[r].user \in Users /\ Request[r].key \in Keys
       /\ Request[r].op = "cancel" => Request[r].user \in Users
       /\ Request[r].op = "pay" => Request[r].event \in Events
  /\ Null \notin [available: Nat, reserved: Nat]
  /\ IsFiniteSet(Skus) /\ SkuRank \in [Skus -> Nat]
  /\ \A s, z \in Skus : SkuRank[s] = SkuRank[z] => s = z

VARIABLES
  pc,       \* pc[r]: the next statement of request r
  tx,       \* tx[r]: what its transaction has read and computed
  holds,    \* the row locks held: [by, row, mode]
  replies   \* replies[r]: what the caller of a checkout has been told

txVars == <<pc, tx, holds, replies>>
allVars == <<vars, txVars>>

-----------------------------------------------------------------------------
(* Row locks. *)

Share     == "SHARE"
Exclusive == "UPDATE"     \* FOR UPDATE, FOR NO KEY UPDATE and UPDATE alike

UserRow(u)   == [table |-> "users", id |-> u]
SkuRow(s)    == [table |-> "product_skus", id |-> s]
StockRow(s)  == [table |-> "inventories", id |-> s]
CouponRowOf(c) == [table |-> "coupons", id |-> c]
OrderRow(o)  == [table |-> "orders", id |-> o]
EventRow(e)  == [table |-> "payment_webhook_events", id |-> e]

Blockers(r, row, mode) ==
  {h.by : h \in {g \in holds : g.row = row /\ g.by # r /\ ~(g.mode = Share /\ mode = Share)}}

\* Whether a statement outside the requests modelled here gets the row.
Unlocked(row) == \A h \in holds : h.row # row

CanLock(r, row, mode) == Blockers(r, row, mode) = {}

Lock(r, row, mode) ==
  /\ CanLock(r, row, mode)
  /\ holds' = holds \cup {[by |-> r, row |-> row, mode |-> mode]}

ReleaseLocks(r) == holds' = {h \in holds : h.by # r}

-----------------------------------------------------------------------------
(* The state of a transaction. *)

NoStock == [s \in Skus |-> Null]

NoTx == [order |-> Null, version |-> 0, items |-> NoItems, priced |-> {}, total |-> 0,
         discount |-> 0, now |-> 0, stock |-> NoStock]

NoReply  == [kind |-> "none", order |-> Null]
Answer(kind, o) == [kind |-> kind, order |-> o]

TxInit ==
  /\ Init
  /\ pc = [r \in Requests |-> "idle"]
  /\ tx = [r \in Requests |-> NoTx]
  /\ holds = {}
  /\ replies = [r \in Requests |-> NoReply]

Goto(r, label) == pc' = [pc EXCEPT ![r] = label]

At(r, op, label) == Request[r].op = op /\ pc[r] = label

\* The rows of the transaction, and those it has still to visit.
LinesOf(r) == {s \in Skus : tx[r].items[s] > 0}
Unpriced(r) == LinesOf(r) \ tx[r].priced
Unstocked(r) == {s \in LinesOf(r) : tx[r].stock[s] = Null}

\* Broken variant: lines are visited in any order.
AnyLine(S, s) == s \in S
\* sort.Slice on SKUID, and ORDER BY sku_id.
Lowest(S, s) == s \in S /\ \A z \in S : SkuRank[s] <= SkuRank[z]

\* The stock row as the transaction leaves it.
StockAfter(r) == [s \in Skus |-> IF tx[r].stock[s] = Null THEN inventory[s] ELSE tx[r].stock[s]]

InTime(r) == tx[r].now \in Stamps

\* The transaction ends without an effect.
Rollback(r, label) ==
  /\ ReleaseLocks(r)
  /\ Goto(r, label)
  /\ tx' = [tx EXCEPT ![r] = NoTx]

-----------------------------------------------------------------------------
(* OrderService.Create. *)

OrderWithKey(r) == {o \in Orders : orders[o].user = Request[r].user /\ orders[o].key = Request[r].key}

\* Broken variant: any request replays the order.
AnyRequest(o, r) == TRUE

\* The request hash covers the coupon code: the same key with another coupon is
\* a different request.
SameRequest(o, r) == orders[o].coupon = Request[r].coupon

Replay(r) ==
  \E o \in OrderWithKey(r) :
    replies' = [replies EXCEPT ![r] =
      IF SameRequest(o, r) THEN Answer("order", o) ELSE Answer("conflict", Null)]

\* The lookup before the transaction; the request ends if the database fails.
CheckKey(r) ==
  /\ At(r, "checkout", "idle")
  /\ \/ IF OrderWithKey(r) # {}
          THEN Replay(r) /\ Goto(r, "done")
          ELSE UNCHANGED replies /\ Goto(r, "owner")
     \/ replies' = [replies EXCEPT ![r] = Answer("unknown", Null)] /\ Goto(r, "done")
  /\ UNCHANGED <<vars, tx, holds>>

\* LockCartOwner, the first statement of the transaction.
LockCartOwner(r) ==
  /\ At(r, "checkout", "owner")
  /\ Lock(r, UserRow(Request[r].user), Exclusive)
  /\ Goto(r, "key")
  /\ UNCHANGED <<vars, tx, replies>>

\* The second lookup.  A replay commits a transaction that wrote nothing.
RecheckKey(r) ==
  /\ At(r, "checkout", "key")
  /\ IF OrderWithKey(r) # {}
       THEN Replay(r) /\ ReleaseLocks(r) /\ Goto(r, "done")
       ELSE UNCHANGED <<replies, holds>> /\ Goto(r, "cart")
  /\ UNCHANGED <<vars, tx>>

ReadCart(r) ==
  /\ At(r, "checkout", "cart")
  /\ LET u == Request[r].user
     IN  IF Lines(u) = {} \/ Cardinality(Lines(u)) > MaxOrderItems
           THEN Rollback(r, "refused")
           ELSE /\ tx' = [tx EXCEPT ![r].items = carts[u]]
                /\ Goto(r, "price")
                /\ UNCHANGED holds
  /\ UNCHANGED <<vars, replies>>

\* LockSKUForCheckout for the next line.  The SHARE lock is on the SKU row
\* only: the product is read without one.
PriceLine(r) ==
  /\ At(r, "checkout", "price")
  /\ \E s \in Skus :
       /\ Lowest(Unpriced(r), s)
       /\ CanLock(r, SkuRow(s), Share)
       /\ IF ~Saleable(s) \/ AmountTooLarge(tx[r].total, skus[s].price, tx[r].items[s])
            THEN Rollback(r, "refused")
            ELSE /\ Lock(r, SkuRow(s), Share)
                 /\ tx' = [tx EXCEPT ![r].priced = @ \cup {s},
                                     ![r].total = @ + skus[s].price * tx[r].items[s]]
                 /\ Goto(r, IF Unpriced(r) = {s} THEN "clock" ELSE "price")
  /\ UNCHANGED <<vars, replies>>

\* The time is read before the coupon row is locked.  A checkout too late for
\* the bound of Commerce!Checkout is given up.
ReadClock(r) ==
  /\ At(r, "checkout", "clock")
  /\ IF clock + OrderPaymentTTL <= MaxTime
       THEN /\ tx' = [tx EXCEPT ![r].now = clock]
            /\ Goto(r, IF Request[r].coupon = Null THEN "reserve" ELSE "coupon")
            /\ UNCHANGED holds
       ELSE Rollback(r, "refused")
  /\ UNCHANGED <<vars, replies>>

\* LockCouponByCode, and the count that it protects.
ApplyCoupon(r) ==
  /\ At(r, "checkout", "coupon")
  /\ LET c == Request[r].coupon
     IN  /\ CanLock(r, CouponRowOf(c), Exclusive)
         /\ IF CouponApplies(c, Request[r].user, tx[r].total, tx[r].now)
              THEN /\ Lock(r, CouponRowOf(c), Exclusive)
                   /\ tx' = [tx EXCEPT ![r].discount = Discount(CouponOf[c], tx[r].total)]
                   /\ Goto(r, "reserve")
              ELSE Rollback(r, "refused")
  /\ UNCHANGED <<vars, replies>>

\* ReserveInventory for the next line: the condition is evaluated on the
\* committed row, under the row lock of the update.
ReserveLine(r) ==
  /\ At(r, "checkout", "reserve")
  /\ \E s \in Skus :
       /\ Lowest(Unstocked(r), s)
       /\ CanLock(r, StockRow(s), Exclusive)
       /\ IF CanReserve(inventory[s], tx[r].items[s])
            THEN /\ Lock(r, StockRow(s), Exclusive)
                 /\ tx' = [tx EXCEPT ![r].stock[s] = Reserve(inventory[s], tx[r].items[s])]
                 /\ Goto(r, IF Unstocked(r) = {s} THEN "save" ELSE "reserve")
            ELSE Rollback(r, "refused")
  /\ UNCHANGED <<vars, replies>>

\* CreateOrder, CreateCouponUsage, ClearCart and COMMIT.  The unique index on
\* user and key refuses a second order.  The acknowledgement of the commit may
\* be lost, which the service sees as a failed transaction.
SaveOrder(r) ==
  /\ At(r, "checkout", "save")
  /\ InTime(r)
  /\ LET q == Request[r]
     IN  IF OrderWithKey(r) # {}
           THEN Rollback(r, "refused") /\ UNCHANGED vars
           ELSE \E o \in Orders :
                  /\ orders[o].status = NoStatus
                  /\ orders' = [orders EXCEPT ![o] =
                       NewOrder(q.user, q.key, q.coupon, tx[r].items, tx[r].total,
                                tx[r].discount, tx[r].now)]
                  /\ usages' = IF q.coupon = Null THEN usages
                               ELSE [usages EXCEPT ![o] = UsageReserved]
                  /\ carts' = [carts EXCEPT ![q.user] = NoItems]
                  /\ inventory' = StockAfter(r)
                  /\ tx' = [tx EXCEPT ![r].order = o]
                  /\ ReleaseLocks(r)
                  /\ \E label \in {"answer", "failed"} : Goto(r, label)
                  /\ UNCHANGED <<clock, products, skus, payments, events>>
  /\ UNCHANGED replies

\* The order is read again after the commit.  When that read fails, or the
\* response is lost, the caller cannot tell that the order exists.
AnswerCreated(r) ==
  /\ At(r, "checkout", "answer")
  /\ \/ replies' = [replies EXCEPT ![r] = Answer("order", tx[r].order)]
     \/ replies' = [replies EXCEPT ![r] = Answer("unknown", Null)]
  /\ tx' = [tx EXCEPT ![r] = NoTx]
  /\ Goto(r, "done")
  /\ UNCHANGED <<vars, holds>>

\* Broken variant: every failure is reported as a refusal.
VerdictRefused(label) == "rejected"

\* WrapTransaction: a refusal reaches the caller as such, any other failure as
\* an internal error that leaves the outcome open.
Verdict(label) == IF label = "refused" THEN "rejected" ELSE "unknown"

\* After any error the key is looked up once more, outside the transaction; that
\* lookup may fail too.
AnswerFailed(r) ==
  /\ pc[r] \in {"refused", "failed"}
  /\ \/ Replay(r)
     \/ replies' = [replies EXCEPT ![r] = Answer(Verdict(pc[r]), Null)]
  /\ tx' = [tx EXCEPT ![r] = NoTx]
  /\ Goto(r, "done")
  /\ UNCHANGED <<vars, holds>>

-----------------------------------------------------------------------------
(* CartService.mutate: one transaction that locks the cart owner's row, looks *)
(* up the SKU and writes the cart.  Nobody else reads the cart meanwhile, so   *)
(* an update of the SKU between the two may as well come after the write.      *)

\* Broken variant: cart writes do not lock the owner.
WriteCartUnlocked(u) ==
  \/ \E s \in Skus : CartAdd(u, s) \/ CartUpdate(u, s) \/ CartDelete(u, s)
  \/ CartClear(u)

WriteCart(u) ==
  /\ Unlocked(UserRow(u))
  /\ \/ \E s \in Skus : CartAdd(u, s) \/ CartUpdate(u, s) \/ CartDelete(u, s)
     \/ CartClear(u)

-----------------------------------------------------------------------------
(* Cancel, one iteration of ExpireBatch, and the payment webhook on SUCCESS. *)

\* Cancel reads the time here, before it waits for the order; ExpireBatch reads
\* it here for its query.
ChooseOrder(r) ==
  /\ Request[r].op \in {"cancel", "expire", "pay"}
  /\ pc[r] = "idle"
  /\ \E o \in Orders :
       /\ orders[o].status # NoStatus
       /\ tx' = [tx EXCEPT ![r].order = o, ![r].now = clock]
  /\ Goto(r, "lock")
  /\ UNCHANGED <<vars, holds, replies>>

\* Broken variant: the worker claims pending orders before their expiry.
AdmittedEarly(r, o) ==
  CASE Request[r].op = "cancel" -> orders[o].user = Request[r].user /\ CanTransition(orders[o], Cancelled)
    [] Request[r].op = "expire" -> orders[o].status = PendingPayment
    [] Request[r].op = "pay"    -> payments[o] # NoStatus

\* Whether the locked row passes the tests that follow the lock: for the
\* webhook only that the order has a payment.
Admitted(r, o) ==
  CASE Request[r].op = "cancel" -> orders[o].user = Request[r].user /\ CanTransition(orders[o], Cancelled)
    [] Request[r].op = "expire" -> orders[o].status = PendingPayment /\ orders[o].expiresAt <= tx[r].now
    [] Request[r].op = "pay"    -> payments[o] # NoStatus

\* LockOrderByID, LockOrderByNo or LockNextExpiredOrder.  The webhook reads the
\* time after it has its locks; that of the payment row is only ever taken by
\* somebody who holds the order's.
LockOrder(r) ==
  /\ pc[r] = "lock"
  /\ LET o == tx[r].order
     IN  /\ CanLock(r, OrderRow(o), Exclusive)
         /\ IF Admitted(r, o)
              THEN /\ Lock(r, OrderRow(o), Exclusive)
                   /\ tx' = [tx EXCEPT ![r].items = orders[o].items,
                                       ![r].version = orders[o].version,
                                       ![r].now = IF Request[r].op = "pay" THEN clock ELSE @]
                   /\ Goto(r, IF Request[r].op = "pay" THEN "event" ELSE "stock")
              ELSE Rollback(r, "done")
  /\ UNCHANGED <<vars, replies>>

\* RecordWebhookEvent: an insert of the same event identifier that has not
\* committed yet makes this one wait.  The order is looked at after it.
InsertEvent(r) ==
  /\ At(r, "pay", "event")
  /\ CanLock(r, EventRow(Request[r].event), Exclusive)
  /\ IF /\ \A row \in events : row.event # Request[r].event
        /\ orders[tx[r].order].status = PendingPayment
        /\ Unexpired(orders[tx[r].order], tx[r].now)
       THEN Lock(r, EventRow(Request[r].event), Exclusive) /\ Goto(r, "stock") /\ UNCHANGED tx
       ELSE Rollback(r, "done")
  /\ UNCHANGED <<vars, replies>>

\* Only ExpireBatch loads the items in SKU order; the others take them as the
\* database returns them.
NextLine(r, s) ==
  IF Request[r].op = "expire" THEN Lowest(Unstocked(r), s) ELSE s \in Unstocked(r)

\* ReleaseInventory or CommitInventory for one line.
MoveLine(r) ==
  /\ pc[r] = "stock"
  /\ \E s \in Skus :
       /\ NextLine(r, s)
       /\ CanLock(r, StockRow(s), Exclusive)
       /\ IF HasReserved(inventory[s], tx[r].items[s])
            THEN /\ Lock(r, StockRow(s), Exclusive)
                 /\ tx' = [tx EXCEPT ![r].stock[s] =
                      IF Request[r].op = "pay" THEN Commit(inventory[s], tx[r].items[s])
                                               ELSE Release(inventory[s], tx[r].items[s])]
                 /\ Goto(r, IF Unstocked(r) = {s} THEN "close" ELSE "stock")
            ELSE Rollback(r, "done")
  /\ UNCHANGED <<vars, replies>>

Target(r) == CASE Request[r].op = "cancel" -> Cancelled
               [] Request[r].op = "expire" -> Expired
               [] Request[r].op = "pay"    -> Paid

\* UpdateCouponUsage, SaveOrderAndHistory with its version test, the payment,
\* and COMMIT.
CloseOrder(r) ==
  /\ pc[r] = "close"
  /\ InTime(r)
  /\ LET o == tx[r].order
     IN  IF orders[o].version # tx[r].version
           THEN Rollback(r, "done") /\ UNCHANGED vars
           ELSE /\ orders' = [orders EXCEPT ![o] = Transition(@, Target(r), tx[r].now)]
                /\ inventory' = StockAfter(r)
                /\ MoveUsage(o, IF Request[r].op = "pay" THEN UsageConsumed ELSE UsageReleased)
                /\ IF Request[r].op = "pay"
                     THEN /\ payments' = [payments EXCEPT ![o] = PaymentSucceeded]
                          /\ events' = events \cup
                               {[event |-> Request[r].event, order |-> o,
                                 amount |-> Payable(orders[o]), status |-> CallbackSuccess]}
                     ELSE UNCHANGED <<payments, events>>
                /\ ReleaseLocks(r)
                /\ Goto(r, "done")
                /\ tx' = [tx EXCEPT ![r] = NoTx]
                /\ UNCHANGED <<clock, products, skus, carts>>
  /\ UNCHANGED replies

-----------------------------------------------------------------------------
(* The end of a transaction that does not reach its commit. *)

InTransaction(r) ==
  pc[r] \in {"owner", "key", "cart", "price", "clock", "coupon", "reserve", "save",
             "lock", "event", "stock", "close"}

\* The label of a request whose transaction has been aborted.
AfterRollback(r) == IF Request[r].op = "checkout" THEN "failed" ELSE "done"

Abort(r) ==
  /\ InTransaction(r)
  /\ Rollback(r, AfterRollback(r))
  /\ UNCHANGED <<vars, replies>>

-----------------------------------------------------------------------------
(* The transactions that change one row of the catalogue, or one cart, order or *)
(* payment, and are as good as one step.                                        *)

SingleRowStep ==
  /\ \/ \E p \in Products : CreateProduct(p) \/ SaveProduct(p) \/ DeleteProduct(p)
     \/ \E u \in Users : WriteCart(u)
     \/ \E s \in Skus : CreateSKU(s) \/ (Unlocked(SkuRow(s)) /\ UpdateSKU(s))
     \/ \E o \in Orders :
          /\ Unlocked(OrderRow(o))
          /\ \/ \E target \in OrderStatuses : Advance(o, target)
             \/ CreatePayment(o)
             \/ \E e \in Events : /\ Unlocked(EventRow(e))
                                  /\ PaymentFails(e, o) \/ PaymentRepeats(e, o)
     \/ Tick
  /\ UNCHANGED txVars

CheckoutStep(r) ==
  \/ CheckKey(r) \/ LockCartOwner(r) \/ RecheckKey(r) \/ ReadCart(r) \/ PriceLine(r) \/ ReadClock(r)
  \/ ApplyCoupon(r) \/ ReserveLine(r) \/ SaveOrder(r) \/ AnswerCreated(r) \/ AnswerFailed(r)

CloseStep(r) ==
  ChooseOrder(r) \/ LockOrder(r) \/ InsertEvent(r) \/ MoveLine(r) \/ CloseOrder(r)

RequestStep(r) == CheckoutStep(r) \/ CloseStep(r)

TxNext == SingleRowStep \/ \E r \in Requests : RequestStep(r) \/ Abort(r)

TxSpec == TxInit /\ [][TxNext]_allVars

-----------------------------------------------------------------------------
(* Properties. *)

Labels == {"idle", "owner", "key", "cart", "price", "clock", "coupon", "reserve", "save",
           "answer", "refused", "failed", "lock", "event", "stock", "close", "done"}

\* A request keeps a well-formed copy of what it read, and holds locks only
\* inside its transaction.
TxTypeOK ==
  /\ pc \in [Requests -> Labels]
  /\ \A r \in Requests :
       /\ tx[r].order \in Orders \cup {Null}
       /\ tx[r].items \in Items
       /\ tx[r].priced \subseteq Skus
       /\ tx[r].total \in 0..MaxAmount /\ tx[r].discount \in 0..tx[r].total
       /\ tx[r].now \in 0..MaxTime
  /\ \A h \in holds : h.by \in Requests /\ h.mode \in {Share, Exclusive} /\ InTransaction(h.by)

\* A product keeps the status that a checkout has seen until that checkout is
\* over: the delisting that slipped in between takes effect after it.
SeenOnSale(p) ==
  \E r \in Requests : \E s \in tx[r].priced : ProductOf[s] = p
ProductsAsSeen == [p \in Products |-> IF SeenOnSale(p) THEN StatusOnSale ELSE products[p]]

Promise == INSTANCE Commerce WITH products <- ProductsAsSeen

\* When that checkout ends, all of its products show what has been written
\* meanwhile: SaveProduct or DeleteProduct, of several products.
ProductsSettle ==
  /\ \A p \in Products :
       ProductsAsSeen'[p] = ProductsAsSeen[p]
         \/ (ProductsAsSeen[p] \notin {NoStatus, StatusDeleted}
               /\ ProductsAsSeen'[p] \in ProductInputs \cup {StatusDeleted})
  /\ UNCHANGED <<clock, skus, inventory, carts, orders, usages, payments, events>>

\* Every interleaving of the transactions looks like the atomic operations of
\* Commerce, one after the other: no checkout works on a cart, a price, a stock
\* or a coupon count that somebody else has changed by the time it commits.
KeepsPromise == Promise!Init /\ [][Promise!Next \/ ProductsSettle]_(Promise!vars)

\* Whoever is answered with an order is answered with the one order of this key,
\* and it is what that caller asked for.
AnswersAgree ==
  \A r \in Requests :
    replies[r].kind = "order" =>
      LET order == orders[replies[r].order]
      IN  /\ order.user = Request[r].user /\ order.key = Request[r].key
          /\ order.coupon = Request[r].coupon
          /\ \A t \in Requests :
               /\ replies[t].kind = "order"
               /\ Request[t].user = Request[r].user /\ Request[t].key = Request[r].key
               => replies[t].order = replies[r].order

\* A caller whose checkout was refused, and who has not used the key in another
\* request, has no order: trying again with a new key cannot buy twice.
RejectedMeansNoOrder ==
  \A r \in Requests :
    /\ replies[r].kind = "rejected"
    /\ \A t \in Requests \ {r} :
         ~(Request[t].op = "checkout" /\ Request[t].user = Request[r].user
                                      /\ Request[t].key = Request[r].key)
    => OrderWithKey(r) = {}

\* The rows that the next statement of a request may have to lock.
NextRows(r) ==
  CASE pc[r] = "owner"   -> {<<UserRow(Request[r].user), Exclusive>>}
    [] pc[r] = "price"   -> {<<SkuRow(s), Share>> : s \in {z \in Skus : Lowest(Unpriced(r), z)}}
    [] pc[r] = "coupon"  -> {<<CouponRowOf(Request[r].coupon), Exclusive>>}
    [] pc[r] = "lock"    -> {<<OrderRow(tx[r].order), Exclusive>>}
    [] pc[r] = "event"   -> {<<EventRow(Request[r].event), Exclusive>>}
    [] pc[r] = "reserve" -> {<<StockRow(s), Exclusive>> : s \in {z \in Skus : Lowest(Unstocked(r), z)}}
    [] pc[r] = "stock"   -> {<<StockRow(s), Exclusive>> : s \in {z \in Skus : NextLine(r, z)}}
    [] OTHER -> {}

MayWaitFor(r) == UNION {Blockers(r, need[1], need[2]) : need \in NextRows(r)}

\* A cancellation or payment that has some of its stock rows and needs others.
MidwayUnordered(r) ==
  /\ Request[r].op # "expire" /\ pc[r] = "stock"
  /\ Unstocked(r) # LinesOf(r)

\* Requests wait for each other in a circle only where a cancellation or payment of
\* several lines, which takes them in no order, is one of them: the lock order
\* user, SKU, coupon, stock of a checkout and order, event, stock of the others
\* leaves no other circle.
OrderedNeverDeadlock ==
  \A S \in SUBSET Requests :
    /\ S # {}
    /\ \A r \in S : MayWaitFor(r) \cap S # {}
    => \E r \in S : MidwayUnordered(r)
=============================================================================
