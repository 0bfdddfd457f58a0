# A TLA+ model of the H5 template business service

This directory specifies and verifies the Go service in `src/`: an HTTP API for
a small shop with a catalogue, carts, orders, coupons, mock payments and
sessions, kept in PostgreSQL, with an optional Redis cache. Several replicas of
the same process run against one database.

All paths below are relative to `src/`.

## 1. The system

### Components

| Component | State | Operations | Where |
|---|---|---|---|
| Order state machine | `orders.status`, `version`, history | `TransitionOrder` | `internal/service/order_state.go` |
| Pricing and coupons | none (pure) | overflow guard of the total, `CalculateCouponDiscount` | `internal/service/commerce_service.go` |
| Cart | `cart_items` | Add, Update, Delete, Clear | `commerce_service.go`, `internal/repository/commerce.go` |
| Orders and checkout | `orders`, `order_items`, `order_status_histories`, `coupon_usages` | Create, Cancel, Advance, ExpireBatch | same |
| Inventory | `inventories.available`, `.reserved` | ReserveInventory, ReleaseInventory, CommitInventory | `internal/repository/commerce.go` |
| Payments | `payments`, `payment_webhook_events` | Create, HandleWebhook | `internal/service/payment.go` |
| Catalogue | `products`, `product_skus` | Create, Update, Patch, Delete, CreateSKU, UpdateSKU | `internal/service/service.go`, `product_patch.go` |
| Expiry worker | ticker, `failedIDs` of a pass | StartWorkers, ExpireBatch | `internal/httpapi/router.go` |
| Sessions | `refresh_sessions`, users | Login, Refresh, Logout, CleanupSessions | `service.go`, `internal/repository/session.go` |
| Product cache | Redis entries with a TTL | Get, Set, Delete | `internal/cache/product.go` |
| Favorites | one row per user and product | Status, Set, List | `service.go`, `internal/repository/repository.go` |
| Lists | none (pages of a query) | products, operator's products, favorites, orders | `internal/httpapi/helpers.go`, `repository.go`, `commerce.go` |
| Rate limiter | a token bucket per visitor | allow, sweep | `internal/httpapi/middleware/middleware.go` |
| Migrations and seed | `schema_migrations`, the schema, demo rows | Open, Migrate, CheckSchema, Seed, the migrate command | `internal/database`, `cmd/migrate/main.go` |
| Lifecycle | listener, worker, cache client, pool | serve, drain, shutdown | `cmd/server/main.go`, `router.go` |
| Handlers, middleware | the deadline and the answer of a request | the chain of checks, decoding, responses | `internal/httpapi`, `internal/response`, `internal/apierr` |
| Configuration | none (read once) | LoadDotEnv, Load, Validate | `internal/config` |
| DTOs, logs, metrics | none that the program reads | presentation | `internal/httpapi/dto.go`, ... |

### Interactions

Handlers call services, services call repositories, and everything meets in the
database. There is no in-process shared state among the commerce services: what
orders their steps is row locks, conditional updates (`UPDATE ... WHERE
available >= ?` with a look at `RowsAffected`), unique indexes and the version
test of `SaveOrderAndHistory`. The payment provider calls back over HTTP at any
time, any number of times. The worker of each replica expires overdue orders and
removes expired sessions. Redis holds copies of products that every write
removes after its commit. The rate limiters are the only state that requests
share inside a process.

### What is hard

* Requests of one shopper run concurrently, on several replicas, and are
  retried: checkout must be idempotent per key and must not consume a cart twice.
* Shoppers compete for stock and for coupons with limits.
* An order can be cancelled, paid and expired at the same instant; each closes
  it differently for stock, coupon and payment.
* Callbacks are duplicated, late, reordered and may reuse an event identifier.
* Clocks are read before or after a lock is waited for.
* A commit can succeed and its acknowledgement, or the response, get lost.
* A worker must not be stopped by an order that it cannot release.
* Refreshes and a logout may present the same token at the same time, and an answer
  that is lost leaves the client with a token that is spent.
* A reader may refill the cache with what an update has just replaced.
* Replicas that migrate, check and seed one database start at the same time.
* Shutdown closes what requests and the worker use.
* Several deadlines bound a request: its context, the connection's read and write
  deadlines, and the shutdown's; a commit may come before one and its answer after.
* A list is read in several statements and requests while it changes.

`PROJECT.json` lists every such hazard at its line, with the properties that
would notice it going wrong.

### What makes each component correct

| Component | Properties |
|---|---|
| Order state machine | histories are legal paths, closed orders stay closed |
| Pricing | the discount is the exact floor and within the subtotal, the overflow guard is exact, nothing overflows on the way |
| Cart, checkout | a retry gets the order of its key, one checkout per cart, nothing ordered that the cart did not hold |
| Inventory | reserved units are those of pending orders, units are conserved |
| Coupons | usage follows the order's fate, limits hold |
| Payments | paid orders are those with a successful payment accepted before the expiry, acknowledged callbacks are honoured |
| Expiry worker | claims are exclusive, every overdue order is closed and every expired session removed in the end |
| Sessions | a token has one successor, revoked and spent tokens buy nothing, nobody else's session is ended, disabled accounts get nothing |
| Product cache | nothing hidden is served, staleness is bounded and has a reason, patches do not overwrite each other |
| Rate limiter | a visitor never gets more than burst plus rate times elapsed time |
| Lists, favorites | a walk over the pages misses nothing without a reason; bookmarks are unique and of products that have been public |
| Handlers, configuration | a success took effect and a refusal changed nothing; a client that stays is answered |
| Migrations and seed | each migration once, a batch as a whole, nobody serves from an incomplete schema, processes do not get in each other's way |
| Lifecycle | a shutdown fails only for a reason, a process that reports success has cut off nobody, the worker never uses a closed pool, the process ends |

## 2. Modules

| Module | What it is |
|---|---|
| `OrderState` | the transition table and `Transition`, i.e. `TransitionOrder` plus the history row |
| `Pricing` | the arithmetic of checkout as operators over an arbitrary `MaxAmount` |
| `Commerce` | the abstract specification: one action per committed service method |
| `CheckoutTx` | the same methods as transactions of several statements with row locks; implements `Commerce` |
| `ExpiryWorker` | the passes of the background workers |
| `SessionChain` | the abstract specification of refresh tokens: chains that are opened, renewed and ended |
| `RefreshSessions` | logins, refreshes, logouts and cleanups in statements, with the clients' cookies; implements `SessionChain` |
| `ProductCache` | one product, its copy in Redis, the requests that read and write it |
| `RateLimiter` | the token buckets of one process |
| `Startup` | processes that migrate, check and seed one database |
| `Lifecycle` | one process from listening to its exit |
| `Config` | the settings: `LoadDotEnv`, `Load` and `Validate` as operators |
| `Serving` | the requests that a configured process serves, with their deadlines; implements `Lifecycle` |
| `Pages` | the arithmetic of pagination as operators |
| `Browsing` | a client that walks over a list, and the bookmarks of a user |
| `CommerceProofs` (with `Pricing` and `OrderState`), `CheckoutTxProofs`, `ExpiryProofs`, `SessionProofs`, `CacheProofs`, `HttpEdgeProofs` (`RateLimiter`, `Browsing`, `Pages`), `StartupProofs`, `ServingProofs` (with `Lifecycle` and `Config`) | theorems and their proofs |
| `MCCommerce`, `MCCheckoutTx`, `MCExpiryWorker`, `MCRefreshSessions`, `MCProductCache`, `MCStartup`, `MCServing`, `MCHttpEdge` | constants and scenarios for TLC |

`Commerce` EXTENDS `OrderState` and `Pricing`; `CheckoutTx` EXTENDS `Commerce`
and instantiates it once more for the refinement. `Serving` EXTENDS `Lifecycle` and
`Config`: its requests take the steps that `Lifecycle` leaves open, and the settings
bound them. `Browsing` EXTENDS `Pages`. `MCHttpEdge` puts `RateLimiter` and `Browsing`
side by side; they share nothing.

### Commerce

A method that rejects its request rolls its transaction back, so it is no step.
A method that commits is one action, whose conjuncts are the method's checks in
order and whose primed variables are its writes. `orders[o]` is the order row
with its items (`items[s]`, the quantity of SKU `s`, 0 for no line) and its
history. `usages[o]` and `payments[o]` are the coupon usage and the payment of
the order, each unique per order in the database. `events` is the table of
recorded callbacks.

Time: `Stamps` is the set of times that a transaction which commits now may have
read: at most `RequestTimeout` before the commit. This is how an action that is
atomic in the model still uses a stale `now`, as `Cancel` and `Advance` do, which
read the clock before they wait for the lock.

What is left out: names, descriptions and snapshots of them in order items; the
signature of a callback (one that fails it changes nothing); the reads.

### CheckoutTx

Each request in `Requests` is a goroutine: a checkout, a cancellation, one
iteration of the expiry loop, or a payment webhook with SUCCESS. Its label `pc[r]`
names the next statement. `tx[r]` is what the transaction has read and computed;
`holds` the row locks. Writes become visible at the commit, so a waiting
transaction sees them only when it gets the lock, as in PostgreSQL's READ
COMMITTED. Conditional updates are evaluated on the committed row under the
lock. A transaction may be aborted at any statement (timeout, lost connection,
crash, deadlock detector), and a commit whose acknowledgement is lost is a
commit for the database and a failure for the service.

The checkout is `CheckKey`, `LockCartOwner`, `RecheckKey`, `ReadCart`, `PriceLine`
for every line in SKU order, `ReadClock`, `ApplyCoupon`, `ReserveLine` for every
line, `SaveOrder`, then `AnswerCreated` or, after an error, `AnswerFailed`. A lookup of the
key before the transaction that fails for another reason than "not found" ends the request
at once (`CheckKey`).
Everything that touches one row only (cart writes, catalogue writes, Advance,
creating a payment, FAILURE callbacks) is one step, enabled when its row is not
locked.

`KeepsPromise` says that this implements `Commerce`, and so carries its invariants over:
`CouponLimits` for one is checked on whole operations, and that two checkouts which count a
coupon's usages at the same time do not both use it is `KeepsPromise` (scenario `LastUse`). The refinement mapping is
the identity except for `products`: checkout does not lock the product row, so a
product may be delisted between the read and the commit. The order is then
committed for a product that is no longer on sale. In the mapping the product
keeps the status a checkout has seen until that checkout is over, i.e. the
delisting is ordered after the checkout. When that checkout ends, all of its products
show at once what was written meanwhile. `Commerce` writes one product per step, so
`KeepsPromise` allows this one step more (`ProductsSettle`): each product either stays
as it was seen or takes a value that `SaveProduct` or `DeleteProduct` may give it. No such
device is needed for SKU price and status, which the SHARE lock protects.

### ExpiryWorker

One worker per replica, each in a loop of passes: the cleanup of sessions, then at
most `BatchSize` attempts to expire an order. One deadline covers both
(`router.go:149`), so a cleanup may use up the pass (`CleanUpTooLong`) and a batch may
be cut short (`AbandonPass`). A process may end at any point of a pass, which rolls its
transaction back, and another one takes its place (`Crash`, `Restart`). `Malformed` is
the set of orders whose release fails on every attempt; `faults` counts lost
transactions, deadlines in a batch and crashes. `expired` is the backlog of sessions,
oldest first; users begin new ones all the time.

### SessionChain and RefreshSessions

A request mints at most one refresh token, so tokens are named by requests;
`sessions` is the table. `pc[r]` names the next statement: `account` (the read of
the user), `issue` (the clock of the token), `create` or `begin`, `consume`,
`commit` (the transaction of `RotateSession`, which holds the row lock between
the last two), `revoke`, `answer`. A request may fail at any statement, a commit
may be reported as a failure, and an answer may be lost. `jar[c]` is the cookie of
client `c`. Clients in `Browsers` send their cookie and wait for the answer, as
`docs/production.md:21` asks; the others present any token they have been given.

`KeepsChains` maps the table to chains: the current token of a login is the one
row that descends from it. A fork or a resumed chain has no counterpart.

Left out: wrong credentials (no step), signatures, roles (read again on every
call), clock skew between replicas, deadlocks between two cleanups.

### ProductCache

A column holds the name of the request that wrote it last. `age[c][a]` is how long
ago column `c` stopped to be `a`'s, which makes the age of what a reader shows a
number without an absolute clock. `Detail` is `Hit` and `CheckVisible`, or `Miss`,
`LoadProduct`, `LoadSKUs` and `Fill`, then `Attach`. A write commits and then
invalidates; either may fail. `Patch` holds the row lock from its read to its
commit. `Update` is a method of the service that no route calls; it is modelled
because tests and callers of the package may use it next to `Patch`.

Left out: the stock that `Attach` reads afresh on every request, corrupt entries,
text normalisation, and a Redis command that takes effect after its deadline.

### RateLimiter

One action reads the clock, the next is the critical section. Tokens are counted in
fractions (`Cost` per request, `Rate` per tick), so that the arithmetic is exact;
float64 rounds.

`MaxWait` bounds how long a request may wait for the mutex after it has read the clock.
The code has no such bound: a goroutine may be suspended there for any time. With
`IdleBucketsAreFull` (`Rate * (TTL - 2 * MaxWait) >= Cost * Burst`) a bucket is full
before it is forgotten, also when the last request before that and the first one after it
come late. The defaults (40 tokens at 20 per second, or 5 at one in two seconds for
logins, against a lifetime of 10 minutes) leave nearly 5 minutes for the wait; that other
settings satisfy it is an assumption the code does not check. A request that waits
longer may find its entry dropped on behalf of a later reading, make a new one with the
earlier reading, and be admitted beyond the allowance.

### Startup

A process is a server, with `AUTO_MIGRATE` or without, with `SEED` or without, or
the migrate command. Uncommitted work is in `tx[p]` and becomes visible in
`Publish`. A commit that repeats a row somebody else has committed is refused
(`Collides`), as the unique indexes do. Operators create and delete products and
create SKUs through any server that is up. The initial ledgers are empty,
partly applied under a dated identifier, and complete.

### Lifecycle

`main` is the label of the main goroutine, with one action for each deferred call.
Time does not appear: a drain may time out whenever a request is running, and what a
request does is any number of statements.

### Config and Serving

`Config` has one operator for each group of tests of `Validate`. A setting is a value
or `Absent`; a text that its parser refuses is `Malformed`. `Load` fills in the defaults
of the source.

`Serving` starts with any environment and `.env` file of the instance whose settings are
valid. `Routes` is the table of the API routes: which checks of the middleware and the
handler come before the service is called, and the status of a success; `Checks` gives
their order. A request is `TurnAway` (what CORS and `BodyLimit` see in the headers) or
`ReadBody` (size, limiter; the read deadline of the connection), `Authenticate` (one
statement), any number of statements (`Work`), one after which it is rolled back (`Reject`)
or `COMMIT` (`Commit`), then an answer and `Write`. `call[r].age` counts from the headers; a
step that waits for nobody takes no time, and `Tick` waits for it. `Interrupt` is a statement
that fails because its context is done.

A commit is confirmed, or it takes effect and its confirmation is lost with the connection
(`"unconfirmed"`). After a confirmed one `Work` removes a cache entry or reads the row again,
and `Respond` looks at the context once more and answers with success; on the routes of
`ReadsBack` the second read may fail, and the answer is 500. A service takes an
unconfirmed commit for a failed one (`WrapTransaction`), so `RespondUnconfirmed` answers 500
or the error of the context; a checkout looks up its key first and may answer 200. None of
the routes answers 404 there: nothing deletes a row of `orders` or `product_skus`. The webhook
reads its order again as well but drops the error (`payment.go:262-266`).

Which handlers write and which only read makes no difference here: `effect` says that the
service has completed. `Reject` answers 409 for every refusal of a service (401, 403, 404,
409 and 422 tell the client the same: nothing was done) and 500 for a failure after which
the transaction is rolled back. A commit that has failed and one whose confirmation is
lost give the same 500.

### Pages and Browsing

`Browsing` has the four lists that are paginated: the public catalogue, the operator's list,
the bookmarks and the orders of a user. A page is `CountItems` and `FindItems`, two
statements outside a transaction; the client goes on while `hasMore` says so. Others
create, publish, hide, delete and rank products, bookmark them and check out in between.
`rank` stands for the column that the list is sorted by, `status` also for the other
conditions of the query. `stayed`, `pulled`, `pushed` and `torn` record what the writes did to
the items of the walk, so that `WalkMissesNothing` can say which losses have a reason.
A bookmark is `RequirePublic` and, later, `SetBookmark`.

## 3. Runs

| Run | Instance | Checks |
|---|---|---|
| `CommerceStock` | 2 users, 2 SKUs with 1 unit, 2 orders, one key per user, a coupon usable once, a product that is delisted | `TypeOK`, `ReservedIsHeld`, `StockConserved`, `CouponFollowsOrder`, `CouponLimits`, `ClosedOrdersStay` |
| `CommercePayments` | 2 orders, 2 events, stamps up to 1 old, a private coupon once per user | `PaymentFollowsOrder`, `CallbacksHonoured`, `HistoryIsLegal` |
| `TxLines` | scenarios `LineLocks`, `ExpiryRace`, `CancelRace`, `Delisting` of `MCCheckoutTx` | `OrderedNeverDeadlock`, `KeepsPromise` |
| `TxOrders` | scenarios `CartRace`, `SameKey`, `LastUse`, `LastUnit`, `CloseRace` | `AnswersAgree`, `RejectedMeansNoOrder`, `KeepsPromise` |
| `ExpiryWorkers` | 2 workers, 4 orders of which 1 malformed and 3 expire together, batches of 2, 2 sessions that expire again and again, cleanups of 1 row, 2 faults | `ClaimsAreExclusive`, `HealthyOrdersClose`, `ExpiredSessionsGo` |
| `ExpiryStarved` | 2 malformed orders, batches of 2 | `HealthyOrdersClose` is violated |
| `Sessions` | scenarios `Race`, `Browser`, `Devices` of `MCRefreshSessions`, cleanups of 1 row | `LogoutIsFinal`, `CookieIsUsable`, `DisabledGetNothing`, `KeepsChains`, `OnlyOwnersEndSessions` |
| `Cache` | scenarios `Refill`, `Hiding`, `Deletion`, `Merging` of `MCProductCache` | `StalenessIsBounded`, `OutdatedHasReason`, `HiddenIsNotShown`, `PatchesMerge` |
| `HttpEdge` | the limiter with 4 requests of one visitor and 2 of others, 2 places in the table; or a walk over 3 products or bookmarks, or 4 orders, in pages of 1 or 2, with 2 requests that set bookmarks | `AllowanceHolds`, `TurnedAwayByTheBusy`, `WalkMissesNothing`, `BookmarksWerePublic` |
| `Startup` | the migrate command and 2 servers, 3 migrations, 1 fault, one process started again or a product with an oversized price | `RunsOnce`, `AllOrNothing`, `ServingNeedsSchema`, `OneBackfill`, `NobodyCollides`, `BootsEnd` |
| `SeedBlocked` | 1 server that boots twice, a price out of range | `SafeOnEveryBoot` is violated |
| `ServerShutdown` | 2 requests and the worker, with each relation of the four timeouts | `WorkerIsSafe`, `RequestsAreAnswered`, `DrainErrorHasReason`, `ProcessEnds` |

### Scenarios

Three MC modules describe several scenarios of one instance: which of its requests
take part, and how long. A `CONSTRAINT` keeps TLC within one scenario at a time,
so that a run asks all its questions of each of them. A constraint only leaves
behaviours out. It leaves out none that a liveness property needs: it stops requests
from arriving, accounts from being disabled and processes from starting, and no
fairness condition makes them.

| Scenario | What takes part |
|---|---|
| `CartRace` | two checkouts of one shopper with different keys and two lines, cart writes, repricing of one SKU, delisting |
| `LineLocks` | two checkouts of two lines by two shoppers, who lock the same rows |
| `ExpiryRace` | two checkouts of one shopper, the second one after the first, and the expiry of an order |
| `SameKey` | a checkout, its retry, and another request under the same key |
| `LastUse` | two checkouts of two shoppers, a coupon usable once |
| `LastUnit` | two checkouts of two shoppers, one unit |
| `CancelRace` | two checkouts of one shopper with two lines, the second one after the first, and the cancellation of an order |
| `Delisting` | a checkout of two SKUs of two products, each of which may be delisted meanwhile |
| `CloseRace` | checkout, cancellation, expiry and payment of one order, with stamps one unit old |
| `Race` | a login of a script, two refreshes and a logout with any of its tokens |
| `Browser` | a browser that serializes a login, a refresh, a logout and a call, while its account may be disabled |
| `Devices` | the sessions of two devices, one of which is refreshed, until they expire |
| `Refill` | two reads, a patch and a SKU write |
| `Hiding` | two reads, a patch that hides the product, an update that publishes it |
| `Deletion` | two reads, a deletion and a new SKU |
| `Merging` | two patches of different columns and an update |

`TypeOK` of the module of sessions is the theorem `SessionTypes`. `TxTypeOK`, `BrowsingTypeOK`,
`ServingTypeOK` and `TypeOK` of cache, rate limiter and startup say what the variables are;
the runs of these modules check what they do not say. `MCHttpEdge` also
leaves out what cannot matter: the walk looks at one list, so the rows of the others stay as
they are, and requests that differ in nothing arrive in order.

### Bounds, and why they are enough

* Two of everything that competes (users, orders, SKUs, events, workers): the
  locks, indexes and conditional updates all relate two transactions at a time. A coupon
  that may be used once has two orders that want it.
* Quantities of 0 and 1, with 1 or 2 units of stock: contention arises when the
  stock is smaller than the number of orders. Larger quantities are covered by
  the theorems.
* The clock stops at `MaxTime`, 1 to 3, with `OrderPaymentTTL` 1, so that orders
  are created, payable, at their expiry and past it. `Checkout` is refused when
  its order could not expire before the clock stops; without that the last
  orders would stay pending only because the model's time ends.
* `MaxAmount` is small, so that `TxOrders` reaches the overflow guard, also with
  lines that fit and a sum that does not; without that test `KeepsPromise` fails. The
  theorems about `Pricing` hold for every `MaxAmount`, 2^63 - 1 included.
* Transactions: scenarios that do not need time to pass stay at time 0; that an order
  expires is part of `ExpiryRace` and `CloseRace`.
* Sessions: two refreshes and a logout are all that can meet at one row; three
  times (0 to `MaxTime`) tell apart valid access tokens, valid refresh tokens and
  expired ones.
* Cache: a TTL and a request timeout of one tick are enough for a refill to
  begin before a write and to end after it, for the entry to be served at its end, and
  for a request to use up its time afterwards. Two readers: one fills, one hits.
  The jitter is 0: a longer lifetime is what a larger
  `TTL` would be, and the bound of `StalenessIsBounded` adds both.
* Rate limiter: a burst of 2 and a refill that does not divide the cost; 8 ticks cover
  eviction (`TTL` 5) and a full bucket afterwards, with readings one tick late. Two places:
  a third visitor is turned away or makes the sweep matter, and an entry may be dropped
  while another one stays.
* Lists: three rows in pages of two are a full page and one that is not, in pages of
  one every boundary; four orders are two full pages. One setter bookmarks or removes any
  product, the other one bookmarks the first before the walk starts.
* Serving: durations of 1 and 2 are all the relations between `REQUEST_TIMEOUT` and the
  other three that `Validate` distinguishes, refused ones included; the other settings are
  absent and get their defaults. One request may be slow, impatient, refused by two checks at once
  or unobjectionable, the other one is a provider's call.
* Startup: of three migrations the one in the middle makes SKUs, so that a batch has
  parts before and after it. Demo products are as many as boots.
* Symmetry is declared only for identifiers that the instance does not
  distinguish, and never for liveness.

### Fairness

* `FairSpec` of ExpiryWorker: time passes, the timer fires, the database answers and a
  process that ended is replaced (weak fairness of `WorkerStep`); faults are finite in number.
  A cleanup may take too long any number of times, but not every time: strong fairness of
  `CleanUp`. Nobody has to cancel or pay.
* `FairSpec` of Startup: a process that can proceed does. Faults and boots are
  finite in number; a waiting process needs no deadline.
* `FairServing`: main and the worker go on, requests do what they can without waiting, and
  time passes, which ends their waiting. A pass of the worker ends (its batch is bounded and its
  context has a deadline). Strong fairness of `StopWorker`, since Go's `select` chooses at
  random between a tick and a cancelled context. No client has to send its body or to stay.

## 4. What the checks show

All properties above hold, with two exceptions, each a disagreement of the code
with what its documentation or a comment says.

`ExpiryStarved`: each pass starts again at the oldest overdue order and counts
failed attempts against the batch size. When as many orders as a batch has room
for fail on every attempt, the healthy orders behind them are never expired and
keep their stock and coupons. `docs/commerce.md:80` says that "other orders still
commit" and `docs/architecture.md:73` that "healthy orders continue". This holds
while fewer orders than `ORDER_EXPIRATION_BATCH_SIZE` fail (`ExpiryWorkers`).
`NoOrderIsStuck` shows that the service's own steps never produce such an order; it
takes a row changed by other means, the case for which the code skips failures.

`SeedBlocked`: `seed.go:20-22` calls seeding "safe to run on every boot". A product may
be created with a price of up to 32 digits; if it has no SKU and its price does not
fit an int64 of cents, the seed fails, and every later start of a server with
`SEED=true` with it. Staging and production refuse `SEED=true`.

Three more differences between code and documents were met while modelling; the
models follow the code, and no run is spent on them:

* `docs/production.md:10` says that seeding "only fills empty tables". Every boot with
  `SEED=true` gives a default SKU with stock to each product without SKUs
  (`seed.go:94`), and loads the demo catalogue again when all products were deleted,
  since deleted rows are not counted (`seed.go:71`).
* `NewRateLimit` promises a burst capacity (`middleware.go:99-100`). `allow` reads the clock
  before it takes the mutex, so the second of two concurrent requests of a new visitor
  may find a later reading, lose tokens for a negative elapsed time and be refused
  although the burst is 2. Nobody gets more than the allowance (`AllowanceHolds`), as long as
  nobody waits for the mutex for nearly half the lifetime of an entry (`MaxWait`).
* `docs/deployment.md:46-47` says that requests are drained before the worker is stopped;
  the code stops the worker first (`main.go:106`), as `docs/production.md:28` says.

What holds within limits that a reader should know:

* A logout revokes the token it is given (`LogoutIsFinal`). One that races a refresh
  of the same token leaves the successor alive; `docs/production.md:17` and `:21` say so.
* `CookieIsUsable` is about browsers that saw every answer. A lost answer to a refresh
  leaves a spent cookie, and a refresh that fails for any reason clears the cookie,
  also when its session is still in the table.
* A cancellation or a payment locks the stock of its order in no particular order
  (`preloadOrder` names none), so it can deadlock with a checkout or an expiry, which lock
  in SKU order. `OrderedNeverDeadlock` says that every circle has such a request in it;
  PostgreSQL aborts one transaction, and `KeepsPromise` holds with the abort.
* An answer 500 or 504 says nothing about the effect: the commit may have lost its
  confirmation (`commerce_service.go:245-255`), the read after it may have failed
  (`commerce_service.go:261`, `:356`, `:396`; `service.go:464`, `:491`), or the deadline may
  have passed between the commit and the answer (`response.go:51`). A success did take
  effect, and a refusal (4xx) changed nothing (`RequestsAreAnswered`). The client repeats an
  order under the same key (`AnswersAgree`); an operator who repeats `adminCreateSKU` after a
  500 may meet a conflict with the SKU that the first attempt created.
* `Validate` compares `REQUEST_TIMEOUT` with `WRITE_TIMEOUT` only. With a `READ_TIMEOUT` as
  long as `WRITE_TIMEOUT` a client that is slow to send its body may get no answer, and with one
  as long as `SHUTDOWN_TIMEOUT` it may make a shutdown fail (`RequestsAreAnswered`,
  `DrainErrorHasReason`). The defaults (15, 30 and 15 seconds) exclude the first.
* `ProductionIsConfigured` does not list `DATABASE_URL`: its default is valid in production.
* A walk over a list misses an item that moved to an earlier page, or behind the last one
  between its count and its rows (`WalkMissesNothing`); the pages are not a snapshot.
* What `Detail` shows may be older than `PRODUCT_CACHE_TTL`, by the jitter and one request
  timeout (`StalenessIsBounded`).

Every property has a broken variant of the code in the modules (comments "Broken
variant"): an off-by-one, a dropped lock or test, a forgotten update. With the
variant in place of the definition, TLC finds the property violated.

## 5. Theorems

| Theorem | Module | Statement |
|---|---|---|
| `TypeCorrect` | `CommerceProofs` | `Spec => []TypeOK` |
| `StockSafe` | `CommerceProofs` | `Spec => []StockConserved` |
| `ReservationsMatch` | `CommerceProofs` | `Spec => []ReservedIsHeld` |
| `CouponsFollow` | `CommerceProofs` | `Spec => []CouponFollowsOrder` |
| `CouponsAreLimited` | `CommerceProofs` | `Spec => []CouponLimits` |
| `PaymentsFollow` | `CommerceProofs` | `Spec => []PaymentFollowsOrder` |
| `CallbacksAreHonoured` | `CommerceProofs` | `Spec => []CallbacksHonoured` |
| `HistoriesAreLegal` | `CommerceProofs` | `Spec => []HistoryIsLegal` |
| `ClosedForGood` | `CommerceProofs` | `Spec => ClosedOrdersStay` |
| `NoOrderIsStuck` | `CommerceProofs` | `Spec => []PendingCanBeReleased` |
| `PromiseIsKept` | `CheckoutTxProofs` | `TxSpec => KeepsPromise`: the transactions implement `Commerce` |
| `CommitsAreAtomic` | `CheckoutTxProofs` | `TxSpec => [][Commits]_vars`: the same without a mapping, for a purchase that may ignore a delisting |
| `TablesAlwaysAgree` | `CheckoutTxProofs` | the invariants of `Commerce` hold between any two statements |
| `AnswersAreUnique` | `CheckoutTxProofs` | `TxSpec => []AnswersAgree` |
| `RefusalsAreFinal` | `CheckoutTxProofs` | `TxSpec => []RejectedMeansNoOrder` |
| `DeadlocksAreExplained` | `CheckoutTxProofs` | `TxSpec => []OrderedNeverDeadlock` |
| `ClaimsExclusive` | `ExpiryProofs` | `Spec => []ClaimsAreExclusive` |
| `SessionTypes` | `SessionProofs` | `Spec => []TypeOK` |
| `SessionsKeepChains` | `SessionProofs` | `Spec => KeepsChains`: the statements implement `SessionChain` |
| `LogoutsAreFinal` | `SessionProofs` | `Spec => []LogoutIsFinal` |
| `DisabledAreRefused` | `SessionProofs` | `Spec => []DisabledGetNothing` |
| `OwnersEndSessions` | `SessionProofs` | `Spec => OnlyOwnersEndSessions` |
| `CookiesAreUsable` | `SessionProofs` | `Spec => []CookieIsUsable` |
| `PercentageDiscountIsFloor` | `CommerceProofs` | dividing first gives the exact floor |
| `PercentageDiscountFits` | `CommerceProofs` | every intermediate result is within the amount range |
| `DiscountWithinSubtotal` | `CommerceProofs` | 0 <= discount <= subtotal |
| `AmountTooLargeIsOverflow` | `CommerceProofs` | the guard is exact |
| `ServingImplementsLifecycle` | `ServingProofs` | `ServingSpec => Spec` (of `Lifecycle`) |
| `WorkerSafe` | `ServingProofs` | `ServingSpec => []WorkerIsSafe` |
| `SuccessDrained` | `ServingProofs` | `ServingSpec => []SuccessMeansDrained` |
| `AnswersAreTrue` | `ServingProofs` | `ServingSpec => []RequestsAreAnswered` |
| `DrainErrorsAreExplained` | `ServingProofs` | `ServingSpec => []DrainErrorHasReason` |
| `MigrationsRunOnce` | `StartupProofs` | `Spec => []RunsOnce` |
| `MigrationsAreAtomic` | `StartupProofs` | `Spec => AllOrNothing` |
| `SchemaIsComplete` | `StartupProofs` | `Spec => []ServingNeedsSchema` |
| `BackfillIsExclusive` | `StartupProofs` | `Spec => []OneBackfill` |
| `NoConflict` | `StartupProofs` | `Spec => []NobodyCollides` |
| `HiddenStayHidden` | `CacheProofs` | `Spec => []HiddenIsNotShown` |
| `StaleIsBounded` | `CacheProofs` | `Spec => []StalenessIsBounded` |
| `PatchesAreMerged` | `CacheProofs` | `Spec => []PatchesMerge` |
| `OutdatedIsExplained` | `CacheProofs` | `Spec => []OutdatedHasReason` |
| `AllowanceIsKept` | `HttpEdgeProofs` | `Spec => []AllowanceHolds` |
| `TurnedAwayByOthers` | `HttpEdgeProofs` | `Spec => TurnedAwayByTheBusy` |
| `WalkIsComplete` | `HttpEdgeProofs` | `BrowsingSpec => []WalkMissesNothing` |
| `BookmarksSafe` | `HttpEdgeProofs` | `BrowsingSpec => []BookmarksWerePublic` |
| `PageSizeInRange` | `HttpEdgeProofs` | a page has 1 to `MaxPageSize` rows |
| `OffsetFits` | `HttpEdgeProofs` | no offset and no last row of a page exceeds `MaxInt` |
| `HasMoreIsExact` | `HttpEdgeProofs` | `hasMore` is `page * size < total` |
| `ProductionIsConfigured` | `ServingProofs` | what passes `Validate` in production or staging has its environment, secrets and origins set explicitly |

Assumptions: those named in `Pricing` and `Commerce` (`MaxAmountIsPositive`,
`TablesAreFinite`, `CatalogueIsWellFormed`, `LimitsAreNatural`), `CheckoutTx`
(`RequestsAreWellFormed`: a request has the parameters of its method, the SKUs are finite in
number and ordered by their identifiers), `ExpiryWorker` (`OrdersAreWellFormed`),
`RefreshSessions` (`RequestsAreWellFormed`, `LifetimesAreOrdered`: `Validate` refuses a refresh token
that expires before the access token), `ProductCache` (`WritersAreWellFormed`: who reads does
not write, and an update supplies every column; `NoEntryIsNone`, `TimesAreNatural`),
`RateLimiter` (`LimiterIsWellFormed`, `IdleBucketsAreFull`, see section 2), `Startup`
(`StartupIsWellFormed`: the versions are 1 to `Last` and one of them makes default SKUs),
`Pages` (`PageLimits`), `Browsing` (`ListsAreCounted`: a list is shorter than the largest int),
`Lifecycle` (`RequestsAreFinite`, `WorkerIsNoRequest`: the name that stands for the worker is
none of a request) and `Serving` (`DurationsAreParsed`, `RoutesAreAsked`), which the runs
evaluate on their instances. `PercentageDiscountFits` needs in addition
`MaxAmount >= 10^8`, which int64 satisfies.

`TypeOK` is inductive by itself. The step that takes work is `Checkout`: the
order's discount must be within `0..MaxAmount`, which is `DiscountWithinSubtotal`,
and stock must stay natural, which is the guard of the conditional updates.

`ReservedIsHeld` and `StockConserved` are not inductive: creating a SKU sets its
stock to the initial value, which is only right if no order holds units of it
already. `StockInv` adds `UnstockedIsUnused`: a SKU that does not exist has no
stock and is in no cart and no order. The sums over orders are cardinalities of
sets of units (`Units`), one element for each unit of each order, so that
`UpdateTotal` (one order's quantity changes, the total changes by as much) follows
from the facts about finite sets without induction over the orders.

The third part of `CommerceProofs` first reduces the actions of `Commerce` to what they do to the rows of one
order: an order is placed, closed, advanced or paid, or a callback is recorded
(`Ordered`). Every invariant of orders is then a statement about one row that each
of these six keeps. `OrderInv` is their conjunction, because they lean on each other: the
coupon limits hold since the count of `Checkout` is about exactly the usages that
`CouponFollowsOrder` keeps, and a cancelled order cannot be paid later since its payment
follows its status. `NoOrderIsStuck` needs `UpdatesMatch` as well: by `ReservedIsHeld` the
stock row has at least the units of each order that holds some, so the conditional
updates never fail.

`CheckoutTxProofs` is about the statements of any number of requests. `View(r)` says what
the transaction of `r` knows at each label: its copy of the cart is the cart, its total the sum
over the current prices, its coupon applies, the order it closes is admitted, and the stock it
will write follows from the committed row. `HoldsLocks(r)` says which rows it has locked by then.
A step of somebody else keeps `View(r)` because it leaves alone what is locked
(`Undisturbed(r)`, `StatementDisturbsNobody`), and a step of `r` establishes the view at the next
label (`StatementOwn`). `TxInv` is the conjunction with the invariants of `Commerce`. At the commit
the view says that the tests of `Commerce!Checkout`, `Cancel`, `Expire` or `PaymentSucceeds` hold
of the tables as they are now (`SaveBuys`, `CloseCommits`), and the commit is that step. The one
test that may fail is that the product is still on sale: `Purchase` leaves it out, and
`ProductsAsSeen` delays the delisting, with `SeenInv` to say that what was seen exists.

The total of a checkout is a loop in the transaction and a fold in `Commerce`. `SubtotalIsAmount`
shows them equal without induction over the cart: both are the number of elements of one set
(a unit per cent), and the smallest subset of the cart for which the fold differed would
have a smaller one.

`AnswersInv` adds what the callers know: `Answered(r)` for the one whose answer is `r`'s, and
`KeysInv`, that a key has one order. A refused checkout has committed nothing, and an order
under its key can only come from a request that uses that key (`Alone`): if there is no other,
no such order exists, and none appears later.

`Disciplined(r)` says why `r` holds each of its locks, and that a checkout or an expiry has
the stock rows of its lowest lines. Whoever waits in a circle waits for somebody
whose rows come later (`WaitsUpwards`), so the circle is among the stock rows, and there the SKU that is
waited for would rise forever (`HighestRank`).

`SessionProofs` begins with `BaseInv` (types, one token per request, tokens belong to the client that
got them). `ChainsInv` adds that a chain has at most one row in the table and a row at most one
refresh that has consumed it; with it every statement maps to a step of `SessionChain` or to a stutter.
`LogoutIsFinal` and `OnlyOwnersEndSessions` follow from it and from the fact that a token never
becomes usable again (`Irreversible`). `CookieInv` says that a cookie of a browser goes bad only
under a request of that browser whose answer will replace or clear it.

`EndsSafely` is the inductive invariant of `ServingProofs`. The worker is safe because main
is beyond `wait` only when the worker is gone, and the resources are closed later still;
success means that all is drained because no connection is accepted after Shutdown was
called (`NotOpenAfter`) and requests are cut only by the exit (`BrokenByExit`). It is proved of
`Lifecycle`, and `ServingStep` carries it over: every step of a request is a step or a stutter.

`AnswerInv` adds the requests of `Serving`: at each stage, the success or the refusal that a client
is or would be told agrees with the effect, which after a commit is there whether it was confirmed
or not (`AnswerAgrees`), the age of a request is within the deadlines that its
stage implies (`AgeIsBounded`), and a request that a shutdown waits for is at least as old as
the shutdown (`OlderThanDrain`). A drain that times out has a running request
of the age `SHUTDOWN_TIMEOUT`, which those bounds allow only for the reasons of `DrainErrorHasReason`.

`StartupInv` says what the holder of each advisory lock has in its transaction. Whoever
migrates and makes SKUs has the backfill not yet recorded (`BatchFits`); whoever seeds
found the schema complete, backfill included (`SeedFits`), and records are never removed. So the two,
which take different locks, exclude each other, and what a transaction is about to insert
is still missing when it commits.

`CacheInv`: a patch that is about to commit has merged into what is still there
(`MergedIsCurrent`, under the row lock). `Aging` is about time. What a reader has loaded
changed, if at all, since it arrived; so an entry is filled with columns that are out of date by
at most a request timeout, and from then on the age of the entry's columns and its remaining
lifetime add up to no more than `TTL + Jitter + RequestTimeout`. The age that is
shown is the greatest of several; that a bounded set of integers has a greatest
element comes from the well-foundedness of the naturals.

`LimiterInv` measures a bucket by `Level`, its tokens minus what has been refilled since the
beginning: it falls by `Cost` with each admission and never rises, whatever the order
of the readings. The admissions with readings from `a` on and the level are therefore bounded
together (`BucketFits`). An entry that is evicted is old enough for a full bucket to respect that
bound (`EvictionFits`, `FullFits`), which is where `IdleBucketsAreFull` is needed: a late
reading may have taken `Rate * MaxWait` from the bucket before, and another one may
begin the new bucket earlier than the eviction.

`WalkInv` compares the position of each item that was listed all the time with the beginning
of the page: what has been seen is before it unless it was pushed back, what has not is
behind it unless it was pulled ahead, and is counted unless it slid behind the count.
Position is the number of items ahead, and a write changes it only for the items that the
history variables record.

`BookmarkInv` adds to `BookmarksWerePublic` that what a request is about to bookmark was
public when it was looked up, and that what is on sale now has been public.

Model-checked only: liveness, i.e. `HealthyOrdersClose`, `ExpiredSessionsGo`, `BootsEnd`
and `ProcessEnds`, which needs ENABLED and is out of the prover's reach. Every invariant and every
action property of the runs that pass is a theorem, and so are both refinements of
`Commerce` and `SessionChain`.

## 6. Not modelled

DTOs, logging and metrics: output that nothing reads back. The probes, the metrics
endpoint and the API documentation: routes without state. Signatures, hashes and tokens
as such; the syntax of texts. Matching of keywords, categories and prices in the lists: which rows match
is a column of the model. `PROJECT.json` names every component with its status.

## 7. Plan

Done: every module of section 2, and the theorems of section 5: every safety property that
a run checks is proved. Next, in this order:

1. In `CheckoutTx`, that checkouts are answered without the help of an abort (liveness under
   fairness of the requests), and in `ProductCache` jitter next to the refill scenario.
2. An abstract specification of the cache (a register that may be read late, by no more
   than the bound) and of `Startup` (a schema that is applied once), as refinements.
3. The safety half of `ProcessEnds` and `BootsEnd` as theorems: nobody waits in a circle.
