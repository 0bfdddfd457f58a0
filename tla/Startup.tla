------------------------------- MODULE Startup -------------------------------
(***************************************************************************)
(* How processes prepare the database before they serve: database.Open     *)
(* (internal/database/database.go), Migrate and CheckSchema (migrate.go),  *)
(* Seed (seed.go) and the migrate command (cmd/migrate/main.go), while     *)
(* servers that are up already write the catalogue.                        *)
(*                                                                         *)
(* A migration is its number in the list.  What it does to the schema is   *)
(* left out, but for the one that gives every product without a SKU a      *)
(* default SKU, which the seed does as well.  A demo catalogue is one      *)
(* product.  Uncommitted work is in tx[p].                                 *)
(***************************************************************************)
EXTENDS Naturals, FiniteSets

CONSTANTS
  Processes,
  Servers,         \* the others run `migrate up`
  AutoMigrate,     \* servers with AUTO_MIGRATE=true
  Seeding,         \* servers with SEED=true
  Last,            \* the number of migrations
  BackfillAt,      \* the migration that makes default SKUs
  InitialLedgers,  \* the ledgers that the database may start with
  Products,        \* identifiers of products, used once
  Demo,            \* those kept for demo catalogues, one per boot of a seeding server
  InitialProducts,
  Oversized,       \* products whose price is numeric but out of range in cents
  MaxBoots, MaxFaults, \* bounds of the model
  Nobody

Versions == 1..Last
\* A version is recorded under its number or under a date.
Rows == Versions \X {"number", "date"}

ASSUME StartupIsWellFormed ==
  /\ AutoMigrate \subseteq Servers /\ Seeding \subseteq Servers /\ Servers \subseteq Processes
  /\ Last \in Nat \ {0} /\ BackfillAt \in Versions
  /\ \A L \in InitialLedgers : L \subseteq Rows
  /\ Demo \subseteq Products /\ InitialProducts \subseteq Products \ Demo
  /\ Oversized \subseteq Products \ (InitialProducts \cup Demo)
  /\ MaxBoots \in Nat /\ MaxFaults \in Nat
  /\ Nobody \notin Processes

VARIABLES
  ledger,          \* schema_migrations
  foreign,         \* the tables belong to another application
  products,        \* products[x]: "absent", "live" or "deleted"
  skus,            \* skus[x]: of the SKUs "own" and "default" those that x has
  accounts,        \* rows of the demo accounts
  coupons,         \* rows of the demo coupons
  migrationLock, seedLock,  \* the advisory locks
  pc, why,         \* why[p]: the reason for which p failed
  tx,
  boots, faults,
  runs             \* history: runs[v] is how often v was applied

catalogue == <<products, skus, accounts, coupons>>
locks == <<migrationLock, seedLock>>
history == <<boots, faults, runs>>
vars == <<ledger, foreign, catalogue, locks, pc, why, tx, history>>

NoWork == [next |-> 1, applied |-> {}, todo |-> {}, filled |-> {},
           demo |-> {}, accounts |-> 0, coupons |-> 0]

Numbers(L) == {row[1] : row \in L}

Init ==
  /\ ledger \in InitialLedgers
  /\ foreign \in BOOLEAN
  /\ products = [x \in Products |-> IF x \in InitialProducts THEN "live" ELSE "absent"]
  /\ skus = [x \in Products |->
       IF x \in InitialProducts /\ BackfillAt \in Numbers(ledger) THEN {"default"} ELSE {}]
  /\ accounts = 0 /\ coupons = 0
  /\ migrationLock = Nobody /\ seedLock = Nobody
  /\ pc = [p \in Processes |-> "down"]
  /\ why = [p \in Processes |-> "none"]
  /\ tx = [p \in Processes |-> NoWork]
  /\ boots = [p \in Processes |-> 0]
  /\ faults = 0
  /\ runs = [v \in Versions |-> IF v \in Numbers(ledger) THEN 1 ELSE 0]

-----------------------------------------------------------------------------

\* Broken variant: rows under the older identifiers are not recognised.
AppliedByNumber(v) == <<v, "number">> \in ledger
\* isApplied.
Applied(v) == <<v, "number">> \in ledger \/ <<v, "date">> \in ledger

\* pg_advisory_xact_lock on the key of the migrations.
MigrationLockFree == migrationLock = Nobody

\* Broken variant: seeders share nothing.
SeedFree == TRUE
\* pg_advisory_xact_lock on the key of the seed.
SeedLockFree == seedLock = Nobody

\* Broken variant: servers that do not migrate do not check either.
SchemaNotRequired(p) == FALSE
\* OptionsFromConfig: who does not migrate requires a complete schema.
RequireSchema(p) == p \in Servers /\ p \notin AutoMigrate

\* Broken variant: a ledger with a first row is taken for a complete one.
PendingAtAll == {v \in {1} : ~Applied(v)}
\* What CheckSchema complains about.
Pending == {v \in Versions : ~Applied(v)}

\* Broken variant: every migration commits on its own.
OneIsDone(p) == tx[p].applied # {}
\* The loop of migrate is over.
BatchIsDone(p) == tx[p].next > Last

Starting == {"lock", "batch", "check", "lockSeed", "accounts", "products", "list", "fill",
             "coupons", "commit"}
Settled == {"down", "serving", "exited", "failed"}

Goto(p, label) == pc' = [pc EXCEPT ![p] = label]
Work(p, t) == tx' = [tx EXCEPT ![p] = t]

\* Broken variant: session locks, which outlive the transaction.
LocksKept(p) == UNCHANGED locks
\* The end of a transaction releases its advisory lock.
ReleaseLocks(p) ==
  /\ migrationLock' = IF migrationLock = p THEN Nobody ELSE migrationLock
  /\ seedLock' = IF seedLock = p THEN Nobody ELSE seedLock

\* Open returns an error: the transaction is rolled back, the pool is closed.
Refuse(p, reason) ==
  /\ Goto(p, "failed")
  /\ why' = [why EXCEPT ![p] = reason]
  /\ Work(p, NoWork)
  /\ ReleaseLocks(p)

\* Where a process is after its schema is ready.
AfterSchema(p) ==
  CASE p \notin Servers -> "exited"
    [] p \in Seeding -> "lockSeed"
    [] OTHER -> "serving"

Boot(p) ==
  /\ pc[p] \in {"down", "failed"} /\ boots[p] < MaxBoots
  /\ Goto(p, IF p \in Servers \ AutoMigrate THEN "check" ELSE "lock")
  /\ why' = [why EXCEPT ![p] = "none"]
  /\ boots' = [boots EXCEPT ![p] = @ + 1]
  /\ UNCHANGED <<ledger, foreign, catalogue, locks, tx, faults, runs>>

Stop(p) ==
  /\ pc[p] = "serving"
  /\ Goto(p, "down")
  /\ UNCHANGED <<ledger, foreign, catalogue, locks, why, tx, history>>

-----------------------------------------------------------------------------
\* Migrate.

\* The lock, then rejectIncompatibleSchema.
LockMigrations(p) ==
  /\ pc[p] = "lock" /\ MigrationLockFree
  /\ IF foreign
       THEN Refuse(p, "foreign")
       ELSE /\ migrationLock' = p
            /\ Goto(p, "batch")
            /\ UNCHANGED <<seedLock, why, tx>>
  /\ UNCHANGED <<ledger, foreign, catalogue, history>>

\* One iteration of the loop of migrate.
ApplyNext(p) ==
  LET v == tx[p].next IN
  /\ pc[p] = "batch" /\ ~BatchIsDone(p)
  /\ IF v = BackfillAt /\ ~Applied(v)
       THEN Goto(p, "list") /\ UNCHANGED tx
       ELSE /\ Work(p, [tx[p] EXCEPT !.next = v + 1,
                                     !.applied = IF Applied(v) THEN @ ELSE @ \cup {v}])
            /\ UNCHANGED pc
  /\ UNCHANGED <<ledger, foreign, catalogue, locks, why, history>>

\* What the transaction of p inserts is there already: a unique index refuses it.
Collides(p) ==
  \/ \E v \in tx[p].applied : <<v, "number">> \in ledger
  \/ \E x \in tx[p].filled : "default" \in skus[x]
  \/ tx[p].accounts > 0 /\ accounts > 0
  \/ tx[p].coupons > 0 /\ coupons > 0

\* The rows that the transaction of p has inserted become visible: the ledger rows of its
\* migrations, and default SKUs, demo products, accounts and coupons.
Publish(p) ==
  /\ ledger' = ledger \cup {<<v, "number">> : v \in tx[p].applied}
  /\ runs' = [v \in Versions |-> IF v \in tx[p].applied THEN runs[v] + 1 ELSE runs[v]]
  /\ products' = [x \in Products |-> IF x \in tx[p].demo THEN "live" ELSE products[x]]
  /\ skus' = [x \in Products |-> IF x \in tx[p].filled THEN skus[x] \cup {"default"} ELSE skus[x]]
  /\ accounts' = accounts + tx[p].accounts
  /\ coupons' = coupons + tx[p].coupons

\* The commit of a transaction of p.
Commit(p, next) ==
  /\ IF Collides(p)
       THEN Refuse(p, "conflict") /\ UNCHANGED <<ledger, runs, catalogue>>
       ELSE /\ Publish(p)
            /\ Goto(p, next)
            /\ Work(p, NoWork)
            /\ ReleaseLocks(p)
            /\ UNCHANGED why
  /\ UNCHANGED <<foreign, boots, faults>>

CommitBatch(p) == pc[p] = "batch" /\ BatchIsDone(p) /\ Commit(p, AfterSchema(p))

\* rejectIncompatibleSchema and CheckSchema: the ledger only grows, so that the
\* queries of the loop are one.
CheckSchema(p) ==
  /\ pc[p] = "check"
  /\ CASE foreign -> Refuse(p, "foreign")
       [] ~foreign /\ RequireSchema(p) /\ Pending # {} -> Refuse(p, "pending")
       [] OTHER -> Goto(p, AfterSchema(p)) /\ UNCHANGED <<locks, why, tx>>
  /\ UNCHANGED <<ledger, foreign, catalogue, history>>

-----------------------------------------------------------------------------
\* backfillLegacySKUInventory, in a migration or in the seed.

Live == {x \in Products : products[x] = "live"}

ListProducts(p) ==
  /\ pc[p] = "list"
  /\ Work(p, [tx[p] EXCEPT !.todo = Live \cup tx[p].demo])
  /\ Goto(p, "fill")
  /\ UNCHANGED <<ledger, foreign, catalogue, locks, why, history>>

\* One product: the count of its SKUs, legacyPriceCents and the two inserts.
FillProduct(p) ==
  \E x \in tx[p].todo :
    /\ pc[p] = "fill"
    /\ IF skus[x] = {} /\ x \in Oversized
         THEN Refuse(p, "price")
         ELSE /\ Work(p, [tx[p] EXCEPT !.todo = @ \ {x},
                                       !.filled = IF skus[x] = {} THEN @ \cup {x} ELSE @])
              /\ UNCHANGED <<pc, why, locks>>
    /\ UNCHANGED <<ledger, foreign, catalogue, history>>

Filled(p) ==
  /\ pc[p] = "fill" /\ tx[p].todo = {}
  /\ IF seedLock = p
       THEN Goto(p, "coupons") /\ UNCHANGED tx
       ELSE /\ Work(p, [tx[p] EXCEPT !.next = BackfillAt + 1, !.applied = @ \cup {BackfillAt}])
            /\ Goto(p, "batch")
  /\ UNCHANGED <<ledger, foreign, catalogue, locks, why, history>>

-----------------------------------------------------------------------------
\* Seed.

LockSeed(p) ==
  /\ pc[p] = "lockSeed" /\ SeedLockFree
  /\ seedLock' = p
  /\ Goto(p, "accounts")
  /\ UNCHANGED <<ledger, foreign, catalogue, migrationLock, why, tx, history>>

SeedAccounts(p) ==
  /\ pc[p] = "accounts"
  /\ Work(p, [tx[p] EXCEPT !.accounts = IF accounts = 0 THEN 1 ELSE 0])
  /\ Goto(p, "products")
  /\ UNCHANGED <<ledger, foreign, catalogue, locks, why, history>>

\* Identifiers that no transaction has taken.
FreshDemo ==
  {x \in Demo : products[x] = "absent" /\ \A q \in Processes : x \notin tx[q].demo}

\* The count leaves out products that are deleted.  The model has identifiers enough.
SeedProducts(p) ==
  /\ pc[p] = "products"
  /\ \/ Live # {} /\ UNCHANGED tx
     \/ /\ Live = {} /\ FreshDemo # {}
        /\ Work(p, [tx[p] EXCEPT !.demo = {CHOOSE x \in FreshDemo : TRUE}])
  /\ Goto(p, "list")
  /\ UNCHANGED <<ledger, foreign, catalogue, locks, why, history>>

SeedCoupons(p) ==
  /\ pc[p] = "coupons"
  /\ Work(p, [tx[p] EXCEPT !.coupons = IF coupons = 0 THEN 1 ELSE 0])
  /\ Goto(p, "commit")
  /\ UNCHANGED <<ledger, foreign, catalogue, locks, why, history>>

CommitSeed(p) == pc[p] = "commit" /\ Commit(p, "serving")

-----------------------------------------------------------------------------

\* Lost connection, SQL error, the 30 seconds of Open, a crash.
Fail(p) ==
  /\ pc[p] \in Starting /\ faults < MaxFaults
  /\ faults' = faults + 1
  /\ Refuse(p, "fault")
  /\ UNCHANGED <<ledger, foreign, catalogue, boots, runs>>

\* A commit whose acknowledgement is lost.
LoseCommit(p) ==
  /\ \/ pc[p] = "batch" /\ BatchIsDone(p)
     \/ pc[p] = "commit"
  /\ ~Collides(p) /\ faults < MaxFaults
  /\ faults' = faults + 1
  /\ Publish(p)
  /\ Refuse(p, "fault")
  /\ UNCHANGED <<foreign, boots>>

\* Operators write the catalogue through a server that is up.
Up == \E p \in Processes : pc[p] = "serving"

CreateProduct(x) ==
  /\ Up /\ x \notin Demo /\ products[x] = "absent"
  /\ products' = [products EXCEPT ![x] = "live"]
  /\ UNCHANGED <<ledger, foreign, skus, accounts, coupons, locks, pc, why, tx, history>>

DeleteProduct(x) ==
  /\ Up /\ x \in Live
  /\ products' = [products EXCEPT ![x] = "deleted"]
  /\ UNCHANGED <<ledger, foreign, skus, accounts, coupons, locks, pc, why, tx, history>>

CreateSKU(x) ==
  /\ Up /\ x \in Live
  /\ skus' = [skus EXCEPT ![x] = @ \cup {"own"}]
  /\ UNCHANGED <<ledger, foreign, products, accounts, coupons, locks, pc, why, tx, history>>

Proceed(p) ==
  \/ LockMigrations(p) \/ ApplyNext(p) \/ CommitBatch(p)
  \/ CheckSchema(p)
  \/ ListProducts(p) \/ FillProduct(p) \/ Filled(p)
  \/ LockSeed(p) \/ SeedAccounts(p) \/ SeedProducts(p) \/ SeedCoupons(p) \/ CommitSeed(p)

Next ==
  \/ \E p \in Processes : Boot(p) \/ Stop(p) \/ Proceed(p) \/ Fail(p) \/ LoseCommit(p)
  \/ \E x \in Products : CreateProduct(x) \/ DeleteProduct(x) \/ CreateSKU(x)

Spec == Init /\ [][Next]_vars

\* A process that can proceed does.
FairSpec == Spec /\ \A p \in Processes : WF_vars(Proceed(p))

-----------------------------------------------------------------------------

TypeOK ==
  /\ ledger \subseteq Rows /\ foreign \in BOOLEAN
  /\ products \in [Products -> {"absent", "live", "deleted"}]
  /\ skus \in [Products -> SUBSET {"own", "default"}]
  /\ \A x \in Products : products[x] = "absent" => skus[x] = {}
  /\ accounts \in 0..1 /\ coupons \in 0..1
  /\ migrationLock \in Processes \cup {Nobody} /\ seedLock \in Processes \cup {Nobody}
  /\ \A p \in Processes : migrationLock = p \/ seedLock = p => pc[p] \in Starting
  /\ pc \in [Processes -> Starting \cup Settled]
  /\ why \in [Processes -> {"none", "fault", "foreign", "pending", "price", "conflict"}]
  /\ \A p \in Processes : pc[p] = "failed" <=> why[p] # "none"
  /\ boots \in [Processes -> 0..MaxBoots] /\ faults \in 0..MaxFaults

\* A migration is applied once in the life of a database, also when it is recorded
\* under its older identifier, and the ledger says so (Migrate, migrate.go:104).
RunsOnce == \A v \in Versions : runs[v] = (IF v \in Numbers(ledger) THEN 1 ELSE 0)

\* Pending migrations are committed together or not at all (migrate.go:104;
\* docs/production.md:9).
AllOrNothing == [][ledger' # ledger => Numbers(ledger') = Versions]_vars

\* Nobody serves from a database that is not this service's or misses a migration
\* (CheckSchema, migrate.go:168-180).
ServingNeedsSchema ==
  \A p \in Processes : pc[p] \in {"serving", "lockSeed"} => ~foreign /\ Numbers(ledger) = Versions

\* The migration and the seed that both make default SKUs hold different locks, and
\* yet at most one of them is under way (migrate.go:110, seed.go:26).
OneBackfill ==
  Cardinality({p \in Processes : pc[p] \in {"list", "fill"}}) <= 1

\* No process is refused because another one prepares the same database.
NobodyCollides == \A p \in Processes : why[p] # "conflict"

\* A boot ends: nobody waits for a lock for ever, whoever fails meanwhile.
BootsEnd == \A p \in Processes : pc[p] \in Starting ~> pc[p] \in Settled

\* Seeding is "idempotent" and "safe to run on every boot" (seed.go:20-22): a server
\* whose schema is ready and that meets no fault comes up.
SafeOnEveryBoot ==
  \A p \in Seeding : pc[p] = "failed" => why[p] \in {"fault", "foreign", "pending"}
=============================================================================
