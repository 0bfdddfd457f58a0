----------------------------- MODULE StartupProofs -----------------------------
(***************************************************************************)
(* What any number of processes that prepare one database keep, for any    *)
(* list of migrations, any demo catalogue and any faults.                  *)
(***************************************************************************)
EXTENDS Startup, FiniteSetTheorems, TLAPS

Recorded == Numbers(ledger)
SchemaIsReady == ~foreign /\ Recorded = Versions

\* The labels of the two transactions; both make default SKUs.
Filling == {"list", "fill"}
Migrating == {"batch"} \cup Filling
SeedingOnly == {"accounts", "products", "coupons", "commit"}

Transactions ==
  [next : 1..(Last + 1), applied : SUBSET Versions, todo : SUBSET Products,
   filled : SUBSET Products, demo : SUBSET Products, accounts : 0..1, coupons : 0..1]

Types ==
  /\ ledger \subseteq Rows
  /\ pc \in [Processes -> Starting \cup Settled]
  /\ why \in [Processes -> {"none", "fault", "foreign", "pending", "price"}]
  /\ tx \in [Processes -> Transactions]
  /\ products \in [Products -> {"absent", "live", "deleted"}]
  /\ skus \in [Products -> SUBSET {"own", "default"}]
  /\ accounts \in 0..1 /\ coupons \in 0..1

\* A process has the advisory lock of the transaction that it is in.
LocksFit(p) ==
  /\ migrationLock = p => pc[p] \in Migrating /\ seedLock # p
  /\ seedLock = p => pc[p] \in SeedingOnly \cup Filling
  /\ pc[p] = "batch" => migrationLock = p
  /\ pc[p] \in SeedingOnly => seedLock = p
  /\ pc[p] \in Filling => migrationLock = p \/ seedLock = p
  /\ migrationLock # p /\ seedLock # p => tx[p] = NoWork
  /\ pc[p] = "check" => RequireSchema(p)

\* The batch applies what the ledger lacks, in order, and the backfill is pending for
\* as long as the batch has made SKUs.
BatchFits(p) ==
  migrationLock = p =>
    /\ ~foreign
    /\ tx[p].applied = {v \in Versions : v < tx[p].next /\ v \notin Recorded}
    /\ pc[p] \in Filling => tx[p].next = BackfillAt /\ BackfillAt \notin Recorded
    /\ tx[p].filled # {} => BackfillAt \notin Recorded
    /\ tx[p].accounts = 0 /\ tx[p].coupons = 0

\* The seed runs on a complete schema and inserts what was missing when it looked.
SeedFits(p) ==
  /\ seedLock = p =>
       /\ tx[p].applied = {}
       /\ tx[p].accounts > 0 => accounts = 0
       /\ tx[p].coupons > 0 => coupons = 0
  /\ seedLock = p \/ pc[p] \in {"serving", "lockSeed"} => SchemaIsReady

\* What a transaction has filled has no default SKU yet.
FillFits(p) == \A x \in tx[p].filled : "default" \notin skus[x]

ProcessOK(p) == LocksFit(p) /\ BatchFits(p) /\ SeedFits(p) /\ FillFits(p)

\* RunsOnce, ServingNeedsSchema, OneBackfill and NobodyCollides, and why.
StartupInv == Types /\ RunsOnce /\ \A p \in Processes : ProcessOK(p)

-----------------------------------------------------------------------------

LEMMA RecordedVersions ==
  ASSUME ledger \subseteq Rows
  PROVE  /\ Recorded \subseteq Versions
         /\ \A v \in Versions : Applied(v) <=> v \in Recorded
<1>1. \A row \in ledger : row[1] \in Versions /\ (row = <<row[1], "number">> \/ row = <<row[1], "date">>)
  BY DEF Rows
<1>2. ASSUME NEW v \in Versions, Applied(v) PROVE v \in Recorded
  <2>1. <<v, "number">>[1] = v /\ <<v, "date">>[1] = v
    OBVIOUS
  <2> QED
    BY <1>2, <2>1 DEF Applied, Recorded, Numbers
<1> QED
  BY <1>1, <1>2 DEF Applied, Recorded, Numbers

\* The step of a process that leaves the others alone.
Alone(p) ==
  /\ \E label : pc' = [pc EXCEPT ![p] = label]
  /\ \E t : tx' = [tx EXCEPT ![p] = t]
  /\ foreign' = foreign
  /\ \A q \in Processes \ {p} :
       /\ migrationLock' = q <=> migrationLock = q
       /\ seedLock' = q <=> seedLock = q
  /\ Recorded' = Recorded \/ (migrationLock = p /\ Recorded' = Versions)
  /\ accounts' = accounts \/ seedLock = p
  /\ coupons' = coupons \/ seedLock = p
  /\ \A x \in Products : "default" \in skus'[x] => "default" \in skus[x] \/ x \in tx[p].filled

LEMMA OthersKeep ==
  ASSUME StartupInv, NEW p \in Processes, Alone(p), NEW q \in Processes \ {p}
  PROVE  ProcessOK(q)'
<1>1. pc'[q] = pc[q] /\ tx'[q] = tx[q] /\ ProcessOK(q) /\ ProcessOK(p) /\ tx[q] \in Transactions
  BY DEF StartupInv, Types, Alone
<1>2. /\ migrationLock' = q <=> migrationLock = q
      /\ seedLock' = q <=> seedLock = q
      /\ foreign' = foreign
  BY DEF Alone
<1>3. LocksFit(q)'
  BY <1>1, <1>2 DEF ProcessOK, LocksFit, RequireSchema
<1>4. migrationLock = q => Recorded' = Recorded
  BY DEF Alone
<1>5. BatchFits(q)'
  BY <1>1, <1>2, <1>4 DEF ProcessOK, BatchFits
<1>6. SchemaIsReady => SchemaIsReady'
  BY <1>2 DEF Alone, SchemaIsReady
<1>7. seedLock = q => accounts' = accounts /\ coupons' = coupons
  BY DEF Alone
<1>8. SeedFits(q)'
  BY <1>1, <1>2, <1>6, <1>7 DEF ProcessOK, SeedFits
<1>9. FillFits(q)'
  <2> SUFFICES ASSUME NEW x \in tx[q].filled PROVE "default" \notin skus'[x]
    BY <1>1 DEF FillFits
  <2>1. x \in Products /\ "default" \notin skus[x]
    BY <1>1 DEF ProcessOK, FillFits, Transactions
  <2>2. \A r \in {p, q} : tx[r].filled # {} => migrationLock = r \/ seedLock = r
    BY <1>1 DEF ProcessOK, LocksFit, NoWork
  <2>3. \A r \in {p, q} : tx[r].filled # {} /\ migrationLock = r => BackfillAt \notin Recorded
    BY <1>1 DEF ProcessOK, BatchFits
  <2>4. \A r \in {p, q} : seedLock = r => BackfillAt \in Recorded
    BY <1>1, StartupIsWellFormed DEF ProcessOK, SeedFits, SchemaIsReady
  <2>5. x \notin tx[p].filled
    BY <2>2, <2>3, <2>4
  <2> QED
    BY <2>1, <2>5 DEF Alone
<1> QED
  BY <1>3, <1>5, <1>8, <1>9 DEF ProcessOK

LEMMA Keeps ==
  ASSUME StartupInv, NEW p \in Processes, Alone(p), Types', RunsOnce', ProcessOK(p)'
  PROVE  StartupInv'
  BY OthersKeep DEF StartupInv

\* Nothing that a transaction inserts can be there already.
LEMMA NoCollision ==
  ASSUME StartupInv, NEW p \in Processes, migrationLock = p \/ seedLock = p
  PROVE  ~Collides(p)
<1>1. ProcessOK(p) /\ tx[p] \in Transactions /\ ledger \subseteq Rows
  BY DEF StartupInv, Types
<1>2. ASSUME NEW v \in tx[p].applied PROVE <<v, "number">> \notin ledger
  <2>1. v \in Versions /\ v \notin Recorded
    BY <1>1 DEF ProcessOK, BatchFits, SeedFits
  <2> QED
    BY <1>1, <2>1, RecordedVersions DEF Applied
<1>3. ~(tx[p].accounts > 0 /\ accounts > 0) /\ ~(tx[p].coupons > 0 /\ coupons > 0)
  BY <1>1 DEF ProcessOK, BatchFits, SeedFits, LocksFit
<1>4. \A x \in tx[p].filled : "default" \notin skus[x]
  BY <1>1 DEF ProcessOK, FillFits
<1> QED
  BY <1>2, <1>3, <1>4 DEF Collides

LEMMA NoWorkType == NoWork \in Transactions
  BY StartupIsWellFormed DEF NoWork, Transactions, Versions

\* The end of a transaction that is rolled back, and of a process that has none.
LEMMA RefuseKeeps ==
  ASSUME StartupInv, NEW p \in Processes,
         NEW reason \in {"fault", "foreign", "pending", "price"}, Refuse(p, reason),
         UNCHANGED <<ledger, foreign, catalogue, runs>>
  PROVE  StartupInv'
<1>1. Alone(p)
  <2>1. \A q \in Processes \ {p} :
          /\ migrationLock' = q <=> migrationLock = q
          /\ seedLock' = q <=> seedLock = q
    BY StartupIsWellFormed DEF Refuse, ReleaseLocks
  <2>2. Recorded' = Recorded
    BY DEF Recorded
  <2> QED
    BY <2>1, <2>2 DEF Alone, Refuse, Goto, Work, catalogue
<1>2. pc'[p] = "failed" /\ tx'[p] = NoWork /\ migrationLock' # p /\ seedLock' # p
  BY StartupIsWellFormed DEF Refuse, Goto, Work, ReleaseLocks, StartupInv, Types
<1>3. Types'
  BY NoWorkType DEF StartupInv, Types, Refuse, Goto, Work, catalogue, Settled
<1>4. ProcessOK(p)'
  BY <1>2 DEF ProcessOK, LocksFit, BatchFits, SeedFits, FillFits, Migrating, Filling, SeedingOnly, NoWork
<1>5. RunsOnce'
  BY DEF StartupInv, RunsOnce
<1> QED
  BY <1>1, <1>3, <1>4, <1>5, Keeps

\* What a transaction is ready to commit.
Ready(p) ==
  \/ pc[p] = "batch" /\ BatchIsDone(p)
  \/ pc[p] = "commit"

\* The rows of a transaction that is ready, whichever it is.
LEMMA Published ==
  ASSUME StartupInv, NEW p \in Processes, Ready(p), Publish(p)
  PROVE  /\ RunsOnce'
         /\ ledger' \subseteq Rows
         /\ migrationLock = p => Recorded' = Versions
         /\ seedLock = p => Recorded' = Recorded /\ Recorded = Versions
         /\ migrationLock = p => accounts' = accounts /\ coupons' = coupons
         /\ accounts' \in 0..1 /\ coupons' \in 0..1
         /\ (migrationLock = p \/ seedLock = p) /\ ~foreign
<1>1. ProcessOK(p) /\ tx[p] \in Transactions /\ Types /\ RunsOnce
  BY DEF StartupInv, Types
<1>2. (migrationLock = p \/ seedLock = p) /\ (migrationLock = p => pc[p] = "batch" /\ BatchIsDone(p))
  BY <1>1 DEF Ready, ProcessOK, LocksFit, Migrating, Filling, SeedingOnly
<1>3. Recorded' = Recorded \cup tx[p].applied
  <2> DEFINE new == {<<v, "number">> : v \in tx[p].applied}
  <2>1. ledger' = ledger \cup new
    BY DEF Publish
  <2>2. \A row \in new : row[1] \in tx[p].applied
    OBVIOUS
  <2>3. \A v \in tx[p].applied : <<v, "number">> \in new /\ <<v, "number">>[1] = v
    OBVIOUS
  <2> HIDE DEF new
  <2> QED
    BY <2>1, <2>2, <2>3 DEF Recorded, Numbers
<1>4. Recorded \subseteq Versions
  BY <1>1, RecordedVersions DEF Types
<1>5. migrationLock = p => Recorded' = Versions
  <2>1. migrationLock = p => \A v \in Versions : v < tx[p].next
    BY <1>1, <1>2, StartupIsWellFormed DEF BatchIsDone, Transactions, Versions
  <2> QED
    BY <1>1, <1>3, <1>4, <2>1 DEF ProcessOK, BatchFits
<1>6. seedLock = p => Recorded' = Recorded /\ Recorded = Versions
  BY <1>1, <1>3 DEF ProcessOK, SeedFits, SchemaIsReady
<1>7. tx[p].applied \cap Recorded = {} /\ tx[p].applied \subseteq Versions
  BY <1>1, <1>2 DEF ProcessOK, BatchFits, SeedFits, Transactions
<1>8. RunsOnce'
  <2> SUFFICES ASSUME NEW v \in Versions PROVE runs'[v] = (IF v \in Recorded' THEN 1 ELSE 0)
    BY DEF RunsOnce, Recorded
  <2>1. runs'[v] = IF v \in tx[p].applied THEN runs[v] + 1 ELSE runs[v]
    BY DEF Publish
  <2>2. runs[v] = IF v \in Recorded THEN 1 ELSE 0
    BY <1>1 DEF RunsOnce, Recorded
  <2> QED
    BY <1>3, <1>7, <2>1, <2>2
<1>9. ledger' \subseteq Rows
  BY <1>1, <1>7 DEF Publish, Types, Rows
<1>10. accounts' \in 0..1 /\ coupons' \in 0..1
       /\ (migrationLock = p => accounts' = accounts /\ coupons' = coupons)
  BY <1>1, <1>2 DEF Publish, ProcessOK, BatchFits, SeedFits, Types, Transactions
<1>11. ~foreign
  BY <1>1, <1>2 DEF ProcessOK, BatchFits, SeedFits, SchemaIsReady
<1> QED
  BY <1>2, <1>5, <1>6, <1>8, <1>9, <1>10, <1>11

\* The end of a transaction that is committed, whether its process learns so or not.
LEMMA PublishKeeps ==
  ASSUME StartupInv, NEW p \in Processes, Ready(p), Publish(p), ReleaseLocks(p),
         NEW label \in {"failed", "exited", "serving", "lockSeed"}, Goto(p, label), Work(p, NoWork),
         why' = why \/ why' = [why EXCEPT ![p] = "fault"], UNCHANGED foreign
  PROVE  StartupInv'
<1>1. /\ RunsOnce' /\ ledger' \subseteq Rows /\ ~foreign
      /\ migrationLock = p => Recorded' = Versions
      /\ seedLock = p => Recorded' = Recorded /\ Recorded = Versions
      /\ migrationLock = p => accounts' = accounts /\ coupons' = coupons
      /\ accounts' \in 0..1 /\ coupons' \in 0..1
      /\ migrationLock = p \/ seedLock = p
  BY Published
<1>2. Types /\ tx[p] \in Transactions
  BY DEF StartupInv, Types
<1>3. \A x \in Products : skus'[x] = IF x \in tx[p].filled THEN skus[x] \cup {"default"} ELSE skus[x]
  BY DEF Publish
<1>4. Alone(p)
  BY <1>1, <1>3, StartupIsWellFormed DEF Alone, Goto, Work, ReleaseLocks
<1>5. Types'
  <2>1. products' \in [Products -> {"absent", "live", "deleted"}]
    BY <1>2 DEF Publish, Types
  <2>2. skus' \in [Products -> SUBSET {"own", "default"}]
    BY <1>2 DEF Publish, Types
  <2>3. pc' \in [Processes -> Starting \cup Settled] /\ tx' \in [Processes -> Transactions]
    BY <1>2, NoWorkType DEF Goto, Work, Types, Starting, Settled
  <2>4. why' \in [Processes -> {"none", "fault", "foreign", "pending", "price"}]
    BY <1>2 DEF Types
  <2> QED
    BY <1>1, <2>1, <2>2, <2>3, <2>4 DEF Types
<1>6. pc'[p] = label /\ tx'[p] = NoWork /\ migrationLock' # p /\ seedLock' # p
  BY <1>2, StartupIsWellFormed DEF Goto, Work, ReleaseLocks, Types
<1>7. SchemaIsReady'
  BY <1>1 DEF SchemaIsReady
<1>8. ProcessOK(p)'
  BY <1>6, <1>7
     DEF ProcessOK, LocksFit, BatchFits, SeedFits, FillFits, Migrating, Filling, SeedingOnly, NoWork
<1> QED
  BY <1>1, <1>4, <1>5, <1>8, Keeps

-----------------------------------------------------------------------------
\* A step within a transaction, which publishes nothing and keeps its lock.
LEMMA WorkKeeps ==
  ASSUME StartupInv, NEW p \in Processes, NEW label \in Starting, NEW t \in Transactions,
         pc' = [pc EXCEPT ![p] = label], tx' = [tx EXCEPT ![p] = t],
         UNCHANGED <<ledger, foreign, catalogue, locks, why, runs>>,
         ProcessOK(p)'
  PROVE  StartupInv'
<1>1. UNCHANGED Recorded
  BY DEF Recorded
<1>2. Alone(p)
  BY <1>1 DEF Alone, locks, catalogue
<1>3. Types' /\ RunsOnce'
  BY DEF StartupInv, Types, RunsOnce, catalogue
<1> QED
  BY <1>2, <1>3, Keeps

LEMMA BootKeeps ==
  ASSUME StartupInv, NEW p \in Processes, Boot(p) \/ Stop(p)
  PROVE  StartupInv'
<1>1. ProcessOK(p) /\ Types
  BY DEF StartupInv
<1>2. UNCHANGED <<ledger, foreign, catalogue, locks, tx, runs, Recorded>>
  BY DEF Boot, Stop, history, Recorded
<1>3. Alone(p)
  <2>1. \E label : pc' = [pc EXCEPT ![p] = label]
    BY DEF Boot, Stop, Goto
  <2>2. tx' = [tx EXCEPT ![p] = tx[p]]
    BY <1>1, <1>2 DEF Types
  <2> QED
    BY <1>2, <2>1, <2>2 DEF Alone, locks, catalogue
<1>4. Types' /\ RunsOnce'
  BY <1>1, <1>2 DEF Boot, Stop, Goto, Types, StartupInv, RunsOnce, catalogue, Starting, Settled
<1>5. pc[p] \in {"down", "failed", "serving"} /\ pc'[p] \in {"down", "lock", "check"}
      /\ (pc'[p] = "check" => RequireSchema(p))
  BY <1>1 DEF Boot, Stop, Goto, Types, RequireSchema
<1>6. migrationLock # p /\ seedLock # p /\ tx[p] = NoWork
  BY <1>1, <1>5 DEF ProcessOK, LocksFit, Migrating, Filling, SeedingOnly
<1>7. ProcessOK(p)'
  BY <1>2, <1>5, <1>6
     DEF ProcessOK, LocksFit, BatchFits, SeedFits, FillFits, Migrating, Filling, SeedingOnly, NoWork,
         locks, RequireSchema
<1> QED
  BY <1>3, <1>4, <1>7, Keeps

LEMMA LockKeeps ==
  ASSUME StartupInv, NEW p \in Processes, LockMigrations(p) \/ LockSeed(p)
  PROVE  StartupInv'
<1>1. ProcessOK(p) /\ Types
  BY DEF StartupInv
<1>2. CASE LockMigrations(p) /\ foreign
  BY <1>2, RefuseKeeps DEF LockMigrations, history
<1>3. CASE (LockMigrations(p) /\ ~foreign) \/ LockSeed(p)
  <2>1. UNCHANGED <<ledger, foreign, catalogue, tx, why, runs, Recorded>>
    BY <1>3 DEF LockMigrations, LockSeed, history, Recorded
  <2>2. /\ pc[p] \in {"lock", "lockSeed"} /\ migrationLock # p /\ seedLock # p /\ tx[p] = NoWork
        /\ pc[p] = "lockSeed" => SchemaIsReady
    BY <1>1, <1>3
       DEF LockMigrations, LockSeed, ProcessOK, LocksFit, SeedFits, Migrating, Filling, SeedingOnly
  <2>3. \/ /\ migrationLock = Nobody /\ migrationLock' = p /\ seedLock' = seedLock /\ ~foreign
           /\ pc' = [pc EXCEPT ![p] = "batch"]
        \/ /\ seedLock = Nobody /\ seedLock' = p /\ migrationLock' = migrationLock
           /\ pc' = [pc EXCEPT ![p] = "accounts"] /\ pc[p] = "lockSeed"
    BY <1>3 DEF LockMigrations, LockSeed, MigrationLockFree, SeedLockFree, Goto
  <2>4. Alone(p)
    <3>1. tx' = [tx EXCEPT ![p] = tx[p]]
      BY <1>1, <2>1 DEF Types
    <3>2. \A q \in Processes \ {p} :
            /\ migrationLock' = q <=> migrationLock = q
            /\ seedLock' = q <=> seedLock = q
      BY <2>3, StartupIsWellFormed
    <3>3. \E label : pc' = [pc EXCEPT ![p] = label]
      BY <2>3
    <3> QED
      BY <2>1, <3>1, <3>2, <3>3 DEF Alone, catalogue
  <2>5. Types' /\ RunsOnce'
    BY <1>1, <2>1, <2>3 DEF Types, StartupInv, RunsOnce, catalogue, Starting
  <2>6. ProcessOK(p)'
    <3>1. CASE migrationLock' = p /\ pc'[p] = "batch" /\ seedLock' = seedLock /\ ~foreign
      <4>1. LocksFit(p)' /\ SeedFits(p)' /\ FillFits(p)'
        BY <2>1, <2>2, <3>1
           DEF LocksFit, SeedFits, FillFits, Migrating, Filling, SeedingOnly, NoWork
      <4>2. {v \in Versions : v < 1 /\ v \notin Recorded} = {}
        BY StartupIsWellFormed DEF Versions
      <4>3. BatchFits(p)'
        BY <2>1, <2>2, <3>1, <4>2 DEF BatchFits, Filling, NoWork
      <4> QED
        BY <4>1, <4>3 DEF ProcessOK
    <3>2. CASE seedLock' = p /\ pc'[p] = "accounts" /\ migrationLock' = migrationLock /\ SchemaIsReady
      BY <2>1, <2>2, <3>2
         DEF ProcessOK, LocksFit, BatchFits, SeedFits, FillFits, SchemaIsReady, Migrating, Filling,
             SeedingOnly, NoWork
    <3> QED
      BY <1>1, <2>2, <2>3, <3>1, <3>2 DEF Types
  <2> QED
    BY <2>4, <2>5, <2>6, Keeps
<1> QED
  BY <1>2, <1>3

LEMMA ApplyKeeps ==
  ASSUME StartupInv, NEW p \in Processes, ApplyNext(p)
  PROVE  StartupInv'
<1> DEFINE v == tx[p].next
<1>1. ProcessOK(p) /\ Types /\ tx[p] \in Transactions
  BY DEF StartupInv, Types
<1>2. /\ UNCHANGED <<ledger, foreign, catalogue, locks, why, runs, Recorded>>
      /\ migrationLock = p /\ seedLock # p /\ pc[p] = "batch" /\ v \in Versions
  <2>1. v <= Last /\ v \in 1..(Last + 1)
    BY <1>1, StartupIsWellFormed DEF ApplyNext, BatchIsDone, Transactions
  <2> QED
    BY <1>1, <2>1, StartupIsWellFormed
       DEF ApplyNext, history, Recorded, ProcessOK, LocksFit, Migrating, Versions
<1>3. Applied(v) <=> v \in Recorded
  BY <1>1, <1>2, RecordedVersions DEF Types
<1>4. CASE v = BackfillAt /\ ~Applied(v)
  <2>1. pc' = [pc EXCEPT ![p] = "list"] /\ tx' = [tx EXCEPT ![p] = tx[p]]
    BY <1>1, <1>4 DEF ApplyNext, Goto, Types
  <2>2. ProcessOK(p)'
    BY <1>1, <1>2, <1>3, <1>4, <2>1
       DEF ProcessOK, LocksFit, BatchFits, SeedFits, FillFits, Migrating, Filling, SeedingOnly, Types,
           locks, catalogue
  <2> QED
    BY <1>1, <1>2, <2>1, <2>2, WorkKeeps DEF Starting
<1>5. CASE ~(v = BackfillAt /\ ~Applied(v))
  <2> DEFINE applied == IF Applied(v) THEN tx[p].applied ELSE tx[p].applied \cup {v}
             t == [tx[p] EXCEPT !.next = v + 1, !.applied = applied]
  <2>1. tx' = [tx EXCEPT ![p] = t] /\ pc' = [pc EXCEPT ![p] = "batch"]
    BY <1>1, <1>2, <1>5 DEF ApplyNext, Work, Types
  <2>2. applied = {w \in Versions : w < v + 1 /\ w \notin Recorded}
    BY <1>1, <1>2, <1>3, StartupIsWellFormed DEF ProcessOK, BatchFits, Versions
  <2> HIDE DEF applied
  <2>3. /\ t \in Transactions /\ t.next = v + 1 /\ t.applied = applied /\ t.filled = tx[p].filled
        /\ t.accounts = tx[p].accounts /\ t.coupons = tx[p].coupons
    <3>1. v + 1 \in 1..(Last + 1)
      BY <1>2, StartupIsWellFormed DEF Versions
    <3>2. applied \in SUBSET Versions
      BY <2>2
    <3> QED
      BY <1>1, <3>1, <3>2 DEF Transactions
  <2> HIDE DEF t
  <2>4. pc'[p] = "batch" /\ tx'[p] = t
    BY <1>1, <2>1 DEF Types
  <2>5. ProcessOK(p)'
    BY <1>1, <1>2, <2>2, <2>3, <2>4
       DEF ProcessOK, LocksFit, BatchFits, SeedFits, FillFits, Migrating, Filling, SeedingOnly,
           locks, catalogue
  <2> QED
    BY <1>2, <2>1, <2>3, <2>5, WorkKeeps DEF Starting
<1> QED
  BY <1>4, <1>5

LEMMA CommitKeeps ==
  ASSUME StartupInv, NEW p \in Processes, CommitBatch(p) \/ CommitSeed(p)
  PROVE  StartupInv'
<1>1. migrationLock = p \/ seedLock = p
  BY DEF CommitBatch, CommitSeed, StartupInv, ProcessOK, LocksFit, SeedingOnly
<1>2. ~Collides(p)
  BY <1>1, NoCollision
<1>3. PICK label \in {"exited", "serving", "lockSeed"} : Commit(p, label)
  BY DEF CommitBatch, CommitSeed, AfterSchema
<1> QED
  BY <1>2, <1>3, PublishKeeps DEF Commit, Ready, CommitBatch, CommitSeed

LEMMA LoseCommitKeeps ==
  ASSUME StartupInv, NEW p \in Processes, LoseCommit(p)
  PROVE  StartupInv'
  BY PublishKeeps DEF LoseCommit, Refuse, Ready

LEMMA CheckKeeps ==
  ASSUME StartupInv, NEW p \in Processes, CheckSchema(p)
  PROVE  StartupInv'
<1>1. /\ ProcessOK(p) /\ Types /\ pc[p] = "check"
      /\ UNCHANGED <<ledger, foreign, catalogue, runs, Recorded>>
  BY DEF CheckSchema, StartupInv, history, Recorded
<1>2. CASE \E reason \in {"foreign", "pending"} : Refuse(p, reason)
  BY <1>1, <1>2, RefuseKeeps
<1>3. CASE ~\E reason \in {"foreign", "pending"} : Refuse(p, reason)
  <2>1. /\ ~foreign /\ Pending = {} /\ UNCHANGED <<locks, why, tx>> /\ Goto(p, AfterSchema(p))
    BY <1>1, <1>3 DEF CheckSchema, ProcessOK, LocksFit
  <2>2. SchemaIsReady
    BY <1>1, <2>1, RecordedVersions DEF Pending, SchemaIsReady, Types
  <2>3. AfterSchema(p) \in {"exited", "serving", "lockSeed"}
    BY DEF AfterSchema
  <2> DEFINE label == AfterSchema(p)
  <2> HIDE DEF label
  <2>4. pc' = [pc EXCEPT ![p] = label] /\ tx' = [tx EXCEPT ![p] = tx[p]] /\ pc'[p] = label
    BY <1>1, <2>1 DEF Goto, Types, label
  <2>5. label \in {"exited", "serving", "lockSeed"}
    BY <2>3 DEF label
  <2>6. Alone(p)
    BY <1>1, <2>1, <2>4 DEF Alone, locks, catalogue
  <2>7. Types' /\ RunsOnce'
    BY <1>1, <2>1, <2>4, <2>5 DEF Types, StartupInv, RunsOnce, catalogue, Starting, Settled
  <2>8. migrationLock # p /\ seedLock # p
    BY <1>1 DEF ProcessOK, LocksFit, Migrating, Filling, SeedingOnly
  <2>9. ProcessOK(p)'
    BY <1>1, <2>1, <2>2, <2>4, <2>5, <2>8
       DEF ProcessOK, LocksFit, BatchFits, SeedFits, FillFits, SchemaIsReady, Migrating, Filling,
           SeedingOnly, locks, catalogue, NoWork
  <2> QED
    BY <2>6, <2>7, <2>9, Keeps
<1> QED
  BY <1>2, <1>3

\* The backfill, in a batch or in a seed.
LEMMA FillKeeps ==
  ASSUME StartupInv, NEW p \in Processes, ListProducts(p) \/ FillProduct(p) \/ Filled(p)
  PROVE  StartupInv'
<1>1. /\ ProcessOK(p) /\ Types /\ tx[p] \in Transactions /\ pc[p] \in Filling
      /\ UNCHANGED <<ledger, foreign, catalogue, runs, Recorded>>
  BY DEF ListProducts, FillProduct, Filled, StartupInv, Types, history, Recorded, Filling
<1>2. migrationLock = p \/ seedLock = p
  BY <1>1 DEF ProcessOK, LocksFit
<1>3. CASE ListProducts(p)
  <2> DEFINE todo == Live \cup tx[p].demo
             t == [tx[p] EXCEPT !.todo = todo]
  <2>1. tx' = [tx EXCEPT ![p] = t] /\ pc' = [pc EXCEPT ![p] = "fill"] /\ UNCHANGED <<locks, why>>
    BY <1>3 DEF ListProducts, Goto, Work
  <2>2. todo \in SUBSET Products
    BY <1>1 DEF Live, Transactions
  <2> HIDE DEF todo
  <2>3. /\ t \in Transactions /\ t.next = tx[p].next /\ t.applied = tx[p].applied
        /\ t.filled = tx[p].filled /\ t.accounts = tx[p].accounts /\ t.coupons = tx[p].coupons
    BY <1>1, <2>2 DEF Transactions
  <2> HIDE DEF t
  <2>4. tx'[p] = t /\ pc'[p] = "fill"
    BY <1>1, <2>1 DEF Types
  <2>5. ProcessOK(p)'
    BY <1>1, <1>2, <2>1, <2>3, <2>4
       DEF ProcessOK, LocksFit, BatchFits, SeedFits, FillFits, SchemaIsReady, Migrating, Filling,
           SeedingOnly, locks, catalogue
  <2> QED
    BY <1>1, <2>1, <2>3, <2>5, WorkKeeps DEF Starting
<1>4. CASE FillProduct(p)
  <2>1. PICK x \in tx[p].todo :
          IF skus[x] = {} /\ x \in Oversized
            THEN Refuse(p, "price")
            ELSE /\ Work(p, [tx[p] EXCEPT !.todo = @ \ {x},
                                          !.filled = IF skus[x] = {} THEN @ \cup {x} ELSE @])
                 /\ UNCHANGED <<pc, why, locks>>
    BY <1>4 DEF FillProduct
  <2>2. CASE Refuse(p, "price")
    BY <1>1, <2>2, RefuseKeeps
  <2>3. CASE ~Refuse(p, "price")
    <3> DEFINE filled == IF skus[x] = {} THEN tx[p].filled \cup {x} ELSE tx[p].filled
               todo == tx[p].todo \ {x}
               t == [tx[p] EXCEPT !.todo = todo, !.filled = filled]
    <3>1. tx' = [tx EXCEPT ![p] = t] /\ UNCHANGED <<pc, locks, why>>
      BY <1>1, <2>1, <2>3 DEF Work, Transactions
    <3>2. /\ filled \in SUBSET Products /\ todo \in SUBSET Products
          /\ \A y \in filled : "default" \notin skus[y]
      BY <1>1 DEF Transactions, ProcessOK, FillFits
    <3> HIDE DEF filled, todo
    <3>3. /\ t \in Transactions /\ t.next = tx[p].next /\ t.applied = tx[p].applied
          /\ t.filled = filled /\ t.accounts = tx[p].accounts /\ t.coupons = tx[p].coupons
      BY <1>1, <3>2 DEF Transactions
    <3> HIDE DEF t
    <3>4. tx'[p] = t /\ pc'[p] = pc[p] /\ pc' = [pc EXCEPT ![p] = pc[p]]
      BY <1>1, <3>1 DEF Types
    <3>5. ProcessOK(p)'
      BY <1>1, <1>2, <3>1, <3>2, <3>3, <3>4
         DEF ProcessOK, LocksFit, BatchFits, SeedFits, FillFits, SchemaIsReady, Migrating, Filling,
             SeedingOnly, locks, catalogue
    <3> QED
      BY <1>1, <3>1, <3>3, <3>4, <3>5, WorkKeeps DEF Starting, Filling
  <2> QED
    BY <2>2, <2>3
<1>5. CASE Filled(p) /\ seedLock = p
  <2>1. tx' = [tx EXCEPT ![p] = tx[p]] /\ pc' = [pc EXCEPT ![p] = "coupons"] /\ UNCHANGED <<locks, why>>
    BY <1>1, <1>5 DEF Filled, Goto, Types
  <2>2. ProcessOK(p)'
    BY <1>1, <1>5, <2>1
       DEF Types, ProcessOK, LocksFit, BatchFits, SeedFits, FillFits, SchemaIsReady, Migrating, Filling,
           SeedingOnly, locks, catalogue
  <2> QED
    BY <1>1, <2>1, <2>2, WorkKeeps DEF Starting
<1>6. CASE Filled(p) /\ seedLock # p
  <2> DEFINE applied == tx[p].applied \cup {BackfillAt}
             t == [tx[p] EXCEPT !.next = BackfillAt + 1, !.applied = applied]
  <2>1. tx' = [tx EXCEPT ![p] = t] /\ pc' = [pc EXCEPT ![p] = "batch"] /\ UNCHANGED <<locks, why>>
    BY <1>1, <1>6 DEF Filled, Goto, Work, Transactions
  <2>2. migrationLock = p /\ tx[p].next = BackfillAt /\ BackfillAt \notin Recorded
    BY <1>1, <1>2, <1>6 DEF ProcessOK, BatchFits
  <2>3. applied = {v \in Versions : v < BackfillAt + 1 /\ v \notin Recorded}
    BY <1>1, <2>2, StartupIsWellFormed DEF ProcessOK, BatchFits, Versions
  <2>4. applied \in SUBSET Versions /\ BackfillAt + 1 \in 1..(Last + 1)
    BY <2>3, StartupIsWellFormed DEF Versions
  <2> HIDE DEF applied
  <2>5. /\ t \in Transactions /\ t.next = BackfillAt + 1 /\ t.applied = applied
        /\ t.filled = tx[p].filled /\ t.accounts = tx[p].accounts /\ t.coupons = tx[p].coupons
    BY <1>1, <2>4 DEF Transactions
  <2> HIDE DEF t
  <2>6. tx'[p] = t /\ pc'[p] = "batch"
    BY <1>1, <2>1 DEF Types
  <2>7. ProcessOK(p)'
    BY <1>1, <1>6, <2>1, <2>2, <2>3, <2>5, <2>6
       DEF ProcessOK, LocksFit, BatchFits, SeedFits, FillFits, Migrating, Filling, SeedingOnly,
           locks, catalogue
  <2> QED
    BY <1>1, <2>1, <2>5, <2>7, WorkKeeps DEF Starting
<1> QED
  BY <1>3, <1>4, <1>5, <1>6

\* The rest of a seed.
LEMMA SeedKeeps ==
  ASSUME StartupInv, NEW p \in Processes, SeedAccounts(p) \/ SeedProducts(p) \/ SeedCoupons(p)
  PROVE  StartupInv'
<1>1. /\ ProcessOK(p) /\ Types /\ tx[p] \in Transactions
      /\ pc[p] \in {"accounts", "products", "coupons"}
      /\ UNCHANGED <<ledger, foreign, catalogue, locks, why, runs, Recorded>>
  BY DEF SeedAccounts, SeedProducts, SeedCoupons, StartupInv, Types, history, Recorded
<1>2. seedLock = p /\ migrationLock # p
  BY <1>1 DEF ProcessOK, LocksFit, SeedingOnly
<1>3. PICK t \in Transactions, label \in {"products", "list", "commit"} :
        /\ tx' = [tx EXCEPT ![p] = t] /\ pc' = [pc EXCEPT ![p] = label]
        /\ t.applied = {} /\ t.filled = tx[p].filled
        /\ t.accounts > 0 => accounts = 0
        /\ t.coupons > 0 => coupons = 0
  <2>1. /\ tx[p].applied = {}
        /\ tx[p].accounts > 0 => accounts = 0
        /\ tx[p].coupons > 0 => coupons = 0
    BY <1>1, <1>2 DEF ProcessOK, SeedFits
  <2>2. CASE SeedAccounts(p)
    <3> DEFINE n == IF accounts = 0 THEN 1 ELSE 0
               t == [tx[p] EXCEPT !.accounts = n]
    <3>1. n \in 0..1 /\ (n > 0 => accounts = 0)
      OBVIOUS
    <3>2. tx' = [tx EXCEPT ![p] = t] /\ pc' = [pc EXCEPT ![p] = "products"]
      BY <2>2 DEF SeedAccounts, Work, Goto
    <3> HIDE DEF n
    <3>3. /\ t \in Transactions /\ t.applied = tx[p].applied /\ t.filled = tx[p].filled
          /\ t.accounts = n /\ t.coupons = tx[p].coupons
      BY <1>1, <3>1 DEF Transactions
    <3> QED
      BY <2>1, <3>1, <3>2, <3>3
  <2>3. CASE SeedProducts(p) /\ UNCHANGED tx
    <3>1. tx' = [tx EXCEPT ![p] = tx[p]] /\ pc' = [pc EXCEPT ![p] = "list"]
      BY <1>1, <2>3 DEF SeedProducts, Goto, Types
    <3> QED
      BY <1>1, <2>1, <3>1
  <2>4. CASE SeedProducts(p) /\ ~UNCHANGED tx
    <3> DEFINE fresh == {CHOOSE x \in FreshDemo : TRUE}
               t == [tx[p] EXCEPT !.demo = fresh]
    <3>1. fresh \in SUBSET Products
      <4>1. FreshDemo # {}
        BY <2>4 DEF SeedProducts
      <4> QED
        BY <4>1, StartupIsWellFormed DEF FreshDemo
    <3>2. tx' = [tx EXCEPT ![p] = t] /\ pc' = [pc EXCEPT ![p] = "list"]
      BY <2>4 DEF SeedProducts, Work, Goto
    <3> HIDE DEF fresh
    <3>3. /\ t \in Transactions /\ t.applied = tx[p].applied /\ t.filled = tx[p].filled
          /\ t.accounts = tx[p].accounts /\ t.coupons = tx[p].coupons
      BY <1>1, <3>1 DEF Transactions
    <3> QED
      BY <2>1, <3>2, <3>3
  <2>5. CASE SeedCoupons(p)
    <3> DEFINE n == IF coupons = 0 THEN 1 ELSE 0
               t == [tx[p] EXCEPT !.coupons = n]
    <3>1. n \in 0..1 /\ (n > 0 => coupons = 0)
      OBVIOUS
    <3>2. tx' = [tx EXCEPT ![p] = t] /\ pc' = [pc EXCEPT ![p] = "commit"]
      BY <2>5 DEF SeedCoupons, Work, Goto
    <3> HIDE DEF n
    <3>3. /\ t \in Transactions /\ t.applied = tx[p].applied /\ t.filled = tx[p].filled
          /\ t.accounts = tx[p].accounts /\ t.coupons = n
      BY <1>1, <3>1 DEF Transactions
    <3> QED
      BY <2>1, <3>1, <3>2, <3>3
  <2> QED
    BY <2>2, <2>3, <2>4, <2>5
<1>4. tx'[p] = t /\ pc'[p] = label
  BY <1>1, <1>3 DEF Types
<1>5. ProcessOK(p)'
  BY <1>1, <1>2, <1>3, <1>4
     DEF ProcessOK, LocksFit, BatchFits, SeedFits, FillFits, SchemaIsReady, Migrating, Filling,
         SeedingOnly, locks, catalogue
<1> QED
  BY <1>1, <1>3, <1>5, WorkKeeps DEF Starting

LEMMA StartupInit == Init => StartupInv
<1> SUFFICES ASSUME Init PROVE StartupInv
  OBVIOUS
<1>1. /\ pc = [p \in Processes |-> "down"] /\ tx = [p \in Processes |-> NoWork]
      /\ migrationLock = Nobody /\ seedLock = Nobody /\ accounts = 0 /\ coupons = 0
  BY DEF Init
<1>2. Types
  <2>1. products \in [Products -> {"absent", "live", "deleted"}]
        /\ skus \in [Products -> SUBSET {"own", "default"}]
    BY DEF Init
  <2>2. ledger \subseteq Rows /\ why \in [Processes -> {"none", "fault", "foreign", "pending", "price"}]
    BY StartupIsWellFormed DEF Init
  <2> QED
    BY <1>1, <2>1, <2>2, NoWorkType DEF Types, Settled
<1>3. RunsOnce
  BY DEF Init, RunsOnce
<1>4. ASSUME NEW p \in Processes PROVE ProcessOK(p)
  BY <1>1, StartupIsWellFormed
     DEF ProcessOK, LocksFit, BatchFits, SeedFits, FillFits, Migrating, Filling, SeedingOnly, NoWork
<1> QED
  BY <1>2, <1>3, <1>4 DEF StartupInv

LEMMA StartupStep == StartupInv /\ [Next]_vars => StartupInv'
<1> SUFFICES ASSUME StartupInv, [Next]_vars PROVE StartupInv'
  OBVIOUS
<1>1. CASE UNCHANGED vars
  BY <1>1
     DEF vars, catalogue, locks, history, StartupInv, Types, RunsOnce, Recorded, ProcessOK, LocksFit,
         BatchFits, SeedFits, FillFits, SchemaIsReady, RequireSchema
<1>2. ASSUME NEW p \in Processes, Boot(p) \/ Stop(p) \/ Proceed(p) \/ LoseCommit(p)
      PROVE  StartupInv'
  BY <1>2, BootKeeps, LockKeeps, ApplyKeeps, CommitKeeps, CheckKeeps, FillKeeps, SeedKeeps,
     LoseCommitKeeps
  DEF Proceed
<1>3. ASSUME NEW p \in Processes, Fail(p) PROVE StartupInv'
  BY <1>3, RefuseKeeps DEF Fail
<1>4. ASSUME NEW x \in Products, CreateProduct(x) \/ DeleteProduct(x) \/ CreateSKU(x)
      PROVE  StartupInv'
  <2>1. /\ UNCHANGED <<ledger, foreign, accounts, coupons, locks, pc, why, tx, runs, Recorded>>
        /\ \A y \in Products : "default" \in skus'[y] => "default" \in skus[y]
    BY <1>4 DEF CreateProduct, DeleteProduct, CreateSKU, history, Recorded, StartupInv, Types
  <2>2. Types' /\ RunsOnce'
    BY <1>4, <2>1 DEF CreateProduct, DeleteProduct, CreateSKU, StartupInv, Types, RunsOnce
  <2>3. ASSUME NEW p \in Processes PROVE ProcessOK(p)'
    <3>1. ProcessOK(p) /\ tx[p].filled \subseteq Products
      BY DEF StartupInv, Types, Transactions
    <3>2. FillFits(p)'
      BY <2>1, <3>1 DEF ProcessOK, FillFits
    <3> QED
      BY <2>1, <3>1, <3>2 DEF ProcessOK, LocksFit, BatchFits, SeedFits, SchemaIsReady, RequireSchema, locks
  <2> QED
    BY <2>2, <2>3 DEF StartupInv
<1> QED
  BY <1>1, <1>2, <1>3, <1>4 DEF Next

LEMMA StartupInvariant == Spec => []StartupInv
  BY StartupInit, StartupStep, PTL DEF Spec

-----------------------------------------------------------------------------
\* However many processes migrate the same database at the same time, with faults and
\* lost commits, and whatever identifiers the rows have, a migration takes effect
\* once (Migrate, migrate.go:104).
THEOREM MigrationsRunOnce == Spec => []RunsOnce
  BY StartupInvariant, PTL DEF StartupInv

\* Pending migrations are committed together or not at all (migrate.go:104): the
\* ledger changes from one that misses some of them to the complete one.
THEOREM MigrationsAreAtomic == Spec => AllOrNothing
<1>1. ASSUME StartupInv, [Next]_vars, ledger' # ledger
      PROVE  Numbers(ledger') = Versions
  <2>1. PICK p \in Processes : Publish(p) /\ Ready(p)
    BY <1>1
       DEF Next, vars, history, catalogue, Boot, Stop, Fail, LoseCommit, Refuse, Proceed, LockMigrations,
           ApplyNext, CommitBatch, CommitSeed, Commit, CheckSchema, ListProducts, FillProduct,
           Filled, LockSeed, SeedAccounts, SeedProducts, SeedCoupons, CreateProduct, DeleteProduct,
           CreateSKU, Ready
  <2>2. Recorded' = Versions
    BY <1>1, <2>1, Published
  <2> QED
    BY <2>2 DEF Recorded
<1>2. StartupInv /\ [Next]_vars => [ledger' # ledger => Numbers(ledger') = Versions]_vars
  BY <1>1
<1> QED
  BY <1>2, StartupInvariant, PTL DEF Spec, AllOrNothing

\* A server that is up has the schema that it was built for, also one that does
\* not migrate (CheckSchema, migrate.go:168).
THEOREM SchemaIsComplete == Spec => []ServingNeedsSchema
<1>1. StartupInv => ServingNeedsSchema
  BY DEF StartupInv, ProcessOK, SeedFits, SchemaIsReady, Recorded, ServingNeedsSchema
<1> QED
  BY <1>1, StartupInvariant, PTL

\* The two advisory locks (migrate.go:110, seed.go:26) let no two processes make
\* default SKUs at the same time.
THEOREM BackfillIsExclusive == Spec => []OneBackfill
<1>1. StartupInv => OneBackfill
  <2> SUFFICES ASSUME StartupInv PROVE OneBackfill
    OBVIOUS
  <2> DEFINE S == {p \in Processes : pc[p] \in {"list", "fill"}}
  <2>1. ASSUME NEW p \in S, NEW q \in S PROVE p = q
    <3>1. \A r \in {p, q} :
            /\ migrationLock = r \/ seedLock = r
            /\ migrationLock = r => BackfillAt \notin Recorded
            /\ seedLock = r => BackfillAt \in Recorded
      BY StartupIsWellFormed
         DEF StartupInv, ProcessOK, LocksFit, BatchFits, SeedFits, SchemaIsReady, Filling
    <3> QED
      BY <3>1
  <2>2. S = {} \/ \E p \in S : S = {p}
    BY <2>1
  <2>3. Cardinality(S) <= 1
    <3> HIDE DEF S
    <3>1. CASE S = {}
      BY <3>1, FS_EmptySet
    <3>2. ASSUME NEW p \in S, S = {p} PROVE Cardinality(S) = 1
      BY <3>2, FS_Singleton
    <3> QED
      BY <2>2, <3>1, <3>2
  <2> QED
    BY <2>3 DEF OneBackfill
<1> QED
  BY <1>1, StartupInvariant, PTL

\* No process fails because another one prepares the same database: its rows never
\* meet a unique index (migrate.go:110, seed.go:26).
THEOREM NoConflict == Spec => []NobodyCollides
<1>1. StartupInv => NobodyCollides
  BY DEF StartupInv, Types, NobodyCollides
<1> QED
  BY <1>1, StartupInvariant, PTL
=============================================================================
