---------------------------- MODULE ProductCache ----------------------------
(***************************************************************************)
(* One product, its copy in Redis, the detail requests that read it        *)
(* (ProductService.Detail) and the operators' requests that write it       *)
(* (Update, Patch, Delete, CreateSKU, UpdateSKU), all of                   *)
(* internal/service/service.go and product_patch.go over                   *)
(* internal/repository/repository.go and internal/cache/product.go.        *)
(*                                                                         *)
(* A column holds the name of the request that wrote it last, which is all *)
(* that freshness is about; "skus" stands for the rows of the SKUs.  There *)
(* is no absolute time: Tick ages the entry, the requests and the values.  *)
(***************************************************************************)
EXTENDS Naturals

CONSTANTS
  Readers, Writers,
  Operation,       \* Operation[w]: one of Operations
  Supplied,        \* Supplied[w]: the product columns that w gives a value
  NewStatus,       \* NewStatus[w]: the status that w gives, or Unchanged
  Columns,         \* the columns of the product row but the status
  TTL, Jitter,     \* ProductCacheTTL, and the random part added to it
  RequestTimeout,
  First,           \* the writer of the initial row
  Unchanged, NoEntry, NoOne

Operations == {"update", "patch", "delete", "createSKU", "updateSKU"}
AllColumns == Columns \cup {"skus"}
Authors == Writers \cup {First}

ASSUME WritersAreWellFormed ==
  /\ Operation \in [Writers -> Operations]
  /\ Supplied \in [Writers -> SUBSET Columns]
  /\ \A w \in Writers : Operation[w] = "update" => Supplied[w] = Columns
  /\ NewStatus \in [Writers -> {"draft", "on_sale", "sold_out", Unchanged}]
  /\ \A w \in Writers : Operation[w] = "update" => NewStatus[w] # Unchanged
  /\ "skus" \notin Columns
  /\ First \notin Writers /\ NoOne \notin Writers
  /\ Readers \cap Writers = {}

ASSUME NoEntryIsNone == NoEntry \notin [content : [AllColumns -> Authors], left : Nat]

ASSUME TimesAreNatural == {TTL, Jitter, RequestTimeout} \subseteq Nat /\ TTL > 0

VARIABLES
  content,   \* content[c]: the author of column c, as committed
  status,    \* the status column
  deleted,   \* deleted_at is set
  lock,      \* the writer that holds the row lock of the product
  entry,     \* the copy in Redis: its content and the ticks left, or NoEntry
  pc,        \* pc[p]: the next statement of request p
  copy,      \* copy[p]: what p has read
  elapsed,   \* elapsed[r]: ticks since detail request r arrived
  age,       \* history: age[c][a] ticks ago column c stopped to be a's
  shownAge,  \* history: how old the copy was when r got it
  seenPublic,\* history: detail requests during which the product was public
  supplier,  \* history: supplier[c] committed the last value for column c
  excused    \* history: the entry outlived an invalidation that failed or came early

row == <<content, status, deleted, lock, age, supplier>>
requests == <<pc, copy, elapsed, shownAge>>
vars == <<row, entry, excused, requests, seenPublic>>

Requests == Readers \cup Writers
\* Ages beyond this one need not be told apart.
MaxAge == TTL + Jitter + RequestTimeout + 1
Copies == [AllColumns -> Authors]

\* WHERE status = 'on_sale', under the soft-delete scope.
Public == status = "on_sale" /\ ~deleted

Init ==
  /\ content = [c \in AllColumns |-> First]
  /\ status = "on_sale" /\ deleted = FALSE /\ lock = NoOne
  /\ age = [c \in AllColumns |-> [a \in Authors |-> IF a = First THEN 0 ELSE MaxAge]]
  /\ supplier = [c \in AllColumns |-> First]
  /\ entry = NoEntry
  /\ pc = [p \in Requests |-> "idle"]
  /\ copy = [p \in Requests |-> content]
  /\ elapsed = [r \in Readers |-> 0]
  /\ shownAge = [r \in Readers |-> 0]
  /\ seenPublic = {}
  /\ excused = FALSE

Goto(p, label) == pc' = [pc EXCEPT ![p] = label]
InFlight(p) == pc[p] \notin {"idle", "shown", "refused", "done"}
\* The context is alive: SQL and Redis calls are still made.
InTime(r) == elapsed[r] <= RequestTimeout

-----------------------------------------------------------------------------
\* Detail.

Arrive(r) ==
  /\ pc[r] = "idle"
  /\ Goto(r, "get")
  /\ seenPublic' = IF status = "on_sale" /\ ~deleted THEN seenPublic \cup {r} ELSE seenPublic
  /\ UNCHANGED <<row, entry, excused, copy, elapsed, shownAge>>

OldestOf(k) == CHOOSE n \in {age[c][k[c]] : c \in AllColumns} :
                 \A c \in AllColumns : age[c][k[c]] <= n

\* cache.Get finds the entry.
Hit(r) ==
  /\ pc[r] = "get" /\ InTime(r)
  /\ entry # NoEntry
  /\ copy' = [copy EXCEPT ![r] = entry.content]
  /\ shownAge' = [shownAge EXCEPT ![r] = OldestOf(entry.content)]
  /\ Goto(r, "visible")
  /\ UNCHANGED <<row, entry, excused, elapsed, seenPublic>>

\* cache.Get finds nothing, or fails: both lead to the database.
Miss(r) ==
  /\ pc[r] = "get" /\ InTime(r)
  /\ Goto(r, "load")
  /\ UNCHANGED <<row, entry, excused, copy, elapsed, shownAge, seenPublic>>

\* Broken variant: a hit is not checked.
VisibleOnHit == TRUE
\* RequirePublic.
StillVisible == Public

CheckVisible(r) ==
  /\ pc[r] = "visible" /\ InTime(r)
  /\ Goto(r, IF StillVisible THEN "attach" ELSE "refused")
  /\ UNCHANGED <<row, entry, excused, copy, elapsed, shownAge, seenPublic>>

\* FindPublicByID reads the product, and the SKUs in a second statement.
LoadProduct(r) ==
  /\ pc[r] = "load" /\ InTime(r)
  /\ copy' = [copy EXCEPT ![r] = [c \in AllColumns |-> IF c \in Columns THEN content[c] ELSE @[c]]]
  /\ Goto(r, IF Public THEN "skus" ELSE "refused")
  /\ UNCHANGED <<row, entry, excused, elapsed, shownAge, seenPublic>>

LoadSKUs(r) ==
  /\ pc[r] = "skus" /\ InTime(r)
  /\ copy' = [copy EXCEPT ![r]["skus"] = content["skus"]]
  /\ shownAge' = [shownAge EXCEPT ![r] = OldestOf(copy'[r])]
  /\ Goto(r, "fill")
  /\ UNCHANGED <<row, entry, excused, elapsed, seenPublic>>

\* The lifetime of an entry: the TTL and a random part.
Lifetimes == TTL..(TTL + Jitter)

\* cache.Set, which may fail without being noticed.
Fill(r) ==
  /\ pc[r] = "fill" /\ InTime(r)
  /\ \/ /\ \E n \in Lifetimes : entry' = [content |-> copy[r], left |-> n]
        /\ excused' = (copy[r] # content)
     \/ UNCHANGED <<entry, excused>>
  /\ Goto(r, "attach")
  /\ UNCHANGED <<row, copy, elapsed, shownAge, seenPublic>>

\* AttachInventories reads the stock of the SKUs and the answer is given.
Attach(r) ==
  /\ pc[r] = "attach" /\ InTime(r)
  /\ Goto(r, "shown")
  /\ UNCHANGED <<row, entry, excused, copy, elapsed, shownAge, seenPublic>>

\* Any statement may fail, and fails when the deadline has passed.
FailRead(r) ==
  /\ r \in Readers /\ InFlight(r)
  /\ Goto(r, "refused")
  /\ UNCHANGED <<row, entry, excused, copy, elapsed, shownAge, seenPublic>>

-----------------------------------------------------------------------------
\* Update, Patch, Delete, CreateSKU and UpdateSKU.

StatusAfter(w) == IF NewStatus[w] = Unchanged THEN status ELSE NewStatus[w]

\* Column c gets the author after[c].
Store(after) ==
  /\ content' = after
  /\ age' = [c \in AllColumns |-> [a \in Authors |-> IF a = after[c] THEN 0 ELSE age[c][a]]]

\* What the write promises: every column it supplies, and no other.
Supply(w, columns) == supplier' = [c \in AllColumns |-> IF c \in columns THEN w ELSE supplier[c]]

NoticePublic ==
  seenPublic' = IF status' = "on_sale" /\ ~deleted
                  THEN seenPublic \cup {r \in Readers : InFlight(r)} ELSE seenPublic

\* FindByID, or FindSKU, before the write: a SKU outlives its product.
Find(w) ==
  /\ pc[w] = "idle" /\ Operation[w] # "patch"
  /\ Goto(w, IF deleted /\ Operation[w] # "updateSKU" THEN "refused" ELSE "write")
  /\ UNCHANGED <<row, entry, excused, copy, elapsed, shownAge, seenPublic>>

\* Update saves every column; WHERE id = ? finds no deleted row.
SaveAll(w) ==
  /\ pc[w] = "write" /\ Operation[w] = "update" /\ lock = NoOne
  /\ IF deleted
       THEN /\ Goto(w, "refused")
            /\ UNCHANGED <<row, seenPublic>>
       ELSE /\ Store([c \in AllColumns |-> IF c \in Columns THEN w ELSE content[c]])
            /\ status' = NewStatus[w]
            /\ Supply(w, Columns)
            /\ NoticePublic
            /\ Goto(w, "invalidate")
            /\ UNCHANGED <<deleted, lock>>
  /\ UNCHANGED <<entry, excused, copy, elapsed, shownAge>>

\* Delete sets deleted_at; a row that is deleted already is no error.
SoftDelete(w) ==
  /\ pc[w] = "write" /\ Operation[w] = "delete" /\ lock = NoOne
  /\ deleted' = TRUE
  /\ Goto(w, "invalidate")
  /\ UNCHANGED <<content, status, lock, age, supplier, entry, excused, copy, elapsed, shownAge, seenPublic>>

\* CreateSKU and UpdateSKU: the product row is not locked.
SaveSKU(w) ==
  /\ pc[w] = "write" /\ Operation[w] \in {"createSKU", "updateSKU"}
  /\ Store([content EXCEPT !["skus"] = w])
  /\ Supply(w, {"skus"})
  /\ Goto(w, "invalidate")
  /\ UNCHANGED <<status, deleted, lock, entry, excused, copy, elapsed, shownAge, seenPublic>>

\* Broken variant: the row is read without FOR UPDATE.
ReadFree == TRUE
\* LockByID waits for the row lock.
RowFree == lock = NoOne

\* The columns and the status that Patch writes: what it supplies over what it read.
Merge(w) == [c \in AllColumns |-> IF c \in Supplied[w] THEN w ELSE content[c]]

\* Patch begins: LockByID, mergeProductPatch.
LockAndMerge(w) ==
  /\ pc[w] = "idle" /\ Operation[w] = "patch" /\ RowFree
  /\ IF deleted
       THEN Goto(w, "refused") /\ UNCHANGED <<lock, copy>>
       ELSE /\ lock' = w
            /\ copy' = [copy EXCEPT ![w] = Merge(w)]
            /\ Goto(w, "commit")
  /\ UNCHANGED <<content, status, deleted, age, supplier, entry, excused, elapsed, shownAge, seenPublic>>

\* Save and commit: every product column is written, also those read before.
CommitPatch(w) ==
  /\ pc[w] = "commit"
  /\ Store([c \in AllColumns |-> IF c \in Columns THEN copy[w][c] ELSE content[c]])
  /\ status' = StatusAfter(w)
  /\ Supply(w, Supplied[w])
  /\ lock' = NoOne
  /\ NoticePublic
  /\ Goto(w, "invalidate")
  /\ UNCHANGED <<deleted, entry, excused, copy, elapsed, shownAge>>

\* Broken variant: nothing is removed.
EntryKept == entry
\* cache.Delete.
EntryRemoved == NoEntry

\* Delete of the cached copy, which may fail without being noticed.
Invalidate(w) ==
  /\ pc[w] = "invalidate"
  /\ \/ entry' = EntryRemoved /\ excused' = FALSE
     \/ entry' = entry /\ excused' = TRUE
  /\ Goto(w, "done")
  /\ UNCHANGED <<row, copy, elapsed, shownAge, seenPublic>>

\* A write that fails is rolled back; one that commits may still stop short of
\* the invalidation (deadline, crash).
FailWrite(w) ==
  /\ w \in Writers /\ pc[w] \in {"write", "commit", "invalidate"}
  /\ lock' = IF lock = w THEN NoOne ELSE lock
  /\ excused' = (excused \/ pc[w] = "invalidate")
  /\ Goto(w, "refused")
  /\ UNCHANGED <<content, status, deleted, age, supplier, entry, copy, elapsed, shownAge, seenPublic>>

-----------------------------------------------------------------------------

OneOlder(n) == IF n < MaxAge THEN n + 1 ELSE n

\* Broken variant: an entry without an expiry.
EntryForever == entry
\* An entry whose lifetime is over is gone.
EntryOlder == IF entry = NoEntry \/ entry.left = 1 THEN NoEntry
              ELSE [entry EXCEPT !.left = @ - 1]

Tick ==
  /\ entry' = EntryOlder
  /\ excused' = (excused /\ entry' # NoEntry)
  /\ elapsed' = [r \in Readers |->
                   IF InFlight(r) /\ InTime(r) THEN elapsed[r] + 1 ELSE elapsed[r]]
  /\ age' = [c \in AllColumns |-> [a \in Authors |->
               IF a = content[c] THEN 0 ELSE OneOlder(age[c][a])]]
  /\ UNCHANGED <<content, status, deleted, lock, supplier, pc, copy, shownAge, seenPublic>>

ReadStep(r) ==
  \/ Hit(r) \/ Miss(r) \/ CheckVisible(r)
  \/ LoadProduct(r) \/ LoadSKUs(r) \/ Fill(r) \/ Attach(r)

WriteStep(w) ==
  \/ Find(w) \/ SaveAll(w) \/ SoftDelete(w) \/ SaveSKU(w)
  \/ LockAndMerge(w) \/ CommitPatch(w)
  \/ Invalidate(w)

Next ==
  \/ \E r \in Readers : Arrive(r) \/ ReadStep(r) \/ FailRead(r)
  \/ \E w \in Writers : WriteStep(w) \/ FailWrite(w)
  \/ Tick

Spec == Init /\ [][Next]_vars

-----------------------------------------------------------------------------

TypeOK ==
  /\ content \in Copies
  /\ status \in {"draft", "on_sale", "sold_out"}
  /\ deleted \in BOOLEAN
  /\ lock \in Writers \cup {NoOne}
  /\ entry \in {NoEntry} \cup [content : Copies, left : 1..(TTL + Jitter)]
  /\ pc \in [Requests -> {"idle", "get", "visible", "load", "skus", "fill", "attach", "shown",
                          "refused", "write", "commit", "invalidate", "done"}]
  /\ \A w \in Writers : pc[w] = "commit" <=> lock = w
  /\ copy \in [Requests -> Copies]
  /\ elapsed \in [Readers -> 0..(RequestTimeout + 1)]
  /\ age \in [AllColumns -> [Authors -> 0..MaxAge]]
  /\ shownAge \in [Readers -> 0..MaxAge]
  /\ seenPublic \subseteq Readers
  /\ supplier \in Copies

\* A product is shown only if it was on sale and not deleted at some time while
\* the request was under way, whatever Redis holds (Detail, service.go:336;
\* docs/commerce.md:95).
HiddenIsNotShown == \A r \in Readers : pc[r] = "shown" => r \in seenPublic

\* What is shown was the truth less than one lifetime of an entry and one
\* request ago, in spite of failed invalidations and of refills that overtake them
\* (docs/production.md:29).
StalenessIsBounded ==
  \A r \in Readers : pc[r] = "shown" => shownAge[r] < TTL + Jitter + RequestTimeout

\* Concurrent partial updates preserve each other's fields: a column has the value
\* of the last committed request that supplied one (Patch, product_patch.go:28).
PatchesMerge == content = supplier

EntryIsFresh == entry = NoEntry \/ entry.content = content

\* An outdated entry has one of the documented reasons: an invalidation that is
\* still due or has failed, or a refill that it has overtaken (service.go:337,
\* docs/production.md:29).
OutdatedHasReason ==
  EntryIsFresh \/ excused \/ \E w \in Writers : pc[w] = "invalidate"
=============================================================================
