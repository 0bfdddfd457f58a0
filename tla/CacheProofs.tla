----------------------------- MODULE CacheProofs -----------------------------
(***************************************************************************)
(* What ProductCache promises about the copy in Redis and about concurrent *)
(* writes, for any requests, columns and lifetimes.                        *)
(***************************************************************************)
EXTENDS ProductCache, Integers, WellFoundedInduction, TLAPS

-----------------------------------------------------------------------------
(* The greatest of bounded numbers. *)

LEMMA NaturalsHaveLeast ==
  ASSUME NEW S, S \subseteq Nat, S # {}
  PROVE  \E n \in S : \A m \in S : n <= m
<1> DEFINE R == OpToRel(<, Nat)
<1>1. IsWellFoundedOn(R, Nat)
  BY NatLessThanWellFounded, Zenon
<1>2. \A m, n \in Nat : m < n => <<m, n>> \in R
  BY DEF OpToRel
<1> HIDE DEF R
<1>3. PICK n \in S : \A m \in S : ~ (<<m, n>> \in R)
  BY <1>1, WFMin
<1>4. ASSUME NEW m \in S PROVE n <= m
  <2>1. m \in Nat /\ n \in Nat
    OBVIOUS
  <2>2. ~ (m < n)
    BY <1>2, <1>3, <2>1
  <2> QED
    BY <2>1, <2>2
<1> QED
  BY <1>4

LEMMA BoundedHasGreatest ==
  ASSUME NEW S, NEW bound \in Int, S \subseteq Int, S # {}, \A n \in S : n <= bound
  PROVE  \E n \in S : \A m \in S : m <= n
<1> DEFINE T == {bound - n : n \in S}
<1>1. T \subseteq Nat
  <2>1. ASSUME NEW n \in S PROVE bound - n \in Nat
    OBVIOUS
  <2> QED
    BY <2>1
<1>2. T # {}
  OBVIOUS
<1>3. PICK t \in T : \A u \in T : t <= u
  <2> HIDE DEF T
  <2> QED
    BY <1>1, <1>2, NaturalsHaveLeast
<1>4. PICK n \in S : t = bound - n
  OBVIOUS
<1>5. ASSUME NEW m \in S PROVE m <= n
  <2>1. m \in Int /\ n \in Int /\ bound - n <= bound - m
    BY <1>3, <1>4
  <2> QED
    BY <2>1
<1> QED
  BY <1>5

\* The age of a copy is the one of its oldest column.
LEMMA OldestIsOne ==
  ASSUME age \in [AllColumns -> [Authors -> 0..MaxAge]], NEW k \in Copies
  PROVE  OldestOf(k) \in 0..MaxAge /\ \E c \in AllColumns : OldestOf(k) = age[c][k[c]]
<1> DEFINE S == {age[c][k[c]] : c \in AllColumns}
<1>1. MaxAge \in Int /\ S \subseteq Int /\ S # {} /\ \A n \in S : n <= MaxAge
  BY TimesAreNatural DEF MaxAge, Copies, AllColumns
<1>2. PICK n \in S : \A m \in S : m <= n
  <2> HIDE DEF S
  <2> QED
    BY <1>1, BoundedHasGreatest
<1>3. \A c \in AllColumns : age[c][k[c]] <= n
  BY <1>2
<1>4. OldestOf(k) \in S
  BY <1>2, <1>3 DEF OldestOf
<1>5. S \subseteq 0..MaxAge
  BY DEF Copies
<1> QED
  BY <1>4, <1>5

-----------------------------------------------------------------------------
(* The inductive invariant. *)

\* Where a detail request can be, and where a write can.
Roles ==
  /\ \A r \in Readers : pc[r] \in {"idle", "get", "visible", "load", "skus", "fill", "attach",
                                   "shown", "refused"}
  /\ \A w \in Writers : pc[w] \in {"idle", "write", "commit", "invalidate", "done", "refused"}

\* A patch that holds the row lock has merged into what is still there.
MergedIsCurrent ==
  \A w \in Writers : pc[w] = "commit" =>
    \A c \in Columns : copy[w][c] = IF c \in Supplied[w] THEN w ELSE content[c]

\* A request that has got beyond the test of visibility passed it.
VisibleWasPublic ==
  \A r \in Readers :
    /\ Public /\ InFlight(r) => r \in seenPublic
    /\ pc[r] \in {"skus", "fill", "attach", "shown"} => r \in seenPublic

MaxStaleness == TTL + Jitter + RequestTimeout

\* What r has loaded has changed, if it has, since r arrived.
LoadedIsRecent(r) ==
  InTime(r) =>
    /\ pc[r] = "skus" => \A c \in Columns : age[c][copy[r][c]] <= elapsed[r]
    /\ pc[r] = "fill" => \A c \in AllColumns : age[c][copy[r][c]] <= elapsed[r]

\* An entry was filled within a request, and every tick takes from its lifetime.
EntryIsRecent ==
  entry # NoEntry => \A c \in AllColumns : age[c][entry.content[c]] + entry.left <= MaxStaleness

Aging ==
  /\ \A c \in AllColumns : age[c][content[c]] = 0
  /\ EntryIsRecent
  /\ \A r \in Readers : LoadedIsRecent(r)
  /\ \A r \in Readers : pc[r] \in {"visible", "fill", "attach", "shown"} => shownAge[r] < MaxStaleness

CacheInv ==
  /\ TypeOK /\ Roles
  /\ PatchesMerge /\ MergedIsCurrent
  /\ VisibleWasPublic
  /\ Aging
  /\ OutdatedHasReason

-----------------------------------------------------------------------------
(* Types. *)

\* A detail request leaves the row alone, and its own variables in their ranges.
LEMMA ReadTypes ==
  ASSUME TypeOK, Roles, NEW r \in Readers, Arrive(r) \/ ReadStep(r) \/ FailRead(r)
  PROVE  TypeOK' /\ Roles'
<1>1. \A k \in Copies : OldestOf(k) \in 0..MaxAge
  BY OldestIsOne DEF TypeOK
<1>2. pc' \in [Requests -> {"idle", "get", "visible", "load", "skus", "fill", "attach", "shown",
                            "refused", "write", "commit", "invalidate", "done"}]
      /\ \A p \in Requests \ {r} : pc'[p] = pc[p]
  BY DEF TypeOK, Requests, Arrive, ReadStep, Hit, Miss, CheckVisible, LoadProduct, LoadSKUs, Fill, Attach,
         FailRead, Goto
<1>3. pc'[r] \in {"get", "visible", "load", "skus", "fill", "attach", "shown", "refused"}
  BY DEF TypeOK, Requests, Arrive, ReadStep, Hit, Miss, CheckVisible, LoadProduct, LoadSKUs, Fill, Attach,
         FailRead, Goto
<1>4. UNCHANGED row /\ UNCHANGED elapsed /\ seenPublic' \subseteq Readers
  BY DEF TypeOK, Arrive, ReadStep, Hit, Miss, CheckVisible, LoadProduct, LoadSKUs, Fill, Attach, FailRead
<1>5. entry' \in {NoEntry} \cup [content : Copies, left : 1..(TTL + Jitter)]
  <2>1. CASE Fill(r)
    BY <2>1, TimesAreNatural DEF TypeOK, Fill, Lifetimes, Requests
  <2>2. CASE ~Fill(r)
    BY <2>2 DEF TypeOK, Arrive, ReadStep, Hit, Miss, CheckVisible, LoadProduct, LoadSKUs, Attach, FailRead
  <2> QED
    BY <2>1, <2>2
<1>6. copy' \in [Requests -> Copies] /\ shownAge' \in [Readers -> 0..MaxAge]
  <2>1. CASE Hit(r)
    <3>1. entry.content \in Copies
      BY <2>1 DEF TypeOK, Hit
    <3> QED
      BY <1>1, <2>1, <3>1 DEF TypeOK, Hit, Requests
  <2>2. CASE LoadProduct(r)
    <3>1. [c \in AllColumns |-> IF c \in Columns THEN content[c] ELSE copy[r][c]] \in Copies
      BY DEF TypeOK, Copies, Requests
    <3> QED
      BY <2>2, <3>1 DEF TypeOK, LoadProduct, Requests
  <2>3. CASE LoadSKUs(r)
    <3>1. [copy[r] EXCEPT !["skus"] = content["skus"]] \in Copies
      BY DEF TypeOK, Copies, Requests, AllColumns
    <3>2. copy' = [copy EXCEPT ![r] = [copy[r] EXCEPT !["skus"] = content["skus"]]]
      BY <2>3 DEF LoadSKUs
    <3>3. copy' \in [Requests -> Copies] /\ copy'[r] \in Copies
      BY <3>1, <3>2 DEF TypeOK, Requests
    <3> QED
      BY <1>1, <2>3, <3>3 DEF TypeOK, LoadSKUs
  <2>4. CASE UNCHANGED <<copy, shownAge>>
    BY <2>4 DEF TypeOK
  <2> QED
    BY <2>1, <2>2, <2>3, <2>4 DEF Arrive, ReadStep, Miss, CheckVisible, Fill, Attach, FailRead
<1>7. \A w \in Writers : pc'[w] = pc[w]
  BY <1>2, WritersAreWellFormed DEF Requests
<1>8. \A q \in Readers : pc'[q] = pc[q] \/ q = r
  BY <1>2 DEF Requests
<1> QED
  BY <1>2, <1>3, <1>4, <1>5, <1>6, <1>7, <1>8 DEF TypeOK, Roles, row

\* A column that is stored is as old as nothing, the others are as they were.
LEMMA StoreTypes ==
  ASSUME TypeOK, NEW after \in Copies, Store(after)
  PROVE  /\ content' = after
         /\ age' \in [AllColumns -> [Authors -> 0..MaxAge]]
         /\ \A c \in AllColumns : \A a \in Authors : age'[c][a] = IF a = after[c] THEN 0 ELSE age[c][a]
  BY TimesAreNatural DEF TypeOK, Store, MaxAge

\* The new rows and copies of the writes.
LEMMA WrittenTypes ==
  ASSUME TypeOK, NEW w \in Writers
  PROVE  /\ [c \in AllColumns |-> IF c \in Columns THEN w ELSE content[c]] \in Copies
         /\ [content EXCEPT !["skus"] = w] \in Copies
         /\ Merge(w) \in Copies
         /\ [c \in AllColumns |-> IF c \in Columns THEN copy[w][c] ELSE content[c]] \in Copies
         /\ \A columns : [c \in AllColumns |-> IF c \in columns THEN w ELSE supplier[c]] \in Copies
<1>1. content \in Copies /\ supplier \in Copies /\ copy[w] \in Copies
  BY DEF TypeOK, Requests
<1> QED
  BY <1>1 DEF Copies, Merge, Authors

LEMMA WriteTypes ==
  ASSUME TypeOK, Roles, NEW w \in Writers, WriteStep(w) \/ FailWrite(w)
  PROVE  TypeOK' /\ Roles'
<1>1. UNCHANGED <<elapsed, shownAge>>
  BY DEF WriteStep, Find, SaveAll, SoftDelete, SaveSKU, LockAndMerge, CommitPatch, Invalidate, FailWrite
<1>2. seenPublic' \subseteq Readers
  BY DEF TypeOK, WriteStep, Find, SaveAll, SoftDelete, SaveSKU, LockAndMerge, CommitPatch, Invalidate,
         FailWrite, NoticePublic
<1>3. PICK label \in {"refused", "write", "commit", "invalidate", "done"} : Goto(w, label)
  BY DEF WriteStep, Find, SaveAll, SoftDelete, SaveSKU, LockAndMerge, CommitPatch, Invalidate, FailWrite
<1>4. pc' = [pc EXCEPT ![w] = label] /\ pc'[w] = label
  BY <1>3 DEF Goto, TypeOK, Requests
<1>5. pc' \in [Requests -> {"idle", "get", "visible", "load", "skus", "fill", "attach", "shown",
                            "refused", "write", "commit", "invalidate", "done"}]
      /\ \A p \in Requests \ {w} : pc'[p] = pc[p]
  BY <1>4 DEF TypeOK, Requests
<1>6. entry' \in {NoEntry} \cup [content : Copies, left : 1..(TTL + Jitter)]
  BY DEF TypeOK, WriteStep, Find, SaveAll, SoftDelete, SaveSKU, LockAndMerge, CommitPatch, Invalidate,
         FailWrite, EntryRemoved
<1>7. copy' \in [Requests -> Copies]
  BY WrittenTypes
     DEF TypeOK, Requests, WriteStep, Find, SaveAll, SoftDelete, SaveSKU, LockAndMerge, CommitPatch,
         Invalidate, FailWrite
<1>8. /\ content' \in Copies /\ supplier' \in Copies
      /\ age' \in [AllColumns -> [Authors -> 0..MaxAge]]
  <2>1. CASE UNCHANGED <<content, supplier, age>>
    BY <2>1 DEF TypeOK
  <2>2. CASE \E after \in Copies : \E columns : Store(after) /\ Supply(w, columns)
    <3>1. PICK after \in Copies : Store(after) /\ \E columns : Supply(w, columns)
      BY <2>2
    <3>2. content' = after /\ age' \in [AllColumns -> [Authors -> 0..MaxAge]]
      BY <3>1, StoreTypes
    <3>3. supplier' \in Copies
      BY <3>1, WrittenTypes DEF Supply
    <3> QED
      BY <3>2, <3>3
  <2> QED
    BY <2>1, <2>2, WrittenTypes
       DEF WriteStep, Find, SaveAll, SoftDelete, SaveSKU, LockAndMerge, CommitPatch, Invalidate, FailWrite, row
<1>9. status' \in {"draft", "on_sale", "sold_out"} /\ deleted' \in BOOLEAN
  <2>1. CASE SaveAll(w)
    BY <2>1, WritersAreWellFormed DEF TypeOK, SaveAll, row
  <2>2. CASE CommitPatch(w)
    BY <2>2, WritersAreWellFormed DEF TypeOK, CommitPatch, StatusAfter
  <2>3. CASE SoftDelete(w)
    BY <2>3 DEF TypeOK, SoftDelete
  <2> QED
    BY <2>1, <2>2, <2>3 DEF TypeOK, WriteStep, Find, SaveSKU, LockAndMerge, Invalidate, FailWrite, row
<1>10. lock' \in Writers \cup {NoOne} /\ \A v \in Writers : pc'[v] = "commit" <=> lock' = v
  <2>1. \A v \in Writers : v # NoOne /\ (v # w => pc'[v] = pc[v])
    BY <1>5, WritersAreWellFormed DEF Requests
  <2>2. \A v \in Writers : pc[v] = "commit" <=> lock = v
    BY DEF TypeOK
  <2>3. CASE LockAndMerge(w)
    BY <2>1, <2>2, <2>3, <1>4 DEF TypeOK, LockAndMerge, RowFree, Goto, Requests
  <2>4. CASE CommitPatch(w)
    BY <2>1, <2>2, <2>4, <1>4 DEF TypeOK, CommitPatch, Goto, Requests
  <2>5. CASE FailWrite(w)
    BY <2>1, <2>2, <2>5, <1>4 DEF TypeOK, FailWrite, Goto, Requests
  <2>6. CASE UNCHANGED lock /\ pc[w] # "commit" /\ label # "commit"
    BY <2>1, <2>2, <2>6, <1>4 DEF TypeOK
  <2>7. ASSUME Find(w) \/ SaveAll(w) \/ SoftDelete(w) \/ SaveSKU(w) \/ Invalidate(w)
        PROVE  UNCHANGED lock /\ pc[w] # "commit" /\ pc'[w] # "commit"
    BY <2>7 DEF Find, SaveAll, SoftDelete, SaveSKU, Invalidate, Goto, TypeOK, Requests, row
  <2> QED
    BY <2>3, <2>4, <2>5, <2>6, <2>7, <1>4 DEF WriteStep
<1>11. Roles'
  <2>1. \A r \in Readers : pc'[r] = pc[r]
    BY <1>5, WritersAreWellFormed DEF Requests
  <2>2. \A v \in Writers : pc'[v] = pc[v] \/ v = w
    BY <1>5 DEF Requests
  <2> QED
    BY <1>4, <2>1, <2>2 DEF Roles
<1> QED
  BY <1>1, <1>2, <1>5, <1>6, <1>7, <1>8, <1>9, <1>10, <1>11 DEF TypeOK

\* The entry after a tick.
LEMMA OlderEntry ==
  ASSUME TypeOK, EntryOlder # NoEntry
  PROVE  /\ entry # NoEntry /\ EntryOlder \in [content : Copies, left : 1..(TTL + Jitter)]
         /\ EntryOlder.content = entry.content /\ EntryOlder.left = entry.left - 1
<1>1. entry # NoEntry /\ entry.left # 1 /\ EntryOlder = [entry EXCEPT !.left = entry.left - 1]
  BY DEF EntryOlder
<1>2. entry \in [content : Copies, left : 1..(TTL + Jitter)]
  BY <1>1 DEF TypeOK
<1>3. entry.left - 1 \in 1..(TTL + Jitter)
  BY <1>1, <1>2, TimesAreNatural
<1> QED
  BY <1>1, <1>2, <1>3

LEMMA TickTypes ==
  ASSUME TypeOK, Roles, Tick
  PROVE  TypeOK' /\ Roles'
<1>1. entry' \in {NoEntry} \cup [content : Copies, left : 1..(TTL + Jitter)]
  BY OlderEntry DEF Tick
<1>2. elapsed' \in [Readers -> 0..(RequestTimeout + 1)]
  BY TimesAreNatural DEF Tick, TypeOK, InTime
<1>3. age' \in [AllColumns -> [Authors -> 0..MaxAge]]
  BY TimesAreNatural DEF Tick, TypeOK, OneOlder, MaxAge
<1> QED
  BY <1>1, <1>2, <1>3 DEF Tick, TypeOK, Roles

LEMMA Types == TypeOK /\ Roles /\ [Next]_vars => TypeOK' /\ Roles'
<1>1. CASE UNCHANGED vars
  BY <1>1 DEF vars, row, requests, TypeOK, Roles
<1> QED
  BY <1>1, ReadTypes, WriteTypes, TickTypes DEF Next

-----------------------------------------------------------------------------
(* Concurrent patches. *)

\* A row lock keeps the columns that a patch has read as they are until it commits.
LEMMA PatchStep ==
  ASSUME TypeOK, Roles, PatchesMerge, MergedIsCurrent, [Next]_vars
  PROVE  PatchesMerge' /\ MergedIsCurrent'
<1>1. CASE UNCHANGED <<content, supplier, copy>> /\ \A w \in Writers : pc'[w] = "commit" => pc[w] = "commit"
  BY <1>1 DEF PatchesMerge, MergedIsCurrent
<1>2. ASSUME NEW r \in Readers, Arrive(r) \/ ReadStep(r) \/ FailRead(r)
      PROVE  PatchesMerge' /\ MergedIsCurrent'
  <2>1. /\ UNCHANGED <<content, supplier>>
        /\ \A w \in Writers : pc'[w] = pc[w] /\ copy'[w] = copy[w]
    BY <1>2, WritersAreWellFormed
       DEF Arrive, ReadStep, Hit, Miss, CheckVisible, LoadProduct, LoadSKUs, Fill, Attach, FailRead, Goto,
           row, TypeOK, Requests
  <2> QED
    BY <2>1 DEF PatchesMerge, MergedIsCurrent
<1>3. ASSUME NEW w \in Writers, WriteStep(w) \/ FailWrite(w)
      PROVE  PatchesMerge' /\ MergedIsCurrent'
  <2>1. \A v \in Writers : v # w => pc'[v] = pc[v] /\ copy'[v] = copy[v]
    BY <1>3
       DEF WriteStep, Find, SaveAll, SoftDelete, SaveSKU, LockAndMerge, CommitPatch, Invalidate, FailWrite,
           Goto, TypeOK, Requests
  <2>2. \A v \in Writers : pc[v] = "commit" <=> lock = v
    BY DEF TypeOK
  <2>3. NoOne \notin Writers /\ "skus" \notin Columns
    BY WritersAreWellFormed
  <2>4. CASE SaveAll(w)
    <3>1. \A v \in Writers : pc'[v] # "commit"
      <4>1. \A v \in Writers : pc[v] # "commit"
        BY <2>2, <2>3, <2>4 DEF SaveAll
      <4>2. pc'[w] \in {"refused", "invalidate"}
        BY <2>4 DEF SaveAll, Goto, TypeOK, Requests
      <4> QED
        BY <2>1, <4>1, <4>2
    <3>2. content' = supplier'
      BY <2>4 DEF SaveAll, Store, Supply, PatchesMerge, TypeOK, Copies, row
    <3> QED
      BY <2>1, <3>1, <3>2 DEF PatchesMerge, MergedIsCurrent
  <2>5. CASE SaveSKU(w)
    <3>1. content' = supplier' /\ \A c \in Columns : content'[c] = content[c]
      BY <2>3, <2>5 DEF SaveSKU, Store, Supply, PatchesMerge, TypeOK, Copies, AllColumns
    <3>2. pc'[w] # "commit"
      BY <2>5 DEF SaveSKU, Goto, TypeOK, Requests
    <3> QED
      BY <2>1, <3>1, <3>2 DEF PatchesMerge, MergedIsCurrent
  <2>6. CASE LockAndMerge(w)
    <3>1. UNCHANGED <<content, supplier>>
      BY <2>6 DEF LockAndMerge
    <3>2. pc'[w] = "commit" => \A c \in Columns : copy'[w][c] = IF c \in Supplied[w] THEN w ELSE content[c]
      BY <2>6 DEF LockAndMerge, Merge, Goto, TypeOK, Requests, AllColumns
    <3> QED
      BY <2>1, <3>1, <3>2 DEF PatchesMerge, MergedIsCurrent
  <2>7. CASE CommitPatch(w)
    <3>1. Supplied[w] \subseteq Columns
      BY WritersAreWellFormed
    <3>2. \A c \in Columns : copy[w][c] = IF c \in Supplied[w] THEN w ELSE content[c]
      BY <2>7 DEF CommitPatch, MergedIsCurrent
    <3>3. content' = supplier'
      BY <2>7, <3>1, <3>2 DEF CommitPatch, Store, Supply, PatchesMerge, TypeOK, Copies, AllColumns
    <3>4. \A v \in Writers : pc'[v] # "commit"
      BY <2>1, <2>2, <2>7 DEF CommitPatch, Goto, TypeOK, Requests
    <3> QED
      BY <3>3, <3>4 DEF PatchesMerge, MergedIsCurrent
  <2>8. CASE Find(w) \/ SoftDelete(w) \/ Invalidate(w) \/ FailWrite(w)
    <3>1. UNCHANGED <<content, supplier, copy>> /\ pc'[w] # "commit"
      BY <2>8 DEF Find, SoftDelete, Invalidate, FailWrite, Goto, TypeOK, Requests, row
    <3> QED
      BY <1>1, <2>1, <3>1
  <2> QED
    BY <1>3, <2>4, <2>5, <2>6, <2>7, <2>8 DEF WriteStep
<1> QED
  BY <1>1, <1>2, <1>3 DEF Next, Tick, vars, row, requests

-----------------------------------------------------------------------------
(* Hidden products. *)

\* The product becomes public only by a write that all requests under way notice.
LEMMA PublicStep ==
  ASSUME TypeOK, Roles, VisibleWasPublic, [Next]_vars
  PROVE  VisibleWasPublic'
<1>1. ASSUME NEW q \in Readers, NEW r \in Readers, Arrive(r) \/ ReadStep(r) \/ FailRead(r)
      PROVE  /\ Public' /\ InFlight(q)' => q \in seenPublic'
             /\ pc'[q] \in {"skus", "fill", "attach", "shown"} => q \in seenPublic'
  <2>1. Public' = Public /\ seenPublic \subseteq seenPublic' /\ (q # r => pc'[q] = pc[q])
    BY <1>1
       DEF Arrive, ReadStep, Hit, Miss, CheckVisible, LoadProduct, LoadSKUs, Fill, Attach, FailRead, Goto,
           row, Public, TypeOK, Requests
  <2>2. CASE q # r
    BY <2>1, <2>2 DEF InFlight, VisibleWasPublic
  <2>3. CASE Arrive(r) /\ q = r
    BY <2>3 DEF Arrive, Goto, Public, row, TypeOK, Requests
  <2>4. CASE ReadStep(r) /\ q = r
    <3>1. pc[r] \in {"get", "visible", "load", "skus", "fill", "attach"}
      BY <2>4 DEF ReadStep, Hit, Miss, CheckVisible, LoadProduct, LoadSKUs, Fill, Attach
    <3>2. Public => r \in seenPublic
      BY <3>1 DEF InFlight, VisibleWasPublic
    <3>3. pc'[r] \in {"skus", "fill", "attach", "shown"} =>
            Public \/ pc[r] \in {"skus", "fill", "attach", "shown"}
      BY <2>4 DEF ReadStep, Hit, Miss, CheckVisible, StillVisible, LoadProduct, LoadSKUs, Fill, Attach, Goto,
                  TypeOK, Requests
    <3> QED
      BY <2>1, <2>4, <3>2, <3>3 DEF VisibleWasPublic
  <2>5. CASE FailRead(r) /\ q = r
    BY <2>5 DEF FailRead, Goto, InFlight, TypeOK, Requests
  <2> QED
    BY <1>1, <2>2, <2>3, <2>4, <2>5
<1>2. ASSUME NEW q \in Readers, NEW w \in Writers, WriteStep(w) \/ FailWrite(w)
      PROVE  /\ Public' /\ InFlight(q)' => q \in seenPublic'
             /\ pc'[q] \in {"skus", "fill", "attach", "shown"} => q \in seenPublic'
  <2>1. pc'[q] = pc[q]
    BY <1>2, WritersAreWellFormed
       DEF WriteStep, Find, SaveAll, SoftDelete, SaveSKU, LockAndMerge, CommitPatch, Invalidate, FailWrite,
           Goto, TypeOK, Requests
  <2>2. seenPublic \subseteq seenPublic' /\ (Public' /\ InFlight(q) => Public \/ q \in seenPublic')
    BY <1>2
       DEF WriteStep, Find, SaveAll, SoftDelete, SaveSKU, LockAndMerge, CommitPatch, Invalidate, FailWrite,
           NoticePublic, Public, row
  <2> QED
    BY <2>1, <2>2 DEF InFlight, VisibleWasPublic
<1>3. CASE Tick \/ UNCHANGED vars
  BY <1>3 DEF Tick, vars, row, requests, VisibleWasPublic, Public, InFlight
<1> QED
  BY <1>1, <1>2, <1>3 DEF Next, VisibleWasPublic

-----------------------------------------------------------------------------
(* Outdated entries. *)

\* Who makes the entry outdated either has an invalidation to do or excuses it.
LEMMA OutdatedStep ==
  ASSUME TypeOK, Roles, OutdatedHasReason, [Next]_vars
  PROVE  OutdatedHasReason'
<1>1. ASSUME NEW r \in Readers, Arrive(r) \/ ReadStep(r) \/ FailRead(r)
      PROVE  OutdatedHasReason'
  <2>1. UNCHANGED content /\ \A w \in Writers : pc'[w] = pc[w]
    BY <1>1, WritersAreWellFormed
       DEF Arrive, ReadStep, Hit, Miss, CheckVisible, LoadProduct, LoadSKUs, Fill, Attach, FailRead, Goto,
           row, TypeOK, Requests
  <2>2. CASE UNCHANGED <<entry, excused>>
    BY <2>1, <2>2 DEF OutdatedHasReason, EntryIsFresh
  <2>3. CASE excused' = (copy[r] # content) /\ \E n : entry' = [content |-> copy[r], left |-> n]
    <3>1. CASE copy[r] = content
      <4>1. entry'.content = content'
        BY <2>1, <2>3, <3>1
      <4> QED
        BY <4>1 DEF OutdatedHasReason, EntryIsFresh
    <3>2. CASE copy[r] # content
      BY <2>3, <3>2 DEF OutdatedHasReason
    <3> QED
      BY <3>1, <3>2
  <2> QED
    BY <1>1, <2>2, <2>3
       DEF Arrive, ReadStep, Hit, Miss, CheckVisible, LoadProduct, LoadSKUs, Fill, Attach, FailRead
<1>2. ASSUME NEW w \in Writers, WriteStep(w) \/ FailWrite(w)
      PROVE  OutdatedHasReason'
  <2>1. \A v \in Writers : v # w => pc'[v] = pc[v]
    BY <1>2
       DEF WriteStep, Find, SaveAll, SoftDelete, SaveSKU, LockAndMerge, CommitPatch, Invalidate, FailWrite,
           Goto, TypeOK, Requests
  <2>2. CASE Invalidate(w)
    BY <2>2 DEF Invalidate, EntryRemoved, OutdatedHasReason, EntryIsFresh
  <2>3. CASE pc'[w] = "invalidate"
    BY <2>3 DEF OutdatedHasReason
  <2>4. CASE UNCHANGED <<content, entry>> /\ excused' = (excused \/ pc[w] = "invalidate")
    BY <2>1, <2>4 DEF OutdatedHasReason, EntryIsFresh
  <2>5. CASE Find(w) \/ SaveAll(w) \/ SoftDelete(w) \/ SaveSKU(w) \/ LockAndMerge(w) \/ CommitPatch(w)
    <3>1. pc'[w] = "invalidate" \/ (UNCHANGED <<content, entry, excused>> /\ pc[w] # "invalidate")
      BY <2>5 DEF Find, SaveAll, SoftDelete, SaveSKU, LockAndMerge, CommitPatch, Goto, TypeOK, Requests, row
    <3> QED
      BY <2>1, <2>3, <3>1 DEF OutdatedHasReason, EntryIsFresh
  <2> QED
    BY <1>2, <2>2, <2>4, <2>5 DEF WriteStep, FailWrite
<1>3. CASE Tick
  <2>1. entry' = NoEntry \/ (entry # NoEntry /\ entry'.content = entry.content /\ (excused => excused'))
    <3>1. entry' = EntryOlder /\ (excused /\ entry' # NoEntry => excused')
      BY <1>3 DEF Tick
    <3>2. ASSUME EntryOlder # NoEntry
          PROVE  entry # NoEntry /\ entry'.content = entry.content /\ (excused => excused')
      <4>1. entry # NoEntry /\ EntryOlder.content = entry.content
        BY <3>2, OlderEntry
      <4> QED
        BY <3>1, <3>2, <4>1
    <3> QED
      BY <3>1, <3>2
  <2> QED
    BY <1>3, <2>1 DEF Tick, OutdatedHasReason, EntryIsFresh
<1>4. CASE UNCHANGED vars
  BY <1>4 DEF vars, row, requests, OutdatedHasReason, EntryIsFresh
<1> QED
  BY <1>1, <1>2, <1>3, <1>4 DEF Next

-----------------------------------------------------------------------------
(* Staleness. *)

\* A reader that loads something, or gets it from Redis, gets nothing too old.
LEMMA ReadAging ==
  ASSUME TypeOK, Roles, Aging, NEW r \in Readers, Arrive(r) \/ ReadStep(r) \/ FailRead(r)
  PROVE  Aging'
<1> DEFINE Fits(q) == pc[q] \in {"visible", "fill", "attach", "shown"} => shownAge[q] < MaxStaleness
<1>1. /\ UNCHANGED <<content, age, elapsed>>
      /\ \A q \in Readers : q # r => pc'[q] = pc[q] /\ copy'[q] = copy[q] /\ shownAge'[q] = shownAge[q]
  BY DEF Arrive, ReadStep, Hit, Miss, CheckVisible, LoadProduct, LoadSKUs, Fill, Attach, FailRead, Goto,
         row, TypeOK, Requests
<1>2. /\ TTL \in Nat /\ Jitter \in Nat /\ RequestTimeout \in Nat /\ TTL > 0
      /\ elapsed[r] \in Nat /\ MaxStaleness \in Nat
      /\ \A c \in AllColumns, a \in Authors : age[c][a] \in Nat
      /\ content \in Copies /\ copy[r] \in Copies /\ shownAge[r] \in Nat
  BY TimesAreNatural DEF TypeOK, MaxStaleness, MaxAge, Requests
<1>3. \A q \in Readers : q # r => LoadedIsRecent(q)' /\ Fits(q)'
  BY <1>1 DEF Aging, LoadedIsRecent, InTime
<1>4. (\A c \in AllColumns : age[c][content[c]] = 0)'
  BY <1>1 DEF Aging
<1>5. CASE Hit(r)
  <2>1. entry \in [content : Copies, left : 1..(TTL + Jitter)]
    BY <1>5 DEF TypeOK, Hit
  <2>2. PICK c \in AllColumns : OldestOf(entry.content) = age[c][entry.content[c]]
    BY <2>1, OldestIsOne DEF TypeOK
  <2>3. age[c][entry.content[c]] + entry.left <= MaxStaleness /\ entry.left > 0
    BY <1>2, <1>5, <2>1 DEF Hit, Aging, EntryIsRecent
  <2>4. shownAge'[r] = age[c][entry.content[c]] /\ pc'[r] = "visible" /\ entry' = entry
    BY <1>5, <2>2 DEF Hit, Goto, TypeOK, Requests
  <2>5. age[c][entry.content[c]] \in Nat /\ entry.left \in Nat
    BY <1>2, <2>1 DEF Copies
  <2>6. Fits(r)'
    BY <1>2, <2>3, <2>4, <2>5 DEF MaxStaleness
  <2>7. LoadedIsRecent(r)' /\ EntryIsRecent'
    BY <1>1, <2>4 DEF LoadedIsRecent, EntryIsRecent, Aging, MaxStaleness
  <2> QED
    BY <1>3, <1>4, <2>6, <2>7 DEF Aging, MaxStaleness
<1>6. CASE LoadProduct(r)
  <2>1. entry' = entry /\ pc'[r] \in {"skus", "refused"} /\ \A c \in Columns : copy'[r][c] = content[c]
    BY <1>6 DEF LoadProduct, Goto, TypeOK, Requests, AllColumns
  <2>2. LoadedIsRecent(r)'
    BY <1>1, <1>2, <2>1 DEF LoadedIsRecent, Aging, AllColumns
  <2>3. Fits(r)' /\ EntryIsRecent'
    BY <1>1, <2>1 DEF EntryIsRecent, Aging, MaxStaleness
  <2> QED
    BY <1>3, <1>4, <2>2, <2>3 DEF Aging, MaxStaleness
<1>7. CASE LoadSKUs(r)
  <2>1. copy' = [copy EXCEPT ![r] = [copy[r] EXCEPT !["skus"] = content["skus"]]]
    BY <1>7 DEF LoadSKUs
  <2>2. copy'[r] = [copy[r] EXCEPT !["skus"] = content["skus"]]
    BY <2>1 DEF TypeOK, Requests
  <2>3. /\ entry' = entry /\ pc[r] = "skus" /\ pc'[r] = "fill" /\ InTime(r)
        /\ shownAge'[r] = OldestOf(copy'[r])
    BY <1>7 DEF LoadSKUs, Goto, TypeOK, Requests
  <2>4. copy'[r] \in Copies
    BY <1>2, <2>2 DEF Copies, AllColumns
  <2>5. \A c \in AllColumns : age[c][copy'[r][c]] <= elapsed[r]
    BY <1>2, <2>2, <2>3, WritersAreWellFormed DEF Aging, LoadedIsRecent, AllColumns, Copies
  <2>6. PICK c \in AllColumns : OldestOf(copy'[r]) = age[c][copy'[r][c]]
    BY <2>4, OldestIsOne DEF TypeOK
  <2>7. age[c][copy'[r][c]] \in Nat /\ age[c][copy'[r][c]] <= RequestTimeout
    BY <1>2, <2>3, <2>4, <2>5 DEF InTime, Copies
  <2>8. Fits(r)'
    BY <1>2, <2>3, <2>6, <2>7 DEF MaxStaleness
  <2>9. LoadedIsRecent(r)' /\ EntryIsRecent'
    BY <1>1, <2>3, <2>5 DEF LoadedIsRecent, EntryIsRecent, Aging, MaxStaleness
  <2> QED
    BY <1>3, <1>4, <2>8, <2>9 DEF Aging, MaxStaleness
<1>8. CASE Fill(r)
  <2>1. /\ UNCHANGED <<copy, shownAge>> /\ pc[r] = "fill" /\ InTime(r) /\ pc'[r] = "attach"
        /\ entry' = entry \/ \E n \in TTL..(TTL + Jitter) : entry' = [content |-> copy[r], left |-> n]
    BY <1>8 DEF Fill, Lifetimes, Goto, TypeOK, Requests
  <2>2. ASSUME NEW n \in TTL..(TTL + Jitter), entry' = [content |-> copy[r], left |-> n],
               NEW c \in AllColumns
        PROVE  age'[c][entry'.content[c]] + entry'.left <= MaxStaleness
    <3>1. age[c][copy[r][c]] \in Nat /\ age[c][copy[r][c]] <= RequestTimeout
      BY <1>2, <2>1 DEF Aging, LoadedIsRecent, InTime, Copies
    <3>2. entry'.content = copy[r] /\ entry'.left = n
      BY <2>2
    <3> QED
      BY <1>1, <1>2, <3>1, <3>2 DEF MaxStaleness
  <2>3. EntryIsRecent'
    BY <1>1, <2>1, <2>2 DEF EntryIsRecent, Aging, MaxStaleness
  <2>4. LoadedIsRecent(r)' /\ Fits(r)'
    BY <2>1 DEF LoadedIsRecent, Aging, MaxStaleness
  <2> QED
    BY <1>3, <1>4, <2>3, <2>4 DEF Aging, MaxStaleness
<1>9. CASE Arrive(r) \/ Miss(r) \/ CheckVisible(r) \/ Attach(r) \/ FailRead(r)
  <2>1. /\ UNCHANGED <<entry, copy, shownAge>>
        /\ \/ pc'[r] \in {"get", "load", "refused"}
           \/ pc'[r] \in {"attach", "shown"} /\ pc[r] \in {"visible", "attach"}
    <3>1. pc' = [pc EXCEPT ![r] = pc'[r]] /\ UNCHANGED <<entry, copy, shownAge>>
      BY <1>9 DEF Arrive, Miss, CheckVisible, Attach, FailRead, Goto, TypeOK, Requests
    <3>2. CASE Arrive(r) \/ Miss(r) \/ FailRead(r)
      <4>1. PICK label \in {"get", "load", "refused"} : Goto(r, label)
        BY <3>2 DEF Arrive, Miss, FailRead
      <4>2. pc'[r] = label
        BY <4>1 DEF Goto, TypeOK, Requests
      <4> QED
        BY <3>1, <4>2
    <3>3. CASE CheckVisible(r) \/ Attach(r)
      BY <3>1, <3>3 DEF CheckVisible, Attach, Goto, TypeOK, Requests
    <3> QED
      BY <1>9, <3>1, <3>2, <3>3
  <2> QED
    BY <1>1, <1>3, <1>4, <2>1 DEF Aging, EntryIsRecent, LoadedIsRecent, MaxStaleness
<1> QED
  BY <1>5, <1>6, <1>7, <1>8, <1>9 DEF ReadStep

\* What is stored is new, and makes nothing else older.
LEMMA WriteAging ==
  ASSUME TypeOK, Roles, Aging, NEW w \in Writers, WriteStep(w) \/ FailWrite(w)
  PROVE  Aging'
<1>1. /\ UNCHANGED <<elapsed, shownAge>>
      /\ \A r \in Readers : pc'[r] = pc[r] /\ copy'[r] = copy[r]
      /\ entry' = entry \/ entry' = NoEntry
  BY WritersAreWellFormed
     DEF WriteStep, Find, SaveAll, SoftDelete, SaveSKU, LockAndMerge, CommitPatch, Invalidate, FailWrite,
         EntryRemoved, Goto, TypeOK, Requests
<1>2. /\ \A c \in AllColumns : content'[c] \in Authors /\ age'[c][content'[c]] = 0
      /\ \A c \in AllColumns, a \in Authors : age'[c][a] \in Nat /\ age'[c][a] <= age[c][a]
  <2>1. \A c \in AllColumns, a \in Authors : age[c][a] \in Nat
    BY TimesAreNatural DEF TypeOK, MaxAge
  <2>2. CASE UNCHANGED <<content, age>>
    BY <2>1, <2>2 DEF Aging, TypeOK, Copies
  <2>3. ASSUME NEW after \in Copies, Store(after)
        PROVE  /\ \A c \in AllColumns : content'[c] \in Authors /\ age'[c][content'[c]] = 0
               /\ \A c \in AllColumns, a \in Authors : age'[c][a] \in Nat /\ age'[c][a] <= age[c][a]
    <3>1. /\ content' = after
          /\ \A c \in AllColumns : \A a \in Authors : age'[c][a] = IF a = after[c] THEN 0 ELSE age[c][a]
      BY <2>3, StoreTypes
    <3> QED
      BY <2>1, <3>1 DEF Copies
  <2> QED
    BY <2>2, <2>3, WrittenTypes
       DEF WriteStep, Find, SaveAll, SoftDelete, SaveSKU, LockAndMerge, CommitPatch, Invalidate, FailWrite, row
<1>3. /\ \A r \in Readers : elapsed[r] \in Nat /\ copy[r] \in Copies
      /\ \A c \in AllColumns, a \in Authors : age[c][a] \in Nat
      /\ MaxStaleness \in Nat
  BY TimesAreNatural DEF TypeOK, MaxAge, MaxStaleness, Requests
<1>4. EntryIsRecent'
  <2> SUFFICES ASSUME entry' # NoEntry, NEW c \in AllColumns
               PROVE  age'[c][entry'.content[c]] + entry'.left <= MaxStaleness
    BY DEF EntryIsRecent, MaxStaleness
  <2>1. entry' = entry /\ entry \in [content : Copies, left : 1..(TTL + Jitter)]
    BY <1>1 DEF TypeOK
  <2>2. entry.content[c] \in Authors /\ entry.left \in Nat
    BY <2>1, TimesAreNatural DEF Copies
  <2>3. age[c][entry.content[c]] + entry.left <= MaxStaleness
    BY <2>1 DEF Aging, EntryIsRecent
  <2> QED
    BY <1>2, <1>3, <2>1, <2>2, <2>3
<1>5. ASSUME NEW r \in Readers PROVE LoadedIsRecent(r)'
  <2>1. \A c \in AllColumns : copy[r][c] \in Authors
    BY <1>3 DEF Copies
  <2> QED
    BY <1>1, <1>2, <1>3, <2>1 DEF LoadedIsRecent, Aging, InTime, AllColumns
<1> QED
  BY <1>1, <1>2, <1>4, <1>5 DEF Aging, MaxStaleness

\* A tick ages everything by one.
LEMMA TickAging ==
  ASSUME TypeOK, Roles, Aging, Tick
  PROVE  Aging'
<1>1. /\ UNCHANGED <<content, copy, shownAge, pc>>
      /\ TTL \in Nat /\ Jitter \in Nat /\ RequestTimeout \in Nat /\ MaxStaleness \in Nat
      /\ \A c \in AllColumns, a \in Authors : age[c][a] \in Nat
  BY TimesAreNatural DEF Tick, TypeOK, MaxAge, MaxStaleness
<1>2. \A c \in AllColumns, a \in Authors :
        age'[c][a] \in Nat /\ age'[c][a] <= age[c][a] + 1 /\ (a = content[c] => age'[c][a] = 0)
  BY <1>1 DEF Tick, OneOlder
<1>3. EntryIsRecent'
  <2> SUFFICES ASSUME entry' # NoEntry, NEW c \in AllColumns
               PROVE  age'[c][entry'.content[c]] + entry'.left <= MaxStaleness
    BY DEF EntryIsRecent, MaxStaleness
  <2>1. /\ entry # NoEntry /\ entry'.content = entry.content /\ entry'.left = entry.left - 1
        /\ entry \in [content : Copies, left : 1..(TTL + Jitter)]
    BY OlderEntry DEF Tick, TypeOK
  <2>2. entry.content[c] \in Authors /\ entry.left \in Int
    BY <2>1 DEF Copies
  <2>3. age[c][entry.content[c]] + entry.left <= MaxStaleness
    BY <2>1 DEF Aging, EntryIsRecent
  <2> QED
    BY <1>1, <1>2, <2>1, <2>2, <2>3
<1>4. ASSUME NEW r \in Readers PROVE LoadedIsRecent(r)'
  <2>1. \A c \in AllColumns : copy[r][c] \in Authors
    BY DEF TypeOK, Copies, Requests
  <2>2. elapsed[r] \in Nat
    BY <1>1 DEF TypeOK
  <2>3. pc[r] \in {"skus", "fill"} /\ InTime(r) => elapsed'[r] = elapsed[r] + 1
    BY DEF Tick, InFlight
  <2>4. pc[r] \in {"skus", "fill"} /\ ~InTime(r) => ~InTime(r)'
    BY DEF Tick, InTime
  <2> QED
    BY <1>1, <1>2, <2>1, <2>2, <2>3, <2>4 DEF LoadedIsRecent, Aging, AllColumns
<1>5. \A c \in AllColumns : age'[c][content'[c]] = 0
  BY <1>1, <1>2 DEF TypeOK, Copies
<1> QED
  BY <1>1, <1>3, <1>4, <1>5 DEF Aging, MaxStaleness

-----------------------------------------------------------------------------
(* The invariant. *)

LEMMA CacheInit == Init => CacheInv
<1> SUFFICES ASSUME Init PROVE CacheInv
  OBVIOUS
<1>1. /\ TTL \in Nat /\ Jitter \in Nat /\ RequestTimeout \in Nat /\ MaxAge \in Nat /\ MaxStaleness \in Nat
      /\ MaxStaleness > 0 /\ First \in Authors
  BY TimesAreNatural DEF MaxAge, MaxStaleness, Authors
<1>2. content \in Copies /\ supplier = content /\ entry = NoEntry
  BY <1>1 DEF Init, Copies
<1>3. /\ pc = [p \in Requests |-> "idle"] /\ copy = [p \in Requests |-> content]
      /\ age \in [AllColumns -> [Authors -> 0..MaxAge]]
      /\ \A c \in AllColumns : age[c][content[c]] = 0
  BY <1>1 DEF Init
<1>4. TypeOK
  <2>1. lock = NoOne /\ \A w \in Writers : pc[w] # "commit" /\ w # NoOne
    BY <1>3, WritersAreWellFormed DEF Init, Requests
  <2>2. /\ status \in {"draft", "on_sale", "sold_out"} /\ deleted \in BOOLEAN /\ seenPublic \subseteq Readers
    BY DEF Init
  <2>5. elapsed \in [Readers -> 0..(RequestTimeout + 1)] /\ shownAge \in [Readers -> 0..MaxAge]
    <3>1. 0 \in 0..(RequestTimeout + 1) /\ 0 \in 0..MaxAge
      BY <1>1
    <3> QED
      BY <3>1 DEF Init
  <2>3. copy \in [Requests -> Copies]
    BY <1>2, <1>3
  <2>4. pc \in [Requests -> {"idle", "get", "visible", "load", "skus", "fill", "attach", "shown",
                             "refused", "write", "commit", "invalidate", "done"}]
    BY <1>3
  <2> QED
    BY <1>2, <1>3, <2>1, <2>2, <2>3, <2>4, <2>5 DEF TypeOK
<1>5. Roles
  BY <1>3 DEF Roles, Requests
<1>6. PatchesMerge /\ MergedIsCurrent
  BY <1>2, <1>3 DEF PatchesMerge, MergedIsCurrent, Requests
<1>7. VisibleWasPublic
  BY <1>3 DEF VisibleWasPublic, InFlight, Requests
<1>8. Aging
  BY <1>2, <1>3 DEF Aging, EntryIsRecent, LoadedIsRecent, Requests
<1>9. OutdatedHasReason
  BY <1>2 DEF OutdatedHasReason, EntryIsFresh
<1> QED
  BY <1>4, <1>5, <1>6, <1>7, <1>8, <1>9 DEF CacheInv

LEMMA CacheStep == CacheInv /\ [Next]_vars => CacheInv'
<1> SUFFICES ASSUME CacheInv, [Next]_vars PROVE CacheInv'
  OBVIOUS
<1>1. TypeOK' /\ Roles'
  BY Types DEF CacheInv
<1>2. PatchesMerge' /\ MergedIsCurrent'
  BY PatchStep DEF CacheInv
<1>3. VisibleWasPublic'
  BY PublicStep DEF CacheInv
<1>4. OutdatedHasReason'
  BY OutdatedStep DEF CacheInv
<1>5. Aging'
  <2>1. CASE UNCHANGED vars
    BY <2>1
       DEF CacheInv, vars, row, requests, Aging, EntryIsRecent, LoadedIsRecent, InTime, MaxStaleness
  <2> QED
    BY <2>1, ReadAging, WriteAging, TickAging DEF CacheInv, Next
<1> QED
  BY <1>1, <1>2, <1>3, <1>4, <1>5 DEF CacheInv

LEMMA CacheInvariant == Spec => []CacheInv
  BY CacheInit, CacheStep, PTL DEF Spec

-----------------------------------------------------------------------------
\* Whatever Redis holds, a product is shown only to a request during which it was on
\* sale and not deleted (Detail, service.go:336).
THEOREM HiddenStayHidden == Spec => []HiddenIsNotShown
<1>1. CacheInv => HiddenIsNotShown
  BY DEF CacheInv, VisibleWasPublic, HiddenIsNotShown
<1> QED
  BY <1>1, CacheInvariant, PTL

\* What is shown was the truth less than a lifetime of an entry and a request ago, for
\* any lifetimes, failures and refills (cache.Set, product.go:80).
THEOREM StaleIsBounded == Spec => []StalenessIsBounded
<1>1. CacheInv => StalenessIsBounded
  BY DEF CacheInv, Aging, MaxStaleness, StalenessIsBounded
<1> QED
  BY <1>1, CacheInvariant, PTL

\* Any number of concurrent patches, updates and SKU writes keep each other's columns
\* (Patch, product_patch.go:28).
THEOREM PatchesAreMerged == Spec => []PatchesMerge
<1>1. CacheInv => PatchesMerge
  BY DEF CacheInv
<1> QED
  BY <1>1, CacheInvariant, PTL

\* An entry is outdated only while an invalidation is due, or after one that failed
\* or that a refill has overtaken (service.go:337).
THEOREM OutdatedIsExplained == Spec => []OutdatedHasReason
<1>1. CacheInv => OutdatedHasReason
  BY DEF CacheInv
<1> QED
  BY <1>1, CacheInvariant, PTL
=============================================================================
