---------------------------- MODULE HttpEdgeProofs ----------------------------
(***************************************************************************)
(* What the two parts of the HTTP edge keep:                               *)
(*   1. the list endpoints and the bookmarks, for every limit of the page  *)
(*      size, every width of int, every catalogue and any requests;        *)
(*   2. the rate limiter, for any visitors, requests and parameters.       *)
(***************************************************************************)
EXTENDS RateLimiter, Browsing, FiniteSetTheorems, TLAPS

-----------------------------------------------------------------------------
(* 1. Lists and bookmarks. *)

(* The arithmetic of Pages. *)

\* What integer division means.
LEMMA Division ==
  ASSUME NEW n \in Nat, NEW d \in Nat \ {0}
  PROVE  /\ n \div d \in Nat
         /\ d * (n \div d) <= n
         /\ n < d * (n \div d) + d
<1>1. n % d \in 0..(d - 1)
  OBVIOUS
<1>2. n \div d \in Nat
  OBVIOUS
<1>3. n = d * (n \div d) + (n % d)
  OBVIOUS
<1> QED
  BY <1>1, <1>2, <1>3

\* A product grows with its second factor.
LEMMA ProductGrows ==
  ASSUME NEW m \in Nat, NEW a \in Nat, NEW b \in Nat, a <= b
  PROVE  m * a <= m * b
  OBVIOUS

\* No query gets pages of no row, or of more rows than the limit (pagination,
\* helpers.go:19).
THEOREM PageSizeInRange ==
  ASSUME NEW size \in Parameters
  PROVE  PageSize(size) \in 1..MaxPageSize
  BY PageLimits DEF PageSize, PositiveInt, Parameters

\* Whatever page a query asks for, the offset of the statement does not overflow,
\* nor does the number of the last row of the page (helpers.go:24).
THEOREM OffsetFits ==
  ASSUME NEW page \in Parameters, NEW size \in Parameters
  PROVE  LET s == PageSize(size)
             n == PageNumber(page, size)
         IN  Offset(n, s) \in Nat /\ Offset(n, s) + s <= MaxInt
<1> DEFINE s == PageSize(size)
           n == PageNumber(page, size)
<1>1. s \in 1..MaxPageSize
  BY PageSizeInRange
<1>2. s \in Nat \ {0} /\ s <= MaxInt /\ MaxInt \in Nat
  BY <1>1, PageLimits
<1>3. s * (MaxInt \div s) <= MaxInt /\ MaxInt \div s \in Nat
  BY <1>2, Division
<1>4. n \in Nat \ {0} /\ (n = 1 \/ n <= MaxInt \div s)
  BY <1>3 DEF PageNumber, PositiveInt, Parameters
<1> HIDE DEF s, n
<1>5. s * n <= MaxInt
  <2>1. CASE n = 1
    BY <2>1, <1>2
  <2>2. CASE n <= MaxInt \div s
    <3>1. s * n <= s * (MaxInt \div s)
      BY <2>2, <1>2, <1>3, <1>4, ProductGrows
    <3> QED
      BY <3>1, <1>2, <1>3, <1>4
  <2> QED
    BY <1>4, <2>1, <2>2
<1>6. PICK m \in Nat : n = m + 1
  <2>1. n - 1 \in Nat
    BY <1>4
  <2> QED
    BY <2>1, <1>4
<1>7. Offset(n, s) = m * s /\ s * n = m * s + s /\ m * s \in Nat
  BY <1>2, <1>6 DEF Offset
<1> QED
  BY <1>2, <1>5, <1>7 DEF s, n

\* hasMore says exactly whether rows are left behind the page (service.go:45).
THEOREM HasMoreIsExact ==
  ASSUME NEW total \in Nat, NEW page \in Nat \ {0}, NEW size \in Nat \ {0}
  PROVE  HasMore(total, page, size) <=> page * size < total
<1>1. CASE total = 0
  BY <1>1 DEF HasMore
<1>2. CASE total # 0
  <2> DEFINE q == (total - 1) \div size
  <2>1. q \in Nat /\ size * q <= total - 1 /\ total - 1 < size * q + size
    BY <1>2, Division
  <2>2. HasMore(total, page, size) <=> page <= q
    BY <1>2 DEF HasMore
  <2> HIDE DEF q
  <2>3. ASSUME page <= q PROVE page * size < total
    <3>1. size * page <= size * q
      BY <2>1, <2>3, ProductGrows
    <3> QED
      BY <2>1, <3>1
  <2>4. ASSUME ~(page <= q) PROVE ~(page * size < total)
    <3>1. size * (q + 1) <= size * page
      BY <2>1, <2>4, ProductGrows
    <3>2. size * (q + 1) = size * q + size
      BY <2>1
    <3> QED
      BY <2>1, <3>1, <3>2
  <2> QED
    BY <2>2, <2>3, <2>4
<1> QED
  BY <1>1, <1>2

-----------------------------------------------------------------------------
(* A bookmark is set once, and only of a product that was public              *)
(* (FavoriteRepository.Set, FavoriteService.Set).                             *)

\* What a request that is under way has found, and what is on sale, has been
\* public.
SeenIsPublic ==
  /\ \A p \in Products : Public(p) => p \in everPublic
  /\ \A q \in Setters : wish[q] # NoWish => wish[q].product \in everPublic

\* The inductive invariant.
BookmarkInv ==
  /\ wish \in [Setters -> [product : Products, favorite : BOOLEAN] \cup {NoWish}]
  /\ SeenIsPublic
  /\ BookmarksWerePublic

LEMMA BookmarkInit == BrowsingInit => BookmarkInv
  BY DEF BrowsingInit, BookmarkInv, SeenIsPublic, BookmarksWerePublic, Bookmarked, Public

LEMMA BookmarkStep == BookmarkInv /\ [BrowsingNext]_browsingVars => BookmarkInv'
<1> SUFFICES ASSUME BookmarkInv, [BrowsingNext]_browsingVars
             PROVE  BookmarkInv'
  OBVIOUS
<1> USE DEF BookmarkInv, SeenIsPublic, BookmarksWerePublic, Bookmarked, Public
<1>1. CASE UNCHANGED <<status, favorites, wish, everPublic>>
  BY <1>1
<1>2. ASSUME NEW q \in Setters, NEW p \in Products, NEW favorite \in BOOLEAN,
             RequirePublic(q, p, favorite)
      PROVE  BookmarkInv'
  BY <1>2 DEF RequirePublic, rows
<1>3. ASSUME NEW q \in Setters, SetBookmark(q)
      PROVE  BookmarkInv'
  <2> DEFINE p == wish[q].product
  <2>1. p \in everPublic /\ wish' = [wish EXCEPT ![q] = NoWish]
        /\ UNCHANGED <<status, everPublic>>
    BY <1>3 DEF SetBookmark
  <2>2. \/ favorites' = favorites
        \/ favorites' = {row \in favorites : row.product # p}
        \/ /\ favorites' = favorites \cup {[id |-> inserted + 1, product |-> p]}
           /\ p \notin Bookmarked
    BY <1>3 DEF SetBookmark, NoConflict
  <2>3. BookmarksWerePublic'
    BY <2>1, <2>2
  <2> QED
    BY <2>1, <2>3
<1>4. ASSUME NEW p \in Products, NEW value \in Statuses, WriteProduct(p, value)
      PROVE  BookmarkInv'
  <2>1. UNCHANGED <<favorites, wish>> /\ everPublic \subseteq everPublic'
    BY <1>4 DEF WriteProduct
  <2>2. \A x \in Products : status'[x] = StatusOnSale => x \in everPublic'
    BY <1>4 DEF WriteProduct
  <2> QED
    BY <2>1, <2>2
<1>5. QED
  BY <1>1, <1>2, <1>3, <1>4
  DEF BrowsingNext, StartWalk, CountItems, FindItems, RankProduct, CreateOrder, browsingVars, rows

\* No interleaving of the requests, and no write of the catalogue, bookmarks a
\* product twice or one that has never been public.
THEOREM BookmarksSafe == BrowsingSpec => []BookmarksWerePublic
<1>1. BookmarkInv => BookmarksWerePublic
  BY DEF BookmarkInv
<1> QED
  BY BookmarkInit, BookmarkStep, <1>1, PTL DEF BrowsingSpec

-----------------------------------------------------------------------------
(* A client that follows hasMore (NewPage, ProductRepository.List).           *)

\* How many items are ahead of one in the list that is walked.
Position(a) == Cardinality(Ahead(walk.list, a))
Begin == Offset(walk.page, walk.size)

RowTypes ==
  /\ rank \in [Products -> Int]
  /\ favorites \subseteq [id : Nat, product : Products] /\ inserted \in Nat
  /\ orders \in 0..MaxOrders

WalkTypes ==
  /\ walk \in [stage : {"idle", "count", "find", "done"}, list : Lists, page : Nat \ {0},
               size : 1..MaxPageSize, total : Nat,
               seen : SUBSET Nat, repeated : SUBSET Nat]

\* Where the items that were in the list all the time can be, from what the client
\* has seen of them and from what has moved.
Placed(a) ==
  /\ a \in Items(walk.list)
  /\ a \notin walk.seen \cup pulled => Position(a) >= Begin
  /\ a \in walk.seen \ pushed => Position(a) < Begin
  /\ walk.stage = "find" /\ a \notin torn => Position(a) < walk.total

\* WalkMissesNothing, and why.
WalkInv ==
  /\ RowTypes /\ WalkTypes
  /\ Walking => \A a \in stayed : Placed(a)
  /\ walk.stage = "find" => walk.total + MaxPageSize <= MaxInt
  /\ walk.stage = "idle" => walk.seen = {} /\ walk.repeated = {}
  /\ walk.repeated \cap stayed \subseteq pushed
  /\ walk.stage = "done" => stayed \ walk.seen \subseteq pulled \cup torn

\* A list is finite and short enough to be counted.
LEMMA ListCounted ==
  ASSUME RowTypes, NEW list \in Lists
  PROVE  /\ IsFiniteSet(Items(list)) /\ Items(list) \subseteq Nat
         /\ Cardinality(Items(list)) \in Nat
         /\ Cardinality(Items(list)) + MaxPageSize <= MaxInt
<1>1. /\ IsFiniteSet(1..Catalogue) /\ Cardinality(1..Catalogue) <= Catalogue
      /\ IsFiniteSet(1..MaxOrders) /\ Cardinality(1..MaxOrders) <= MaxOrders
      /\ Cardinality(1..Catalogue) \in Nat /\ Cardinality(1..MaxOrders) \in Nat
  <2>1. ASSUME NEW n \in Nat
        PROVE  IsFiniteSet(1..n) /\ Cardinality(1..n) = n
    <3>1. IsFiniteSet(1..n) /\ Cardinality(1..n) = IF 1 > n THEN 0 ELSE n - 1 + 1
      BY FS_Interval
    <3> QED
      BY <3>1
  <2> QED
    BY <2>1, ListsAreCounted
<1>2. Items(list) \subseteq 1..Catalogue \/ Items(list) \subseteq 1..MaxOrders
  <2>1. CASE list \in {"catalogue", "admin"}
    BY <2>1 DEF Items, Products
  <2>2. CASE list = "favorites"
    <3>1. Bookmarked \subseteq Products
      BY DEF Bookmarked, RowTypes
    <3> QED
      BY <2>2, <3>1 DEF Items, Products
  <2>3. CASE list = "orders"
    BY <2>3, ListsAreCounted DEF Items, RowTypes
  <2> QED
    BY <2>1, <2>2, <2>3 DEF Lists
<1>3. IsFiniteSet(Items(list)) /\ (\/ Cardinality(Items(list)) <= Catalogue
                                  \/ Cardinality(Items(list)) <= MaxOrders)
  BY <1>1, <1>2, FS_Subset, FS_CardinalityType, ListsAreCounted
<1>4. Cardinality(Items(list)) \in Nat
  BY <1>3, FS_CardinalityType
<1> QED
  BY <1>2, <1>3, <1>4, ListsAreCounted, PageLimits

\* An item is ahead of no less than all of them.
LEMMA PositionInList ==
  RowTypes /\ walk.list \in Lists =>
    \A a \in Items(walk.list) :
      /\ IsFiniteSet(Ahead(walk.list, a)) /\ Position(a) \in Nat
      /\ Position(a) < Cardinality(Items(walk.list))
<1> SUFFICES ASSUME RowTypes, walk.list \in Lists, NEW a \in Items(walk.list)
             PROVE  /\ IsFiniteSet(Ahead(walk.list, a)) /\ Position(a) \in Nat
                    /\ Position(a) < Cardinality(Items(walk.list))
  OBVIOUS
<1>1. IsFiniteSet(Items(walk.list)) /\ Cardinality(Items(walk.list)) \in Nat
  BY ListCounted
<1>2. ~Before(walk.list, a, a)
  <2>1. CASE walk.list \in {"catalogue", "admin"}
    <3>1. a \in Products /\ rank[a] \in Int /\ a \in Int
      BY <2>1 DEF Items, RowTypes, Products
    <3>2. ~(rank[a] > rank[a]) /\ ~(a > a)
      BY <3>1
    <3> QED
      BY <2>1, <3>2 DEF Before
  <2>2. CASE walk.list = "favorites"
    <3>1. \E row \in favorites : row.product = a
      BY <2>2 DEF Items, Bookmarked
    <3>2. BookmarkOf(a).id \in Nat
      BY <3>1 DEF BookmarkOf, RowTypes
    <3> QED
      BY <2>2, <3>2 DEF Before
  <2>3. CASE walk.list = "orders"
    BY <2>3 DEF Before, Items, RowTypes
  <2> QED
    BY <2>1, <2>2, <2>3 DEF Lists
<1>3. Ahead(walk.list, a) \in SUBSET Items(walk.list) /\ a \notin Ahead(walk.list, a)
  BY <1>2 DEF Ahead
<1>4. /\ IsFiniteSet(Ahead(walk.list, a))
      /\ Position(a) <= Cardinality(Items(walk.list))
      /\ Position(a) # Cardinality(Items(walk.list))
  BY <1>1, <1>3, FS_Subset DEF Position
<1> QED
  BY <1>1, <1>4, FS_CardinalityType DEF Position

\* A write of others moves the items that stay as Observe records it.
LEMMA ObservedMoves ==
  ASSUME WalkInv, RowTypes', Observe, UNCHANGED walk, Walking
  PROVE  WalkInv'
<1> DEFINE kept == stayed \cap Items(walk.list)'
           before == [a \in stayed |-> Ahead(walk.list, a)]
           after == [a \in kept |-> Ahead(walk.list, a)']
           back == {a \in kept : after[a] \ before[a] # {}}
<1>1. /\ stayed' = kept
      /\ pulled' = pulled \cup {a \in kept : before[a] \ after[a] # {}}
      /\ pushed' = pushed \cup back
      /\ torn' = IF walk.stage = "find" THEN torn \cup back ELSE torn
  BY DEF Observe
<1>2. walk.list \in Lists /\ walk'.list = walk.list
  BY DEF WalkInv, WalkTypes
<1> HIDE DEF kept
<1>3. (RowTypes /\ walk.list \in Lists =>
         \A a \in Items(walk.list) :
           /\ IsFiniteSet(Ahead(walk.list, a)) /\ Position(a) \in Nat
           /\ Position(a) < Cardinality(Items(walk.list)))'
  BY PositionInList, PTL
<1>4. ASSUME NEW a \in kept
      PROVE  Placed(a)'
  <2>1. Placed(a) /\ a \in Items(walk.list) /\ a \in Items(walk.list)'
    BY DEF WalkInv, Placed, kept
  <2>2. /\ before[a] = Ahead(walk.list, a) /\ after[a] = Ahead(walk.list, a)'
    BY DEF kept
  <2>3. IsFiniteSet(Ahead(walk.list, a)) /\ Position(a) \in Nat
    BY <1>2, <2>1, PositionInList DEF WalkInv
  <2>4. IsFiniteSet(Ahead(walk.list, a)') /\ Position(a)' \in Nat
    BY <1>2, <1>3, <2>1
  <2>5. a \notin pulled' => Position(a) <= Position(a)'
    <3>1. a \notin pulled' => Ahead(walk.list, a) \in SUBSET Ahead(walk.list, a)'
      BY <1>1, <2>2
    <3> QED
      BY <2>4, <3>1, FS_Subset DEF Position
  <2>6. ASSUME after[a] \ before[a] = {}
        PROVE  Position(a)' <= Position(a)
    <3>1. Ahead(walk.list, a)' \in SUBSET Ahead(walk.list, a)
      BY <2>2, <2>6
    <3> QED
      BY <2>3, <3>1, FS_Subset DEF Position
  <2>7. /\ Begin' = Begin /\ Begin \in Int /\ walk.total \in Nat
    BY DEF Begin, Offset, WalkInv, WalkTypes
  <2>8. pulled \subseteq pulled' /\ pushed \subseteq pushed' /\ torn \subseteq torn'
    BY <1>1
  <2>9. a \notin walk.seen \cup pulled' => Position(a)' >= Begin'
    BY <2>1, <2>3, <2>4, <2>5, <2>7, <2>8 DEF Placed
  <2>10. a \in walk.seen \ pushed' => Position(a)' < Begin'
    BY <1>1, <2>1, <2>3, <2>4, <2>6, <2>7, <2>8 DEF Placed
  <2>11. walk.stage = "find" /\ a \notin torn' => Position(a)' < walk.total
    BY <1>1, <2>1, <2>3, <2>4, <2>6, <2>7, <2>8 DEF Placed
  <2> QED
    BY <2>1, <2>9, <2>10, <2>11 DEF Placed
<1> QED
  BY <1>1, <1>4 DEF WalkInv, WalkTypes, Walking, kept

\* It moves nothing while nobody walks.
LEMMA OthersWrite ==
  ASSUME WalkInv, RowTypes', Observe, UNCHANGED walk
  PROVE  WalkInv'
<1>1. CASE Walking
  BY <1>1, ObservedMoves
<1>2. CASE ~Walking
  BY <1>2 DEF Observe, WalkInv, WalkTypes, Walking, history
<1> QED
  BY <1>1, <1>2

\* Nothing that the walk is about changes.
LEMMA RowsStay ==
  ASSUME UNCHANGED rows, NEW list, NEW a
  PROVE  /\ Items(list)' = Items(list)
         /\ Ahead(list, a)' = Ahead(list, a)
  BY DEF rows, Items, Ahead, Before, Bookmarked, BookmarkOf

\* The first page of any size.
LEMMA FirstPage ==
  ASSUME NEW size \in Parameters
  PROVE  PageNumber(1, size) = 1 /\ PageSize(size) \in 1..MaxPageSize
  BY PageSizeInRange DEF PageNumber, PositiveInt

\* hasMore leads to the next page and not back to the first.
LEMMA NextPage ==
  ASSUME NEW page \in Nat \ {0}, NEW size \in 1..MaxPageSize, NEW total \in Nat,
         page * size < total, total + MaxPageSize <= MaxInt
  PROVE  PageNumber(page + 1, size) = page + 1
<1>1. size \in Nat \ {0} /\ MaxInt \in Nat /\ MaxPageSize \in Nat /\ size <= MaxPageSize
  BY PageLimits
<1>2. PageSize(size) = size
  BY <1>1 DEF PageSize, PositiveInt
<1> DEFINE q == MaxInt \div size
<1>3. q \in Nat /\ MaxInt < size * q + size
  BY <1>1, Division
<1> HIDE DEF q
<1>4. page + 1 <= q
  <2> SUFFICES ASSUME ~(page + 1 <= q) PROVE FALSE
    OBVIOUS
  <2>1. size * q <= size * page
    BY <1>1, <1>3, ProductGrows
  <2>2. size * page = page * size /\ size * page \in Nat /\ size * q \in Nat
    BY <1>1, <1>3
  <2> QED
    BY <1>1, <1>3, <2>1, <2>2
<1>5. ~(page + 1 > MaxInt \div size) /\ page + 1 > 0
  BY <1>3, <1>4 DEF q
<1> QED
  BY <1>2, <1>5 DEF PageNumber, PositiveInt

LEMMA WalkInit == BrowsingInit => WalkInv
<1> SUFFICES ASSUME BrowsingInit PROVE WalkInv
  OBVIOUS
<1>1. RowTypes
  BY DEF BrowsingInit, RowTypes
<1>2. PICK list \in Lists : walk = Idle(list)
  BY DEF BrowsingInit
<1>3. WalkTypes /\ walk.stage = "idle" /\ walk.seen = {} /\ walk.repeated = {}
  BY <1>2, PageLimits DEF Idle, WalkTypes
<1> QED
  BY <1>1, <1>3 DEF WalkInv, Walking

LEMMA WalkStarts == WalkInv /\ StartWalk => WalkInv'
<1> SUFFICES ASSUME WalkInv, StartWalk PROVE WalkInv'
  OBVIOUS
<1>1. WalkTypes /\ walk.seen = {} /\ walk.repeated = {}
  BY DEF StartWalk, WalkInv
<1>2. PICK size \in 1..MaxPageSize :
        walk' = [walk EXCEPT !.stage = "count", !.page = 1, !.size = size]
  BY FirstPage, ListsAreCounted DEF StartWalk
<1>3. /\ WalkTypes' /\ walk'.stage = "count" /\ walk'.list = walk.list
      /\ walk'.seen = {} /\ walk'.repeated = {} /\ walk'.page = 1
  <2>1. 1 \in Nat \ {0} /\ "count" \in {"idle", "count", "find", "done"}
    OBVIOUS
  <2>2. /\ walk'.stage = "count" /\ walk'.list = walk.list
        /\ walk'.seen = {} /\ walk'.repeated = {} /\ walk'.page = 1
    BY <1>1, <1>2 DEF WalkTypes
  <2>3. WalkTypes'
    BY <1>1, <1>2, <2>1 DEF WalkTypes
  <2> QED
    BY <2>2, <2>3
<1>4. UNCHANGED rows /\ stayed' = Items(walk.list) /\ RowTypes'
  BY DEF StartWalk, WalkInv, RowTypes, rows
<1>5. ASSUME NEW a \in stayed' PROVE Placed(a)'
  <2>1. a \in Items(walk.list) /\ Items(walk.list)' = Items(walk.list)
        /\ Ahead(walk.list, a)' = Ahead(walk.list, a)
    BY <1>3, <1>4, <1>5, RowsStay
  <2>2. Position(a)' \in Nat
    BY <1>3, <2>1, PositionInList DEF WalkInv, WalkTypes, Position
  <2>3. Begin' = 0
    BY <1>3 DEF Begin, Offset, WalkTypes
  <2> QED
    BY <1>3, <2>1, <2>2, <2>3 DEF Placed
<1> QED
  BY <1>3, <1>4, <1>5 DEF WalkInv

LEMMA WalkCounts == WalkInv /\ CountItems => WalkInv'
<1> SUFFICES ASSUME WalkInv, CountItems PROVE WalkInv'
  OBVIOUS
<1> DEFINE total == Cardinality(Items(walk.list))
<1>1. total \in Nat /\ total + MaxPageSize <= MaxInt
  BY ListCounted DEF WalkInv, WalkTypes
<1>2. /\ WalkTypes' /\ walk'.stage = "find" /\ walk'.list = walk.list /\ walk'.total = total
      /\ walk'.seen = walk.seen /\ walk'.repeated = walk.repeated
      /\ walk'.page = walk.page /\ walk'.size = walk.size
  BY <1>1 DEF CountItems, WalkInv, WalkTypes
<1>3. UNCHANGED rows /\ UNCHANGED history /\ RowTypes'
  BY DEF CountItems, WalkInv, RowTypes, rows
<1>4. ASSUME NEW a \in stayed' PROVE Placed(a)'
  <2>1. Placed(a)
    BY <1>3, <1>4 DEF WalkInv, Walking, CountItems, history
  <2>2. Items(walk.list)' = Items(walk.list) /\ Ahead(walk.list, a)' = Ahead(walk.list, a)
    BY <1>2, <1>3, RowsStay
  <2>3. Position(a) < total
    BY <2>1, PositionInList DEF WalkInv, WalkTypes, Placed
  <2>4. Position(a)' = Position(a) /\ Begin' = Begin
    BY <1>2, <2>2 DEF Position, Begin
  <2> QED
    BY <1>2, <1>3, <2>1, <2>2, <2>3, <2>4 DEF Placed, history
<1> QED
  BY <1>1, <1>2, <1>3, <1>4 DEF WalkInv, history, CountItems

LEMMA WalkFinds == WalkInv /\ FindItems => WalkInv'
<1> SUFFICES ASSUME WalkInv, FindItems PROVE WalkInv'
  OBVIOUS
<1> DEFINE items == Window(walk.list, walk.page, walk.size)
           next == IF HasMore(walk.total, walk.page, walk.size) THEN "count" ELSE "done"
<1>1. WalkTypes /\ RowTypes /\ walk.stage = "find" /\ walk.total + MaxPageSize <= MaxInt
  BY DEF WalkInv, FindItems
<1>2. /\ walk.page \in Nat \ {0} /\ walk.size \in 1..MaxPageSize /\ walk.size \in Nat \ {0}
      /\ walk.total \in Nat /\ walk.list \in Lists
  BY <1>1, PageLimits DEF WalkTypes
<1>3. HasMore(walk.total, walk.page, walk.size) <=> walk.page * walk.size < walk.total
  BY <1>2, HasMoreIsExact
<1>4. next = "count" => PageNumber(walk.page + 1, walk.size) = walk.page + 1
  BY <1>1, <1>2, <1>3, NextPage
<1>5. items \subseteq Nat
  BY <1>1, <1>2, ListCounted DEF Window
<1>6. walk' = IF next = "count"
                THEN [walk EXCEPT !.seen = @ \cup items, !.repeated = @ \cup (walk.seen \cap items),
                                  !.stage = "count", !.page = walk.page + 1]
                ELSE [walk EXCEPT !.seen = @ \cup items, !.repeated = @ \cup (walk.seen \cap items),
                                  !.stage = "done"]
  BY <1>4 DEF FindItems
<1> HIDE DEF items, next
<1>7. next \in {"count", "done"}
  BY DEF next
<1>8. /\ WalkTypes' /\ walk'.stage = next /\ walk'.list = walk.list /\ walk'.size = walk.size
      /\ walk'.seen = walk.seen \cup items
      /\ walk'.repeated = walk.repeated \cup (walk.seen \cap items)
      /\ next = "count" => walk'.page = walk.page + 1
  <2> DEFINE seen == walk.seen \cup items
             repeated == walk.repeated \cup (walk.seen \cap items)
  <2>1. seen \in SUBSET Nat /\ repeated \in SUBSET Nat
    BY <1>1, <1>5 DEF WalkTypes
  <2>2. walk' = IF next = "count"
                  THEN [walk EXCEPT !.seen = seen, !.repeated = repeated,
                                    !.stage = "count", !.page = walk.page + 1]
                  ELSE [walk EXCEPT !.seen = seen, !.repeated = repeated, !.stage = "done"]
    BY <1>1, <1>6 DEF WalkTypes
  <2>3. walk.page + 1 \in Nat \ {0}
    BY <1>2
  <2> HIDE DEF seen, repeated
  <2>4. /\ WalkTypes' /\ walk'.stage = next /\ walk'.list = walk.list /\ walk'.size = walk.size
        /\ walk'.seen = seen /\ walk'.repeated = repeated
        /\ next = "count" => walk'.page = walk.page + 1
    <3>1. CASE next = "count"
      BY <1>1, <2>1, <2>2, <2>3, <3>1 DEF WalkTypes
    <3>2. CASE next = "done"
      BY <1>1, <2>1, <2>2, <3>2 DEF WalkTypes
    <3> QED
      BY <1>7, <3>1, <3>2
  <2> QED
    BY <2>4 DEF seen, repeated
<1>9. UNCHANGED rows /\ UNCHANGED history /\ RowTypes'
  BY <1>1 DEF FindItems, RowTypes, rows
<1> DEFINE last == walk.page * walk.size
<1>10. Begin \in Nat /\ last = Begin + walk.size
  <2>1. PICK m \in Nat : walk.page = m + 1
    <3>1. walk.page - 1 \in Nat
      BY <1>2
    <3> QED
      BY <1>2, <3>1
  <2> QED
    BY <1>2, <2>1 DEF Begin, Offset
<1>11. next = "count" => Begin' = last
  BY <1>2, <1>8 DEF Begin, Offset
<1>12. next = "done" => last >= walk.total
  BY <1>2, <1>3 DEF next
<1> HIDE DEF last
<1>13. ASSUME NEW a \in stayed
       PROVE  /\ Placed(a) /\ Position(a) \in Nat
              /\ a \in items <=> Position(a) \in Begin..(Begin + walk.size - 1)
              /\ Items(walk.list)' = Items(walk.list) /\ Position(a)' = Position(a)
  <2>1. Placed(a)
    BY <1>1 DEF WalkInv, Walking
  <2>2. Position(a) \in Nat
    BY <1>1, <1>2, <2>1, PositionInList DEF Placed
  <2>3. a \in items <=> Position(a) \in Begin..(Begin + walk.size - 1)
    BY <2>1 DEF items, Window, Placed, Position, Begin
  <2>4. Items(walk.list)' = Items(walk.list) /\ Ahead(walk.list, a)' = Ahead(walk.list, a)
    BY <1>8, <1>9, RowsStay
  <2> QED
    BY <1>8, <2>1, <2>2, <2>3, <2>4 DEF Position
<1>14. ASSUME NEW a \in stayed
       PROVE  /\ a \notin walk'.seen \cup pulled => Position(a) >= last
              /\ a \in walk'.seen \ pushed => Position(a) < last
              /\ a \in walk.seen \cap items => a \in pushed
  BY <1>2, <1>8, <1>10, <1>13 DEF Placed
<1>15. ASSUME NEW a \in stayed', next = "count" PROVE Placed(a)'
  BY <1>8, <1>9, <1>11, <1>13, <1>14, <1>15 DEF Placed, history
<1>16. ASSUME NEW a \in stayed, a \notin walk'.seen, next = "done" PROVE a \in pulled \cup torn
  BY <1>1, <1>2, <1>8, <1>10, <1>12, <1>13, <1>14, <1>16 DEF Placed
<1>17. walk'.repeated \cap stayed \subseteq pushed
  BY <1>8, <1>14 DEF WalkInv
<1> QED
  BY <1>7, <1>8, <1>9, <1>15, <1>16, <1>17 DEF WalkInv, Walking, history

LEMMA WalkStep == WalkInv /\ BookmarkInv /\ [BrowsingNext]_browsingVars => WalkInv'
<1> SUFFICES ASSUME WalkInv, BookmarkInv, [BrowsingNext]_browsingVars PROVE WalkInv'
  OBVIOUS
<1>1. RowTypes
  BY DEF WalkInv
<1>2. CASE UNCHANGED <<rows, walk, history>>
  <2>1. \A a : /\ Items(walk.list)' = Items(walk.list)
              /\ Ahead(walk.list, a)' = Ahead(walk.list, a)
    BY <1>2, RowsStay
  <2>2. \A a : Placed(a)' <=> Placed(a)
    BY <1>2, <2>1 DEF Placed, Position, Begin, history
  <2> QED
    BY <1>2, <2>2 DEF WalkInv, WalkTypes, RowTypes, Walking, rows, history
<1>3. CASE StartWalk \/ CountItems \/ FindItems
  BY <1>3, WalkStarts, WalkCounts, WalkFinds
<1>4. ASSUME NEW q \in Setters, NEW p \in Products, NEW favorite \in BOOLEAN,
             RequirePublic(q, p, favorite)
      PROVE  WalkInv'
  BY <1>2, <1>4 DEF RequirePublic
<1>5. ASSUME NEW q \in Setters, SetBookmark(q) PROVE WalkInv'
  <2>0. wish[q].product \in Products
    BY <1>5 DEF SetBookmark, BookmarkInv
  <2>1. RowTypes'
    BY <1>1, <1>5, <2>0 DEF SetBookmark, RowTypes
  <2> QED
    BY <1>5, <2>1, OthersWrite DEF SetBookmark
<1>6. ASSUME NEW p \in Products, NEW value \in Statuses, WriteProduct(p, value) PROVE WalkInv'
  <2>1. RowTypes'
    BY <1>1, <1>6 DEF WriteProduct, RowTypes
  <2> QED
    BY <1>6, <2>1, OthersWrite DEF WriteProduct
<1>7. ASSUME NEW p \in Products, RankProduct(p) PROVE WalkInv'
  <2>1. RowTypes'
    BY <1>1, <1>7 DEF RankProduct, RowTypes
  <2> QED
    BY <1>7, <2>1, OthersWrite DEF RankProduct
<1>8. CASE CreateOrder
  <2>1. RowTypes'
    BY <1>1, <1>8, ListsAreCounted DEF CreateOrder, RowTypes
  <2> QED
    BY <1>8, <2>1, OthersWrite DEF CreateOrder
<1> QED
  BY <1>2, <1>3, <1>4, <1>5, <1>6, <1>7, <1>8 DEF BrowsingNext, browsingVars

\* A client that reads a list of any length to its end, in pages of any size, while others
\* write, misses only what moved past its page and sees twice only what was pushed
\* into it (NewPage, service.go:45; orderFor, repository.go:181).
THEOREM WalkIsComplete == BrowsingSpec => []WalkMissesNothing
<1>1. WalkInv => WalkMissesNothing
  BY DEF WalkInv, WalkMissesNothing
<1>2. BrowsingInit => WalkInv /\ BookmarkInv
  BY WalkInit, BookmarkInit
<1>3. WalkInv /\ BookmarkInv /\ [BrowsingNext]_browsingVars => (WalkInv /\ BookmarkInv)'
  BY WalkStep, BookmarkStep
<1> QED
  BY <1>1, <1>2, <1>3, PTL DEF BrowsingSpec

-----------------------------------------------------------------------------
(* 2. The limiter.                                                         *)
(*                                                                         *)
(* A bucket refills at a constant rate, so that tokens minus what time has *)
(* brought only ever falls, by the cost of each admission, whatever the    *)
(* order of the readings (Level).  The admissions in a period are what it  *)
(* fell by.  An entry that is evicted is old enough to be full             *)
(* (EvictionFits), so that the period may reach across it.                 *)

\* A product with a natural grows with its other factor.
LEMMA ScaledGrows ==
  ASSUME NEW m \in Nat, NEW a \in Int, NEW b \in Int, a <= b
  PROVE  m * a \in Int /\ m * b \in Int /\ m * a <= m * b
<1>1. PICK d \in Nat : b = a + d
  <2>1. b - a \in Nat /\ b = a + (b - a)
    OBVIOUS
  <2> QED
    BY <2>1
<1>2. m * d \in Nat /\ m * b = m * a + m * d
  BY <1>1
<1> QED
  BY <1>2

LEMMA LesserOfTwo ==
  ASSUME NEW a \in Int, NEW b \in Int
  PROVE  Min({a, b}) = IF a <= b THEN a ELSE b
<1>1. \A x \in {a, b} : (\A y \in {a, b} : x <= y) => x = IF a <= b THEN a ELSE b
  OBVIOUS
<1>2. (IF a <= b THEN a ELSE b) \in {a, b} /\ \A y \in {a, b} : (IF a <= b THEN a ELSE b) <= y
  OBVIOUS
<1> QED
  BY <1>1, <1>2 DEF Min

Bucket == [tokens : Int, last : Nat]

\* The requests of k that were admitted with a reading from a to b.
Admissions(k, a, b) == {r \in Admitted(k) : now[r] \in a..b}

LimiterTypes ==
  /\ clock \in Nat /\ lastSweep \in 0..clock
  /\ visitors \in [Keys -> {NoVisitor} \cup Bucket]
  /\ now \in [Requests -> 0..clock]
  /\ pc \in [Requests -> {"new", "timed", "admitted", "refused", "turnedAway"}]
  /\ \A k \in Keys : IsFiniteSet(Admitted(k))

NobodyIsLate == \A r \in Requests : pc[r] = "timed" => clock - now[r] <= MaxWait

\* What a bucket held at the beginning of time, had it never been full or used.
Level(bucket) == bucket.tokens - Rate * bucket.last

\* Admissions and tokens are bounded together, and what out-of-order readings take
\* from a bucket is no more than what comes in while a request waits.
BucketFits(k, bucket) ==
  /\ \A a, b \in Nat : Admissions(k, a, b) # {} =>
       Cost * Cardinality(Admissions(k, a, b)) + Level(bucket) <= Cost * Burst - Rate * a
  /\ Level(bucket) >= - (Rate * clock)
  /\ bucket.tokens >= - (Rate * MaxWait)

\* Where there is no bucket, a full one is the right one, for every reading to come.
FullFits(k) ==
  \A a, b \in Nat : Admissions(k, a, b) # {} =>
    Cost * Cardinality(Admissions(k, a, b)) <= Rate * (clock - MaxWait - a)

WithinAllowance(k) ==
  \A a, b \in Nat : Admissions(k, a, b) # {} =>
    Cost * Cardinality(Admissions(k, a, b)) <= Cost * Burst + Rate * (b - a)

\* The entry of a bucket has been used, and lately when it was last swept.
UsedLately(k) ==
  \E q \in Requests :
    /\ Key[q] = k /\ pc[q] \in {"admitted", "refused"} /\ lastSweep - now[q] <= TTL

LastIsUse(k) ==
  \E q \in Requests : Key[q] = k /\ pc[q] \in {"admitted", "refused"} /\ now[q] = visitors[k].last

LimiterInv ==
  /\ LimiterTypes /\ NobodyIsLate
  /\ \A k \in Keys :
       /\ IF visitors[k] = NoVisitor THEN FullFits(k)
            ELSE BucketFits(k, visitors[k]) /\ LastIsUse(k) /\ UsedLately(k)
       /\ WithinAllowance(k)

LEMMA LimiterNumbers ==
  /\ Rate \in Nat /\ Cost \in Nat /\ Burst \in Nat /\ TTL \in Nat /\ SweepInterval \in Nat
  /\ MaxWait \in Nat /\ Cost > 0 /\ Burst > 0 /\ Rate > 0
  /\ Cost * Burst <= Rate * TTL - 2 * (Rate * MaxWait)
  /\ Cost * Burst \in Nat /\ Rate * TTL \in Nat /\ Rate * MaxWait \in Nat
  /\ MaxWait <= TTL
<1>1. /\ Rate \in Nat /\ Cost \in Nat /\ Burst \in Nat /\ TTL \in Nat /\ SweepInterval \in Nat
      /\ MaxWait \in Nat /\ Cost > 0 /\ Burst > 0 /\ Rate > 0
  BY LimiterIsWellFormed
<1>2. Rate * (TTL - 2 * MaxWait) >= Cost * Burst
  BY IdleBucketsAreFull
<1>3. Rate * (TTL - 2 * MaxWait) = Rate * TTL - 2 * (Rate * MaxWait)
  BY <1>1
<1>4. Cost * Burst \in Nat /\ Rate * TTL \in Nat /\ Rate * MaxWait \in Nat
  BY <1>1
<1>5. MaxWait <= TTL
  <2> SUFFICES ASSUME TTL < MaxWait PROVE FALSE
    BY <1>1
  <2>1. TTL + 1 <= MaxWait
    BY <1>1
  <2>2. Rate * (TTL + 1) <= Rate * MaxWait
    BY <1>1, <2>1, ScaledGrows
  <2>3. Rate * (TTL + 1) = Rate * TTL + Rate
    BY <1>1
  <2> QED
    BY <1>1, <1>2, <1>3, <1>4, <2>2, <2>3
<1> QED
  BY <1>1, <1>2, <1>3, <1>4, <1>5

\* A window is a finite set.
LEMMA AdmissionsCounted ==
  ASSUME LimiterTypes, NEW k \in Keys, NEW a, NEW b
  PROVE  IsFiniteSet(Admissions(k, a, b)) /\ Cardinality(Admissions(k, a, b)) \in Nat
<1>1. IsFiniteSet(Admitted(k)) /\ Admissions(k, a, b) \subseteq Admitted(k)
  BY DEF LimiterTypes, Admissions
<1> QED
  BY <1>1, FS_Subset, FS_CardinalityType

\* One more admission is in the window or not.
LEMMA AdmissionsGrow ==
  ASSUME LimiterTypes, NEW k \in Keys, NEW r \in Requests, r \notin Admitted(k),
         Admitted(k)' = Admitted(k) \cup {r}, now' = now, NEW a, NEW b
  PROVE  \/ /\ Admissions(k, a, b)' = Admissions(k, a, b) /\ now[r] \notin a..b
         \/ /\ now[r] \in a..b
            /\ Cardinality(Admissions(k, a, b)') = Cardinality(Admissions(k, a, b)) + 1
<1>1. CASE now[r] \notin a..b
  BY <1>1 DEF Admissions
<1>2. CASE now[r] \in a..b
  <2>1. Admissions(k, a, b)' = Admissions(k, a, b) \cup {r} /\ r \notin Admissions(k, a, b)
    BY <1>2 DEF Admissions
  <2> QED
    BY <1>2, <2>1, AdmissionsCounted, FS_AddElement
<1> QED
  BY <1>1, <1>2

-----------------------------------------------------------------------------
\* Eviction loses nothing: the entry is older than its bucket takes to fill.
LEMMA EvictionFits ==
  ASSUME LimiterInv, NEW r \in Requests, NEW k \in Keys, Swept(now[r])[k] = NoVisitor
  PROVE  FullFits(k)
<1>1. CASE visitors[k] = NoVisitor
  BY <1>1 DEF LimiterInv
<1>2. CASE visitors[k] # NoVisitor
  <2> DEFINE v == visitors[k]
  <2>1. now[r] - v.last > TTL
    BY <1>2 DEF Swept
  <2>2. /\ now[r] \in Nat /\ now[r] <= clock /\ clock \in Nat /\ v.last \in Nat /\ v.tokens \in Int
    BY <1>2 DEF LimiterInv, LimiterTypes, Bucket
  <2>3. v.tokens >= - (Rate * MaxWait)
    BY <1>2 DEF LimiterInv, BucketFits
  <2>4. v.last <= clock - TTL
    BY <2>1, <2>2, LimiterNumbers
  <2>5. /\ Rate * v.last <= Rate * (clock - TTL) /\ Rate * v.last \in Int
        /\ Rate * (clock - TTL) = Rate * clock - Rate * TTL /\ Rate * clock \in Nat
    <3>1. clock - TTL \in Int
      BY <2>2, LimiterNumbers
    <3>2. Rate * v.last <= Rate * (clock - TTL)
      BY <2>2, <2>4, <3>1, LimiterNumbers, ScaledGrows
    <3> QED
      BY <2>2, <3>2, LimiterNumbers
  <2>6. ASSUME NEW a \in Nat, NEW b \in Nat, Admissions(k, a, b) # {}
        PROVE  Cost * Cardinality(Admissions(k, a, b)) <= Rate * (clock - MaxWait - a)
    <3> DEFINE n == Cardinality(Admissions(k, a, b))
    <3>1. n \in Nat
      BY AdmissionsCounted DEF LimiterInv
    <3>2. Cost * n + (v.tokens - Rate * v.last) <= Cost * Burst - Rate * a
      BY <1>2, <2>6 DEF LimiterInv, BucketFits, Level
    <3> HIDE DEF n, v
    <3>3. Cost * n \in Nat /\ Rate * a \in Nat
      BY <3>1, LimiterNumbers
    <3>4. Rate * (clock - MaxWait - a) = Rate * clock - Rate * MaxWait - Rate * a
      BY <2>2, LimiterNumbers
    <3>5. Cost * n <= Rate * clock - Rate * MaxWait - Rate * a
      BY <2>2, <2>3, <2>5, <3>2, <3>3, LimiterNumbers
    <3> QED
      BY <3>4, <3>5 DEF n
  <2> QED
    BY <2>6 DEF FullFits
<1> QED
  BY <1>1, <1>2

\* A step that admits nobody for k and leaves its bucket, or drops it.
LEMMA OthersFit ==
  ASSUME LimiterInv, NEW r \in Requests, Allow(r), NEW k \in Keys, Admitted(k)' = Admitted(k),
         visitors'[k] = Swept(now[r])[k]
  PROVE  /\ IF visitors'[k] = NoVisitor THEN FullFits(k)' ELSE BucketFits(k, visitors[k])'
         /\ WithinAllowance(k)'
<1>1. UNCHANGED <<clock, now>> /\ \A a, b : Admissions(k, a, b)' = Admissions(k, a, b)
  BY DEF Allow, Admissions
<1>2. WithinAllowance(k)'
  BY <1>1 DEF LimiterInv, WithinAllowance
<1>3. CASE Swept(now[r])[k] = NoVisitor
  <2>1. FullFits(k)
    BY <1>3, EvictionFits
  <2> QED
    BY <1>1, <1>2, <1>3, <2>1 DEF FullFits
<1>4. CASE Swept(now[r])[k] # NoVisitor
  <2>1. visitors'[k] = visitors[k] /\ visitors[k] # NoVisitor
    BY <1>4 DEF Swept
  <2>2. BucketFits(k, visitors[k])
    BY <2>1 DEF LimiterInv
  <2> QED
    BY <1>1, <1>2, <2>1, <2>2 DEF BucketFits, Level
<1> QED
  BY <1>3, <1>4

\* The bucket that r takes its token from, or is refused by.
LEMMA UsedBucketFits ==
  ASSUME LimiterInv, NEW r \in Requests, pc[r] = "timed",
         NEW v \in Bucket, v = visitors[Key[r]],
         NEW tokens, tokens = Refilled(v, now[r])
  PROVE  /\ tokens \in Int
         /\ tokens - Rate * now[r] <= Level(v)
         /\ tokens - Rate * now[r] >= - (Rate * clock)
         /\ tokens >= - (Rate * MaxWait)
<1> DEFINE t == now[r]
<1>1. /\ t \in Nat /\ clock \in Nat /\ t <= clock /\ clock - t <= MaxWait
      /\ v.tokens \in Int /\ v.last \in Nat /\ Key[r] \in Keys
  BY LimiterIsWellFormed DEF LimiterInv, LimiterTypes, NobodyIsLate, Bucket
<1>2. v # NoVisitor
  BY LimiterIsWellFormed DEF Bucket
<1>3. v.tokens - Rate * v.last >= - (Rate * clock)
  BY <1>1, <1>2 DEF LimiterInv, BucketFits, Level
<1>4. /\ Rate * t <= Rate * clock /\ Rate * t \in Int /\ Rate * clock \in Int /\ Rate * v.last \in Int
      /\ (t - v.last) * Rate = Rate * t - Rate * v.last
      /\ Rate * clock <= Rate * (t + MaxWait) /\ Rate * (t + MaxWait) = Rate * t + Rate * MaxWait
  <2>1. Rate * t <= Rate * clock
    BY <1>1, LimiterNumbers, ScaledGrows
  <2>2. clock <= t + MaxWait /\ t + MaxWait \in Int
    BY <1>1, LimiterNumbers
  <2>3. Rate * clock <= Rate * (t + MaxWait)
    BY <1>1, <2>2, LimiterNumbers, ScaledGrows
  <2> QED
    BY <1>1, <2>1, <2>3, LimiterNumbers
<1>5. Burst * Cost = Cost * Burst /\ Burst * Cost \in Nat
  BY LimiterNumbers
<1> DEFINE x == v.tokens + (t - v.last) * Rate
           y == Burst * Cost
<1>6. tokens = IF x <= y THEN x ELSE y
  <2>1. x \in Int /\ y \in Int
    BY <1>1, <1>4, <1>5
  <2>2. tokens = Min({x, y})
    BY DEF Refilled
  <2> HIDE DEF x, y
  <2> QED
    BY <2>1, <2>2, LesserOfTwo
<1>7. x = v.tokens + Rate * t - Rate * v.last
  BY <1>1, <1>4
<1> HIDE DEF x, t
<1>8. Rate * MaxWait \in Nat
  BY LimiterNumbers
<1>9. /\ tokens \in Int /\ tokens - Rate * t <= v.tokens - Rate * v.last
      /\ tokens - Rate * t >= - (Rate * clock) /\ tokens >= - (Rate * MaxWait)
  BY <1>1, <1>3, <1>4, <1>5, <1>6, <1>7, <1>8
<1> QED
  BY <1>9 DEF t, Level

\* Admission leaves tokens, so that the bound on both is one on the admissions.
LEMMA AdmissionFits ==
  ASSUME LimiterInv, LimiterTypes', NEW k \in Keys, NEW t \in Nat, t <= clock, NEW v \in Bucket, v.last = t,
         v.tokens >= 0, clock' = clock,
         \A a, b \in Nat : Admissions(k, a, b)' # {} /\ t \in a..b =>
           Cost * Cardinality(Admissions(k, a, b)') + Level(v) <= Cost * Burst - Rate * a,
         \A a, b \in Nat : t \notin a..b => Admissions(k, a, b)' = Admissions(k, a, b)
  PROVE  WithinAllowance(k)'
<1>1. ASSUME NEW a \in Nat, NEW b \in Nat, Admissions(k, a, b)' # {}
      PROVE  Cost * Cardinality(Admissions(k, a, b)') <= Cost * Burst + Rate * (b - a)
  <2>1. CASE t \notin a..b
    BY <1>1, <2>1 DEF LimiterInv, WithinAllowance
  <2>2. CASE t \in a..b
    <3> DEFINE n == Cardinality(Admissions(k, a, b)')
    <3>1. n \in Nat
      <4>1. IsFiniteSet(Admitted(k)') /\ Admissions(k, a, b)' \subseteq Admitted(k)'
        BY DEF LimiterTypes, Admissions
      <4> QED
        BY <4>1, FS_Subset, FS_CardinalityType
    <3>2. Cost * n + Level(v) <= Cost * Burst - Rate * a
      BY <1>1, <2>2
    <3>3. Level(v) = v.tokens - Rate * t
      BY DEF Level
    <3>4. Rate * t <= Rate * b /\ Rate * t \in Int /\ Rate * b \in Int
      BY <2>2, LimiterNumbers, ScaledGrows
    <3>5. Rate * (b - a) = Rate * b - Rate * a /\ Rate * a \in Int /\ v.tokens \in Int /\ Cost * n \in Int
      BY <3>1, LimiterNumbers DEF Bucket
    <3> HIDE DEF n
    <3>6. Cost * n <= Cost * Burst + Rate * (b - a)
      BY <3>2, <3>3, <3>4, <3>5, LimiterNumbers
    <3> QED
      BY <3>6 DEF n
  <2> QED
    BY <2>1, <2>2
<1> QED
  BY <1>1 DEF WithinAllowance

\* The step of the visitor k = Key[r].
LEMMA VisitFits ==
  ASSUME LimiterInv, LimiterTypes', NEW r \in Requests, Allow(r), NEW k \in Keys, k = Key[r]
  PROVE  /\ IF visitors'[k] = NoVisitor THEN FullFits(k)' ELSE BucketFits(k, visitors[k])'
         /\ WithinAllowance(k)'
<1> DEFINE t == now[r]
           table == Swept(t)
           level == Level(visitors'[k])
<1>1. /\ pc[r] = "timed" /\ UNCHANGED <<clock, now>> /\ t \in Nat /\ clock \in Nat /\ t <= clock
      /\ r \notin Admitted(k)
  BY DEF Allow, LimiterInv, LimiterTypes, Admitted
<1>2. table \in [Keys -> {NoVisitor} \cup Bucket] /\ (table[k] # NoVisitor => table[k] = visitors[k])
  BY DEF Swept, LimiterInv, LimiterTypes
<1>3. Rate * t <= Rate * clock /\ Rate * t \in Nat /\ Rate * clock \in Nat
  BY <1>1, LimiterNumbers, ScaledGrows
<1>4. CASE pc'[r] # "admitted"
  <2>1. Admitted(k)' = Admitted(k) /\ \A a, b : Admissions(k, a, b)' = Admissions(k, a, b)
    <3>1. \A q \in Requests : pc'[q] = "admitted" <=> pc[q] = "admitted"
      BY <1>1, <1>4 DEF Allow, Visit, LimiterInv, LimiterTypes
    <3> QED
      BY <1>1, <3>1 DEF Admitted, Admissions
  <2>2. CASE visitors' = table
    BY <2>1, <2>2, OthersFit
  <2>3. CASE visitors' # table
    <3> DEFINE v == visitors[k]
    <3>1. /\ v \in Bucket /\ table[k] = v
          /\ visitors'[k] = [tokens |-> Refilled(v, t), last |-> t]
      BY <1>1, <1>2, <1>4, <2>3, LimiterIsWellFormed DEF Allow, Visit, LimiterInv, LimiterTypes
    <3>2. /\ Refilled(v, t) \in Int /\ Refilled(v, t) - Rate * t <= Level(v)
          /\ Refilled(v, t) - Rate * t >= - (Rate * clock) /\ Refilled(v, t) >= - (Rate * MaxWait)
      BY <1>1, <3>1, UsedBucketFits
    <3>3. level = Refilled(v, t) - Rate * t /\ visitors'[k] \in Bucket /\ visitors'[k].tokens = Refilled(v, t)
      BY <1>1, <3>1, <3>2 DEF Level, Bucket
    <3>4. BucketFits(k, v) /\ Level(v) \in Int
      BY <3>1, LimiterIsWellFormed, LimiterNumbers DEF LimiterInv, Bucket, Level
    <3>5. ASSUME NEW a \in Nat, NEW b \in Nat, Admissions(k, a, b)' # {}
          PROVE  Cost * Cardinality(Admissions(k, a, b)') + level <= Cost * Burst - Rate * a
      <4> DEFINE n == Cardinality(Admissions(k, a, b))
      <4>1. n \in Nat /\ Cost * n + Level(v) <= Cost * Burst - Rate * a
        BY <2>1, <3>4, <3>5, AdmissionsCounted DEF LimiterInv, BucketFits
      <4>2. level \in Int /\ level <= Level(v) /\ Cost * n \in Int /\ Rate * a \in Int
        BY <1>3, <3>2, <3>3, <4>1, LimiterNumbers
      <4> HIDE DEF n, level, v
      <4>3. Cost * n + level <= Cost * Burst - Rate * a
        BY <3>4, <4>1, <4>2, LimiterNumbers
      <4> QED
        BY <2>1, <4>3 DEF n
    <3>6. BucketFits(k, visitors[k])'
      BY <1>1, <3>2, <3>3, <3>5 DEF BucketFits
    <3>7. WithinAllowance(k)'
      BY <2>1 DEF LimiterInv, WithinAllowance
    <3> QED
      BY <3>3, <3>6, <3>7, LimiterIsWellFormed DEF Bucket
  <2> QED
    BY <2>2, <2>3
<1>5. CASE pc'[r] = "admitted"
  <2>1. Admitted(k)' = Admitted(k) \cup {r}
    <3>1. \A q \in Requests : q # r => pc'[q] = pc[q]
      BY DEF Allow, Visit, LimiterInv, LimiterTypes
    <3> QED
      BY <1>5, <3>1 DEF Admitted
  <2>2. PICK tokens \in Int :
          /\ visitors'[k] = [tokens |-> tokens, last |-> t] /\ tokens >= 0
          /\ tokens - Rate * t >= - (Rate * clock) /\ tokens >= - (Rate * MaxWait)
          /\ \/ FullFits(k) /\ tokens = Cost * Burst - Cost
             \/ /\ visitors[k] \in Bucket /\ BucketFits(k, visitors[k])
                /\ tokens - Rate * t <= Level(visitors[k]) - Cost
                /\ tokens <= Cost * Burst - Cost
    <3>1. CASE table[k] = NoVisitor
      <4>1. visitors'[k] = [tokens |-> (Burst - 1) * Cost, last |-> t]
        BY <1>2, <1>5, <3>1 DEF Allow, Visit, LimiterInv, LimiterTypes
      <4>2. (Burst - 1) * Cost = Cost * Burst - Cost /\ (Burst - 1) * Cost \in Nat
        BY LimiterNumbers
      <4>3. FullFits(k)
        BY <3>1, EvictionFits
      <4>4. /\ (Burst - 1) * Cost - Rate * t >= - (Rate * clock)
            /\ (Burst - 1) * Cost >= - (Rate * MaxWait)
        BY <1>3, <4>2, LimiterNumbers
      <4> QED
        BY <4>1, <4>2, <4>3, <4>4
    <3>2. CASE table[k] # NoVisitor
      <4> DEFINE v == visitors[k]
                 new == Refilled(v, t)
      <4>1. /\ v \in Bucket /\ table[k] = v /\ new >= Cost
            /\ visitors'[k] = [tokens |-> new - Cost, last |-> t]
        <5>1. table[k] = v /\ v \in Bucket
          BY <1>2, <3>2
        <5>2. new \in Int
          BY <1>1, <5>1, UsedBucketFits
        <5>3. IF new < Cost THEN Visit(r, table, new, "refused") ELSE Visit(r, table, new - Cost, "admitted")
          BY <3>2, <5>1 DEF Allow
        <5>4. ~(new < Cost)
          BY <1>5, <5>3 DEF Visit, LimiterInv, LimiterTypes
        <5> HIDE DEF new, table, v
        <5> QED
          BY <1>2, <5>1, <5>2, <5>3, <5>4, LimiterNumbers DEF Visit
      <4>2. new \in Int /\ new - Rate * t <= Level(v)
        BY <1>1, <4>1, UsedBucketFits
      <4>3. BucketFits(k, v)
        BY <4>1, LimiterIsWellFormed DEF LimiterInv, Bucket
      <4>4. new <= Cost * Burst
        <5>1. v.tokens + (t - v.last) * Rate \in Int /\ Burst * Cost = Cost * Burst /\ Burst * Cost \in Int
          BY <1>1, <4>1, LimiterNumbers DEF Bucket
        <5> QED
          BY <5>1, LesserOfTwo DEF Refilled
      <4>5. Level(v) \in Int
        BY <4>1, LimiterNumbers DEF Level, Bucket
      <4> HIDE DEF new
      <4>6. /\ new - Cost \in Int /\ new - Cost >= 0
            /\ new - Cost - Rate * t >= - (Rate * clock) /\ new - Cost >= - (Rate * MaxWait)
            /\ new - Cost - Rate * t <= Level(v) - Cost
            /\ new - Cost <= Cost * Burst - Cost
        BY <1>3, <4>1, <4>2, <4>4, <4>5, LimiterNumbers
      <4> QED
        BY <4>1, <4>3, <4>6
    <3> QED
      BY <3>1, <3>2
  <2>3. /\ level = tokens - Rate * t /\ visitors'[k] \in Bucket /\ level \in Int
        /\ visitors'[k].tokens = tokens /\ visitors'[k].last = t
    BY <1>1, <1>3, <2>2 DEF Level, Bucket
  <2>4. ASSUME NEW a \in Nat, NEW b \in Nat, Admissions(k, a, b)' # {}
        PROVE  Cost * Cardinality(Admissions(k, a, b)') + level <= Cost * Burst - Rate * a
    <3> DEFINE n == Cardinality(Admissions(k, a, b))
               m == Cardinality(Admissions(k, a, b)')
    <3>1. n \in Nat
      BY AdmissionsCounted DEF LimiterInv
    <3>2. (m = n /\ Admissions(k, a, b) # {}) \/ (m = n + 1 /\ t \in a..b)
      BY <1>1, <2>1, <2>4, AdmissionsGrow DEF LimiterInv
    <3>3. Cost * n \in Nat /\ Rate * a \in Nat /\ Cost * m <= Cost * n + Cost /\ Cost * m \in Nat
      BY <3>1, <3>2, LimiterNumbers
    <3>4. CASE Admissions(k, a, b) # {} /\ FullFits(k) /\ tokens = Cost * Burst - Cost
      <4>1. Cost * n <= Rate * (clock - MaxWait - a)
        BY <3>4 DEF FullFits
      <4>2. clock - MaxWait - a <= t - a
        BY <1>1, LimiterNumbers DEF LimiterInv, NobodyIsLate
      <4>3. Cost * n <= Rate * t - Rate * a
        <5>1. clock - MaxWait - a \in Int /\ t - a \in Int
          BY <1>1, LimiterNumbers
        <5>2. /\ Rate * (clock - MaxWait - a) <= Rate * (t - a) /\ Rate * (t - a) = Rate * t - Rate * a
              /\ Rate * (clock - MaxWait - a) \in Int
          BY <1>1, <4>2, <5>1, LimiterNumbers, ScaledGrows
        <5> QED
          BY <1>3, <3>3, <4>1, <5>2
      <4> HIDE DEF n, m, level
      <4>4. Cost * m + level <= Cost * Burst - Rate * a
        BY <1>3, <2>3, <3>3, <3>4, <4>3, LimiterNumbers
      <4> QED
        BY <4>4 DEF m
    <3>5. CASE /\ Admissions(k, a, b) # {}
               /\ visitors[k] \in Bucket /\ BucketFits(k, visitors[k])
               /\ tokens - Rate * t <= Level(visitors[k]) - Cost
      <4>1. Cost * n + Level(visitors[k]) <= Cost * Burst - Rate * a
        BY <3>5 DEF BucketFits
      <4>2. Level(visitors[k]) \in Int
        BY <3>5, LimiterNumbers DEF Level, Bucket
      <4> HIDE DEF n, m, level
      <4>3. Cost * m + level <= Cost * Burst - Rate * a
        BY <1>3, <2>3, <3>3, <3>5, <4>1, <4>2, LimiterNumbers
      <4> QED
        BY <4>3 DEF m
    <3>6. CASE Admissions(k, a, b) = {}
      <4>1. n = 0 /\ m = 1 /\ a <= t
        BY <1>1, <3>2, <3>6, FS_EmptySet
      <4>2. Rate * a <= Rate * t /\ Cost * m = Cost
        BY <1>1, <4>1, LimiterNumbers, ScaledGrows
      <4>3. tokens <= Cost * Burst - Cost
        BY <2>2, LimiterNumbers
      <4> HIDE DEF n, m, level
      <4>4. Cost * m + level <= Cost * Burst - Rate * a
        BY <1>3, <2>3, <3>3, <4>2, <4>3, LimiterNumbers
      <4> QED
        BY <4>4 DEF m
    <3> QED
      BY <2>2, <3>4, <3>5, <3>6
  <2>5. BucketFits(k, visitors[k])'
    BY <1>1, <2>2, <2>3, <2>4 DEF BucketFits
  <2>6. WithinAllowance(k)'
    <3>1. \A a, b \in Nat : t \notin a..b => Admissions(k, a, b)' = Admissions(k, a, b)
      BY <1>1, <2>1, AdmissionsGrow DEF LimiterInv
    <3> HIDE DEF level
    <3> QED
      BY <1>1, <2>2, <2>3, <2>4, <3>1, AdmissionFits DEF level
  <2> QED
    BY <2>3, <2>5, <2>6, LimiterIsWellFormed DEF Bucket
<1> QED
  BY <1>4, <1>5

-----------------------------------------------------------------------------
(* The invariant. *)

LEMMA AllowTypes ==
  ASSUME LimiterInv, NEW r \in Requests, Allow(r)
  PROVE  LimiterTypes'
<1> DEFINE t == now[r]
           table == Swept(t)
<1>1. table \in [Keys -> {NoVisitor} \cup Bucket] /\ t \in Nat /\ t <= clock /\ clock \in Nat
  BY DEF Swept, LimiterInv, LimiterTypes
<1>2. lastSweep' \in 0..clock'
  BY <1>1 DEF Allow, LimiterInv, LimiterTypes
<1>3. visitors' \in [Keys -> {NoVisitor} \cup Bucket]
  <2>1. CASE visitors' = table
    BY <1>1, <2>1
  <2>2. ASSUME NEW tokens \in Int, NEW verdict, Visit(r, table, tokens, verdict)
        PROVE  visitors' \in [Keys -> {NoVisitor} \cup Bucket]
    BY <1>1, <2>2 DEF Visit, Bucket
  <2>3. ASSUME table[Key[r]] # NoVisitor
        PROVE  Refilled(table[Key[r]], t) \in Int /\ Refilled(table[Key[r]], t) - Cost \in Int
    <3>1. Key[r] \in Keys
      BY LimiterIsWellFormed
    <3>2. table[Key[r]] \in Bucket /\ table[Key[r]] = visitors[Key[r]]
      BY <1>1, <2>3, <3>1 DEF Swept
    <3>3. Refilled(table[Key[r]], t) \in Int
      BY <3>2, UsedBucketFits DEF Allow
    <3> HIDE DEF table
    <3> QED
      BY <3>3, LimiterNumbers
  <2>4. (Burst - 1) * Cost \in Int
    BY LimiterNumbers
  <2> QED
    BY <2>1, <2>2, <2>3, <2>4 DEF Allow
<1>4. PICK verdict \in {"admitted", "refused", "turnedAway"} : pc' = [pc EXCEPT ![r] = verdict]
  BY DEF Allow, Visit
<1>5. \A k \in Keys : IsFiniteSet(Admitted(k)')
  <2> SUFFICES ASSUME NEW k \in Keys PROVE IsFiniteSet(Admitted(k)')
    OBVIOUS
  <2>1. Admitted(k)' \subseteq Admitted(k) \cup {r}
    BY <1>4 DEF Admitted, LimiterInv, LimiterTypes
  <2>2. IsFiniteSet(Admitted(k) \cup {r})
    BY FS_AddElement DEF LimiterInv, LimiterTypes
  <2> QED
    BY <2>1, <2>2, FS_Subset
<1> QED
  BY <1>2, <1>3, <1>4, <1>5 DEF Allow, LimiterInv, LimiterTypes

\* Whoever has an entry has used it lately when it is swept.
LEMMA AllowUses ==
  ASSUME LimiterInv, NEW r \in Requests, Allow(r), NEW k \in Keys, visitors'[k] # NoVisitor
  PROVE  LastIsUse(k)' /\ UsedLately(k)'
<1> DEFINE t == now[r]
           table == Swept(t)
<1>1. /\ pc[r] = "timed" /\ UNCHANGED <<clock, now>> /\ clock \in Nat /\ lastSweep \in 0..clock
      /\ \A q \in Requests : now[q] \in 0..clock
      /\ clock - t <= MaxWait
      /\ lastSweep' = IF SweepIsDue(t) THEN t ELSE lastSweep
  BY DEF Allow, LimiterInv, LimiterTypes, NobodyIsLate
<1>2. \A q \in Requests : pc[q] \in {"admitted", "refused"} => pc'[q] = pc[q]
  BY <1>1 DEF Allow, Visit, LimiterInv, LimiterTypes
<1>3. table \in [Keys -> {NoVisitor} \cup Bucket]
  BY DEF Swept, LimiterInv, LimiterTypes
<1>4. CASE k = Key[r] /\ pc'[r] \in {"admitted", "refused"}
  <2>1. visitors'[k].last = t
    BY <1>3, <1>4, LimiterIsWellFormed DEF Allow, Visit, LimiterInv, LimiterTypes
  <2>2. lastSweep' - t <= TTL
    BY <1>1, LimiterNumbers
  <2> QED
    BY <1>1, <1>4, <2>1, <2>2 DEF LastIsUse, UsedLately
<1>5. CASE ~(k = Key[r] /\ pc'[r] \in {"admitted", "refused"})
  <2>1. visitors'[k] = table[k]
    BY <1>3, <1>5, LimiterIsWellFormed DEF Allow, Visit, LimiterInv, LimiterTypes
  <2>2. /\ visitors[k] # NoVisitor /\ visitors'[k] = visitors[k]
        /\ SweepIsDue(t) => t - visitors[k].last <= TTL
    <3>1. visitors[k] # NoVisitor /\ visitors'[k] = visitors[k] /\ ~(SweepIsDue(t) /\ t - visitors[k].last > TTL)
      BY <2>1 DEF Swept
    <3>2. visitors[k].last \in Nat /\ t \in Nat
      BY <1>1, <3>1 DEF LimiterInv, LimiterTypes, Bucket
    <3> QED
      BY <3>1, <3>2, LimiterNumbers
  <2>3. PICK q \in Requests : Key[q] = k /\ pc[q] \in {"admitted", "refused"} /\ now[q] = visitors[k].last
    BY <2>2 DEF LimiterInv, LastIsUse
  <2>4. LastIsUse(k)'
    BY <1>1, <1>2, <2>2, <2>3 DEF LastIsUse
  <2>5. UsedLately(k)'
    <3>1. CASE SweepIsDue(t)
      BY <1>1, <1>2, <2>2, <2>3, <3>1 DEF UsedLately
    <3>2. CASE ~SweepIsDue(t)
      <4>1. UsedLately(k)
        BY <2>2 DEF LimiterInv
      <4> QED
        BY <1>1, <1>2, <3>2, <4>1 DEF UsedLately
    <3> QED
      BY <3>1, <3>2
  <2> QED
    BY <2>4, <2>5
<1> QED
  BY <1>4, <1>5

\* Nobody who is turned away finds an entry that nobody has used lately.
LEMMA TurnedAwayStep ==
  ASSUME LimiterInv, [Next]_vars, NEW r \in Requests, pc[r] = "timed", pc'[r] = "turnedAway",
         NEW k \in Known(visitors')
  PROVE  \E q \in Requests : /\ Key[q] = k /\ pc[q] \in {"admitted", "refused"}
                             /\ now[r] - now[q] <= TTL + SweepInterval
<1> DEFINE t == now[r]
<1>1. Allow(r)
  BY DEF Next, vars, ReadClock, Allow, Visit, Tick, LimiterInv, LimiterTypes
<1>2. k \in Keys /\ visitors'[k] # NoVisitor /\ visitors' = Swept(t)
  BY <1>1 DEF Known, Allow, Visit, LimiterInv, LimiterTypes
<1>3. /\ visitors[k] # NoVisitor
      /\ ~(SweepIsDue(t) /\ t - visitors[k].last > TTL)
  BY <1>2 DEF Swept
<1>4. /\ clock \in Nat /\ lastSweep \in 0..clock /\ visitors[k].last \in Nat
      /\ \A q \in Requests : now[q] \in 0..clock
  BY <1>2, <1>3 DEF LimiterInv, LimiterTypes, Bucket
<1>5. CASE SweepIsDue(t)
  <2>1. PICK q \in Requests : Key[q] = k /\ pc[q] \in {"admitted", "refused"} /\ now[q] = visitors[k].last
    BY <1>2, <1>3 DEF LimiterInv, LastIsUse
  <2> QED
    BY <1>3, <1>4, <1>5, <2>1, LimiterNumbers
<1>6. CASE ~SweepIsDue(t)
  <2>1. PICK q \in Requests : Key[q] = k /\ pc[q] \in {"admitted", "refused"} /\ lastSweep - now[q] <= TTL
    BY <1>2, <1>3 DEF LimiterInv, UsedLately
  <2>2. t - lastSweep <= SweepInterval
    BY <1>4, <1>6, LimiterNumbers DEF SweepIsDue
  <2> QED
    BY <1>4, <2>1, <2>2, LimiterNumbers
<1> QED
  BY <1>5, <1>6

LEMMA AllowKeeps ==
  ASSUME LimiterInv, NEW r \in Requests, Allow(r)
  PROVE  LimiterInv'
<1>1. LimiterTypes'
  BY AllowTypes
<1>2. NobodyIsLate'
  BY DEF Allow, Visit, LimiterInv, LimiterTypes, NobodyIsLate
<1>3. ASSUME NEW k \in Keys
      PROVE  /\ IF visitors'[k] = NoVisitor THEN FullFits(k)' ELSE BucketFits(k, visitors[k])'
             /\ WithinAllowance(k)'
  <2>1. CASE k = Key[r]
    BY <1>1, <2>1, VisitFits
  <2>2. CASE k # Key[r]
    <3>1. Admitted(k)' = Admitted(k)
      BY <2>2 DEF Admitted, Allow, Visit, LimiterInv, LimiterTypes
    <3>2. visitors'[k] = Swept(now[r])[k]
      BY <2>2 DEF Allow, Visit, Swept
    <3> QED
      BY <3>1, <3>2, OthersFit
  <2> QED
    BY <2>1, <2>2
<1> QED
  BY <1>1, <1>2, <1>3, AllowUses DEF LimiterInv

\* As the clock moves on, bounds that depend on it become weaker.
LEMMA TickKeeps ==
  ASSUME LimiterInv, Tick
  PROVE  LimiterInv'
<1>1. /\ UNCHANGED <<visitors, lastSweep, now, pc>> /\ clock \in Nat /\ clock' = clock + 1
      /\ \A k : \A a, b : Admissions(k, a, b)' = Admissions(k, a, b)
      /\ \A k : Admitted(k)' = Admitted(k)
  BY DEF Tick, LimiterInv, LimiterTypes, Admissions, Admitted
<1>2. LimiterTypes'
  BY <1>1 DEF LimiterInv, LimiterTypes
<1>3. NobodyIsLate'
  BY <1>1, LimiterNumbers DEF Tick, LimiterInv, LimiterTypes, NobodyIsLate
<1>4. ASSUME NEW k \in Keys, FullFits(k) PROVE FullFits(k)'
  <2>1. ASSUME NEW a \in Nat, NEW b \in Nat, Admissions(k, a, b) # {}
        PROVE  Cost * Cardinality(Admissions(k, a, b)) <= Rate * (clock' - MaxWait - a)
    <3> DEFINE n == Cost * Cardinality(Admissions(k, a, b))
    <3>1. n <= Rate * (clock - MaxWait - a)
      BY <1>4, <2>1 DEF FullFits
    <3>2. /\ clock - MaxWait - a \in Int /\ clock' - MaxWait - a \in Int
          /\ clock - MaxWait - a <= clock' - MaxWait - a
      BY <1>1, LimiterNumbers
    <3>3. /\ Rate * (clock - MaxWait - a) <= Rate * (clock' - MaxWait - a)
          /\ Rate * (clock - MaxWait - a) \in Int /\ Rate * (clock' - MaxWait - a) \in Int
      BY <3>2, LimiterNumbers, ScaledGrows
    <3>4. n \in Int
      BY AdmissionsCounted, LimiterNumbers DEF LimiterInv
    <3> HIDE DEF n
    <3>5. n <= Rate * (clock' - MaxWait - a)
      BY <3>1, <3>3, <3>4
    <3> QED
      BY <3>5 DEF n
  <2> QED
    BY <1>1, <2>1 DEF FullFits
<1>5. ASSUME NEW k \in Keys, visitors[k] # NoVisitor PROVE BucketFits(k, visitors[k])'
  <2> DEFINE v == visitors[k]
  <2>1. BucketFits(k, v) /\ v \in Bucket
    BY <1>5 DEF LimiterInv, LimiterTypes
  <2>2. Level(v) \in Int /\ Rate * clock' = Rate * clock + Rate /\ Rate * clock \in Int
    BY <1>1, <2>1, LimiterNumbers DEF Level, Bucket
  <2>3. Level(v) >= - (Rate * clock')
    BY <2>1, <2>2, LimiterNumbers DEF BucketFits
  <2> QED
    BY <1>1, <2>1, <2>3 DEF BucketFits, Level
<1>6. ASSUME NEW k \in Keys
      PROVE  /\ WithinAllowance(k)'
             /\ LastIsUse(k) => LastIsUse(k)'
             /\ UsedLately(k) => UsedLately(k)'
  BY <1>1 DEF LimiterInv, WithinAllowance, LastIsUse, UsedLately
<1> QED
  BY <1>1, <1>2, <1>3, <1>4, <1>5, <1>6 DEF LimiterInv

LEMMA ReadClockKeeps ==
  ASSUME LimiterInv, NEW r \in Requests, ReadClock(r)
  PROVE  LimiterInv'
<1>1. /\ UNCHANGED <<clock, visitors, lastSweep>> /\ clock \in Nat
      /\ \A q \in Requests : pc[q] # "new" => pc'[q] = pc[q] /\ now'[q] = now[q]
      /\ \A q \in Requests : pc[q] = "new" => pc'[q] \in {"new", "timed"}
  BY DEF ReadClock, LimiterInv, LimiterTypes
<1>2. \A k : Admitted(k)' = Admitted(k) /\ \A a, b : Admissions(k, a, b)' = Admissions(k, a, b)
  BY <1>1 DEF Admitted, Admissions
<1>3. LimiterTypes'
  BY <1>1, <1>2 DEF ReadClock, LimiterInv, LimiterTypes
<1>4. NobodyIsLate'
  BY LimiterNumbers DEF ReadClock, LimiterInv, LimiterTypes, NobodyIsLate
<1>5. ASSUME NEW k \in Keys
      PROVE  /\ FullFits(k) => FullFits(k)'
             /\ BucketFits(k, visitors[k]) => BucketFits(k, visitors[k])'
             /\ WithinAllowance(k) => WithinAllowance(k)'
             /\ LastIsUse(k) => LastIsUse(k)'
             /\ UsedLately(k) => UsedLately(k)'
  BY <1>1, <1>2 DEF FullFits, BucketFits, Level, WithinAllowance, LastIsUse, UsedLately
<1> QED
  BY <1>1, <1>3, <1>4, <1>5 DEF LimiterInv

LEMMA LimiterInvariant == Spec => []LimiterInv
<1>1. Init => LimiterInv
  <2> SUFFICES ASSUME Init PROVE LimiterInv
    OBVIOUS
  <2>1. \A k : Admitted(k) = {} /\ \A a, b : Admissions(k, a, b) = {}
    BY DEF Init, Admitted, Admissions
  <2>2. LimiterTypes /\ NobodyIsLate
    BY <2>1, FS_EmptySet DEF Init, LimiterTypes, NobodyIsLate
  <2> QED
    BY <2>1, <2>2 DEF Init, LimiterInv, FullFits, WithinAllowance
<1>2. LimiterInv /\ [Next]_vars => LimiterInv'
  <2>1. CASE UNCHANGED vars
    BY <2>1
       DEF vars, LimiterInv, LimiterTypes, NobodyIsLate, FullFits, BucketFits, Level, WithinAllowance,
           LastIsUse, UsedLately, Admissions, Admitted
  <2> QED
    BY <2>1, AllowKeeps, TickKeeps, ReadClockKeeps DEF Next
<1> QED
  BY <1>1, <1>2, PTL DEF Spec

-----------------------------------------------------------------------------
\* For any number of visitors and requests, whose readings of the clock arrive in any
\* order, nobody is admitted more often than the burst and the rate allow (allow,
\* middleware.go:130).
THEOREM AllowanceIsKept == Spec => []AllowanceHolds
<1>1. LimiterInv => AllowanceHolds
  <2> SUFFICES ASSUME LimiterInv, NEW k \in Keys, NEW first \in Admitted(k), NEW last \in Admitted(k),
                      now[first] <= now[last]
               PROVE  Cost * Cardinality({r \in Admitted(k) : now[r] \in now[first]..now[last]})
                        <= Cost * Burst + Rate * (now[last] - now[first])
    BY DEF AllowanceHolds
  <2>1. now[first] \in Nat /\ now[last] \in Nat
    BY DEF LimiterInv, LimiterTypes, Admitted
  <2>2. first \in Admissions(k, now[first], now[last])
    BY <2>1 DEF Admissions
  <2> QED
    BY <2>1, <2>2 DEF LimiterInv, WithinAllowance, Admissions
<1> QED
  BY <1>1, LimiterInvariant, PTL

\* A visitor is turned away only by as many others who have been there lately (sweep,
\* middleware.go:165).
THEOREM TurnedAwayByOthers == Spec => TurnedAwayByTheBusy
<1>1. LimiterInv /\ [Next]_vars =>
        [\A r \in Requests :
           pc[r] = "timed" /\ pc'[r] = "turnedAway" =>
             \A k \in Known(visitors') : \E q \in Requests :
               /\ Key[q] = k /\ pc[q] \in {"admitted", "refused"}
               /\ now[r] - now[q] <= TTL + SweepInterval]_vars
  BY TurnedAwayStep
<1> QED
  BY <1>1, LimiterInvariant, PTL DEF Spec, TurnedAwayByTheBusy
=============================================================================
