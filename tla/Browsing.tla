------------------------------- MODULE Browsing -------------------------------
(***************************************************************************)
(* A client that reads a list page by page while the list changes, and the *)
(* bookmarks of a user: ProductRepository.List, FavoriteRepository         *)
(* (internal/repository/repository.go), ListOrdersForUser                  *)
(* (internal/repository/commerce.go) and FavoriteService.                  *)
(*                                                                         *)
(* A page is two statements, Count and Find, outside a transaction.  Of a  *)
(* product there are its status and its rank, the column that the query    *)
(* sorts by (featured, sales or the lowest price); keyword, category and   *)
(* price bounds select like the status does.  Bookmarks and orders are     *)
(* those of one user.                                                      *)
(***************************************************************************)
EXTENDS Pages, FiniteSets, FiniteSetsExt

CONSTANTS
  Catalogue,  \* the number of products that there will be
  Setters,    \* the requests that bookmark a product or remove its bookmark
  Sizes,      \* the values of pageSize that clients send, of Parameters
  MaxOrders,  \* bound of the model: orders of the user
  MaxRows     \* bound of the model: bookmarks inserted

\* The lists are shorter than what an int counts.
ASSUME ListsAreCounted ==
  /\ Catalogue \in Nat /\ MaxOrders \in Nat /\ Sizes \subseteq Parameters
  /\ Catalogue + MaxPageSize <= MaxInt /\ MaxOrders + MaxPageSize <= MaxInt

Products == 1..Catalogue

VARIABLES
  status, rank,  \* columns of the products; a deleted product keeps its row
  favorites,     \* rows [id, product] of the user
  inserted,      \* the last id given to a bookmark
  orders,        \* the orders 1..orders of the user
  wish,          \* wish[q]: what setter q writes next, or NoWish
  walk,          \* the client's walk over one of the lists
  stayed, pulled, pushed, torn, \* history of the walk, see Observe
  everPublic     \* history: products that have been on sale

rows == <<status, rank, favorites, inserted, orders>>
history == <<stayed, pulled, pushed, torn>>
browsingVars == <<rows, wish, walk, history, everPublic>>

StatusOnSale == "on_sale"
Statuses == {"none", "draft", StatusOnSale, "sold_out", "deleted"}
Absent == {"none", "deleted"}

\* Identifiers are given in turn.
InTurn(p) == status[p] # "none" => \A earlier \in 1..(p - 1) : status[earlier] # "none"

NoWish == [product |-> 0, favorite |-> FALSE]

Lists == {"catalogue", "admin", "favorites", "orders"}
Idle(list) == [stage |-> "idle", list |-> list, page |-> 1, size |-> 1, total |-> 0,
               seen |-> {}, repeated |-> {}]
Walking == walk.stage \in {"count", "find"}

BrowsingInit ==
  /\ status \in [Products -> {"none", "draft", StatusOnSale}]
  /\ \A p \in Products : InTurn(p)
  /\ rank = [p \in Products |-> 0]
  /\ favorites = {} /\ inserted = 0
  /\ orders \in 0..MaxOrders
  /\ wish = [q \in Setters |-> NoWish]
  /\ walk \in {Idle(list) : list \in Lists}
  /\ stayed = {} /\ pulled = {} /\ pushed = {} /\ torn = {}
  /\ everPublic = {p \in Products : status[p] = StatusOnSale}

-----------------------------------------------------------------------------
\* The lists.

BookmarkOf(p) == CHOOSE row \in favorites : row.product = p
Bookmarked == {row.product : row \in favorites}

\* The rows that match.  Bookmarks show every product that is not deleted.
Items(list) ==
  CASE list = "catalogue" -> {p \in Products : status[p] = StatusOnSale}
    [] list = "admin"     -> {p \in Products : status[p] \notin Absent}
    [] list = "favorites" -> {p \in Bookmarked : status[p] \notin Absent}
    [] list = "orders"    -> 1..orders

\* ORDER BY rank DESC, id DESC; favorites.id DESC; id DESC.
Before(list, a, b) ==
  CASE list \in {"catalogue", "admin"} -> rank[a] > rank[b] \/ (rank[a] = rank[b] /\ a > b)
    [] list = "favorites" -> BookmarkOf(a).id > BookmarkOf(b).id
    [] list = "orders"    -> a > b

\* OFFSET and LIMIT.
Ahead(list, a) == {b \in Items(list) : Before(list, b, a)}
Window(list, page, size) ==
  {a \in Items(list) :
     Cardinality(Ahead(list, a)) \in Offset(page, size)..(Offset(page, size) + size - 1)}

\* What a write does to the walk: the items that never ceased to match, those that
\* came closer to the front because one ahead of them left, those that one pushed
\* back, and those pushed back between Count and Find.
Observe ==
  LET before == [a \in stayed |-> Ahead(walk.list, a)]
      kept   == stayed \cap Items(walk.list)'
      after  == [a \in kept |-> Ahead(walk.list, a)']
      back   == {a \in kept : after[a] \ before[a] # {}}
  IN
  IF Walking
  THEN /\ stayed' = kept
       /\ pulled' = pulled \cup {a \in kept : before[a] \ after[a] # {}}
       /\ pushed' = pushed \cup back
       /\ torn' = IF walk.stage = "find" THEN torn \cup back ELSE torn
  ELSE UNCHANGED history

-----------------------------------------------------------------------------
\* The walk.

\* A client asks for the first page, of the size it likes.
StartWalk ==
  /\ walk.stage = "idle"
  /\ \E size \in Sizes :
       walk' = [walk EXCEPT !.stage = "count",
                            !.page = PageNumber(1, size), !.size = PageSize(size)]
  /\ stayed' = Items(walk.list)
  /\ UNCHANGED <<rows, wish, pulled, pushed, torn, everPublic>>

CountItems ==
  /\ walk.stage = "count"
  /\ walk' = [walk EXCEPT !.stage = "find", !.total = Cardinality(Items(walk.list))]
  /\ UNCHANGED <<rows, wish, history, everPublic>>

\* The answer, and the next request if it says that there is more.
FindItems ==
  LET items == Window(walk.list, walk.page, walk.size)
      shown == [walk EXCEPT !.seen = @ \cup items, !.repeated = @ \cup (walk.seen \cap items)]
  IN
  /\ walk.stage = "find"
  /\ walk' = IF HasMore(walk.total, walk.page, walk.size)
               THEN [shown EXCEPT !.stage = "count", !.page = PageNumber(walk.page + 1, walk.size)]
               ELSE [shown EXCEPT !.stage = "done"]
  /\ UNCHANGED <<rows, wish, history, everPublic>>

-----------------------------------------------------------------------------
\* Bookmarks.

\* Broken variant: drafts are accepted.
PublicOrDraft(p) == status[p] \notin Absent
\* RequirePublic.
Public(p) == status[p] = StatusOnSale

\* A request that sets or removes a bookmark; another one is refused.
RequirePublic(q, p, favorite) ==
  /\ wish[q] = NoWish /\ Public(p)
  /\ wish' = [wish EXCEPT ![q] = [product |-> p, favorite |-> favorite]]
  /\ UNCHANGED <<rows, walk, history, everPublic>>

\* Broken variant: a read that came before the insert did not find the row.
InsertAnyway(p) == TRUE
\* ON CONFLICT (user_id, product_id) DO NOTHING.
NoConflict(p) == p \notin Bookmarked

SetBookmark(q) ==
  LET p == wish[q].product IN
  /\ wish[q] # NoWish
  /\ CASE wish[q].favorite /\ NoConflict(p) ->
            /\ inserted < MaxRows /\ inserted' = inserted + 1
            /\ favorites' = favorites \cup {[id |-> inserted + 1, product |-> p]}
       [] wish[q].favorite /\ ~NoConflict(p) -> UNCHANGED <<favorites, inserted>>
       [] OTHER ->
            /\ favorites' = {row \in favorites : row.product # p}
            /\ UNCHANGED inserted
  /\ wish' = [wish EXCEPT ![q] = NoWish]
  /\ UNCHANGED <<status, rank, orders, walk, everPublic>>
  /\ Observe

-----------------------------------------------------------------------------
\* Others write.

\* Create, Update, Patch and Delete of a product.
WriteProduct(p, value) ==
  /\ status[p] \notin {"deleted", value} /\ value # "none"
  /\ status' = [status EXCEPT ![p] = value] /\ InTurn(p)'
  /\ everPublic' = IF value = StatusOnSale THEN everPublic \cup {p} ELSE everPublic
  /\ UNCHANGED <<rank, favorites, inserted, orders, wish, walk>>
  /\ Observe

\* Featured, sales or a price changes.
RankProduct(p) ==
  /\ rank' = [rank EXCEPT ![p] = 1 - @]
  /\ UNCHANGED <<status, favorites, inserted, orders, wish, walk, everPublic>>
  /\ Observe

\* A checkout; orders are never deleted.
CreateOrder ==
  /\ orders < MaxOrders
  /\ orders' = orders + 1
  /\ UNCHANGED <<status, rank, favorites, inserted, wish, walk, everPublic>>
  /\ Observe

BrowsingNext ==
  \/ StartWalk \/ CountItems \/ FindItems
  \/ \E q \in Setters : \/ \E p \in Products, favorite \in BOOLEAN : RequirePublic(q, p, favorite)
                        \/ SetBookmark(q)
  \/ \E p \in Products : RankProduct(p) \/ \E value \in Statuses : WriteProduct(p, value)
  \/ CreateOrder

BrowsingSpec == BrowsingInit /\ [][BrowsingNext]_browsingVars

-----------------------------------------------------------------------------

BrowsingTypeOK ==
  /\ status \in [Products -> Statuses] /\ rank \in [Products -> 0..1]
  /\ favorites \subseteq [id : 1..inserted, product : Products] /\ inserted \in 0..MaxRows
  /\ orders \in 0..MaxOrders
  /\ wish \in [Setters -> [product : Products, favorite : BOOLEAN] \cup {NoWish}]
  /\ walk.stage \in {"idle", "count", "find", "done"} /\ walk.size \in 1..MaxPageSize
  /\ torn \subseteq pushed
  /\ everPublic \subseteq Products

\* A client that follows hasMore to its end has seen every item that was in the
\* list all the time, but one that moved to an earlier page because an item ahead
\* of it left, or that slid behind the last page between its count and its rows;
\* and it saw an item twice only if another one pushed it back (NewPage,
\* service.go:45; orderFor, repository.go:181, makes the order total).
WalkMissesNothing ==
  walk.stage = "done" =>
    /\ stayed \ walk.seen \subseteq pulled \cup torn
    /\ walk.repeated \cap stayed \subseteq pushed

\* A product is bookmarked once, however many requests set it at the same time
\* (FavoriteRepository.Set, repository.go:249), and only if it was public before:
\* the list of bookmarks, which also shows products that were hidden since, never
\* shows one that has always been a draft (docs/api.md:180).
BookmarksWerePublic ==
  /\ \A a, b \in favorites : a.product = b.product => a = b
  /\ Bookmarked \subseteq everPublic
=============================================================================
