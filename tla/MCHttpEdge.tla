------------------------------ MODULE MCHttpEdge ------------------------------
(***************************************************************************)
(* Instances of RateLimiter and of Browsing for TLC.  They share no state: *)
(* a behaviour is one of the first or one of the second.                   *)
(***************************************************************************)
EXTENDS RateLimiter, Browsing

CONSTANTS k1, k2, k3

VARIABLES part  \* "limiter" or "browsing"

\* The last two requests come from other addresses.
KeyOfRequests == [r \in Requests |-> CASE r = 5 -> k2 [] r = 6 -> k3 [] OTHER -> k1]

EdgeInit ==
  /\ part \in {"limiter", "browsing"}
  /\ Init
  /\ BrowsingInit
  /\ part = "limiter" =>
       walk.list = "orders" /\ orders = 0 /\ status = [p \in Products |-> "draft"]

EdgeNext ==
  \/ part = "limiter" /\ Next /\ UNCHANGED <<part, browsingVars>>
  \/ part = "browsing" /\ BrowsingNext /\ UNCHANGED <<part, vars>>

EdgeSpec == EdgeInit /\ [][EdgeNext]_<<part, vars, browsingVars>>

-----------------------------------------------------------------------------
\* Bounds.  Of requests that differ in nothing the first ones arrive first.  The
\* second setter bookmarks one product, before the walk starts.
InOrder ==
  /\ \A r \in {1, 2, 3, 5} : pc[r + 1] # "new" => pc[r] # "new"
  /\ wish[2] = NoWish \/ (walk.stage = "idle" /\ wish[2] = [product |-> 1, favorite |-> TRUE])

NoBookmarks == favorites = {} /\ \A q \in Setters : wish[q] = NoWish

\* What the list that is walked does not show stays as it was, of the statuses that
\* it treats alike one is enough, and nothing follows a walk that is over.
Relevant ==
  /\ walk.stage # "done"
  /\ walk.list = "orders" \/ orders = 0
  /\ walk.list = "favorites" \/ NoBookmarks
  /\ walk.list \in {"catalogue", "admin"} \/ rank[1] = 0
  /\ rank[2] = 0 /\ rank[3] = 0
  /\ CASE walk.list = "catalogue" -> \A p \in 1..3 : status[p] \in {"draft", StatusOnSale}
       [] walk.list = "admin" -> \A p \in 1..3 : status[p] \notin {"draft", "sold_out"}
       [] walk.list = "favorites" ->
            /\ status[1] = StatusOnSale /\ status[2] = StatusOnSale
            /\ status[3] \in {"draft", StatusOnSale, "deleted"}
            /\ 3 \in everPublic <=> status[3] # "draft"
       [] walk.list = "orders" -> status = [p \in 1..3 |-> "draft"]
=============================================================================
