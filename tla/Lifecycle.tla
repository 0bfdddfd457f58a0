------------------------------ MODULE Lifecycle ------------------------------
(***************************************************************************)
(* The process of the server from listening to its exit: run of            *)
(* cmd/server/main.go with its deferred calls, the worker goroutine of     *)
(* StartWorkers (internal/httpapi/router.go), the goroutine that listens   *)
(* and the goroutines of the requests.                                     *)
(*                                                                         *)
(* main is the label of the main goroutine.  What a request or a pass of   *)
(* the worker does is one thing here: it uses the pool and the cache.      *)
(***************************************************************************)
EXTENDS Naturals, FiniteSets

CONSTANTS Requests

ASSUME RequestsAreFinite == IsFiniteSet(Requests)

VARIABLES
  main,       \* the next statement of run
  listener,   \* "starting", "open", "failed" or "closed"
  signalled,  \* SIGINT or SIGTERM has been delivered
  cancelled,  \* the context of the worker
  worker,     \* "select", "cleanup", "expire" or "gone"
  request,    \* request[r]: "none", "running", "served" or "broken"
  pool, cache, \* open or not
  verdict,    \* what run returns
  misused     \* history: who used the pool or the cache after it was closed

vars == <<main, listener, signalled, cancelled, worker, request, pool, cache, verdict, misused>>
goroutines == <<worker, request, misused>>

Worker == "worker"
ASSUME WorkerIsNoRequest == Worker \notin Requests

Init ==
  /\ main = "select" /\ listener = "starting" /\ signalled = FALSE
  /\ cancelled = FALSE /\ worker = "select"
  /\ request = [r \in Requests |-> "none"]
  /\ pool = TRUE /\ cache = TRUE
  /\ verdict = "none"
  /\ misused = {}

-----------------------------------------------------------------------------
\* The goroutine that listens, and the requests.

\* net/http refuses to listen once Shutdown was called.
ShutDown == main # "select" /\ verdict # "serverError"

Listen ==
  /\ listener = "starting"
  /\ IF ShutDown THEN listener' = "closed" ELSE listener' \in {"open", "failed"}
  /\ UNCHANGED <<main, signalled, cancelled, pool, cache, verdict, goroutines>>

\* Accept fails while requests are being served.
BreakListener ==
  /\ listener = "open"
  /\ listener' = "failed"
  /\ UNCHANGED <<main, signalled, cancelled, pool, cache, verdict, goroutines>>

Accept(r) ==
  /\ listener = "open" /\ request[r] = "none" /\ main # "exited"
  /\ request' = [request EXCEPT ![r] = "running"]
  /\ UNCHANGED <<main, listener, signalled, cancelled, worker, pool, cache, verdict, misused>>

Touch(who) == misused' = IF pool /\ cache THEN misused ELSE misused \cup {who}

\* A statement of a request.
UseByRequest(r) ==
  /\ request[r] = "running" /\ main # "exited"
  /\ Touch(r)
  /\ UNCHANGED <<main, listener, signalled, cancelled, worker, request, pool, cache, verdict>>

Answer(r) ==
  /\ request[r] = "running" /\ main # "exited"
  /\ request' = [request EXCEPT ![r] = "served"]
  /\ UNCHANGED <<main, listener, signalled, cancelled, worker, pool, cache, verdict, misused>>

-----------------------------------------------------------------------------
\* The worker.

\* The ticker has fired; select may prefer it to a cancelled context.
StartPass ==
  /\ worker = "select" /\ main # "exited"
  /\ worker' = "cleanup"
  /\ UNCHANGED <<main, listener, signalled, cancelled, request, pool, cache, verdict, misused>>

CleanUp ==
  /\ worker = "cleanup" /\ main # "exited"
  /\ Touch(Worker)
  /\ worker' = "expire"
  /\ UNCHANGED <<main, listener, signalled, cancelled, request, pool, cache, verdict>>

\* ExpireBatch goes on to the next order, unless its context is cancelled.
ExpireNext ==
  /\ worker = "expire" /\ ~cancelled /\ main # "exited"
  /\ Touch(Worker)
  /\ UNCHANGED <<main, listener, signalled, cancelled, worker, request, pool, cache, verdict>>

EndPass ==
  /\ worker = "expire" /\ main # "exited"
  /\ worker' = "select"
  /\ UNCHANGED <<main, listener, signalled, cancelled, request, pool, cache, verdict, misused>>

StopWorker ==
  /\ worker = "select" /\ cancelled /\ main # "exited"
  /\ worker' = "gone"
  /\ UNCHANGED <<main, listener, signalled, cancelled, request, pool, cache, verdict, misused>>

-----------------------------------------------------------------------------
\* The main goroutine.

Signal ==
  /\ ~signalled /\ main # "exited"
  /\ signalled' = TRUE
  /\ UNCHANGED <<main, listener, cancelled, pool, cache, verdict, goroutines>>

Goto(label) == main' = label

\* Broken variant: the worker is left alone.
WorkerGoesOn == cancelled' = cancelled
\* stopWorkers.
StopWorkers == cancelled' = TRUE

\* case err := <-serverErrors: the deferred calls follow at once.
ServerFails ==
  /\ main = "select" /\ listener = "failed"
  /\ verdict' = "serverError"
  /\ Goto("deferred")
  /\ UNCHANGED <<listener, signalled, cancelled, pool, cache, goroutines>>

\* case sig := <-shutdown: stopWorkers, and Shutdown closes the listener.
BeginShutdown ==
  /\ main = "select" /\ signalled
  /\ cancelled' = TRUE
  /\ listener' = IF listener = "open" THEN "closed" ELSE listener
  /\ Goto("drain")
  /\ UNCHANGED <<signalled, pool, cache, verdict, goroutines>>

\* Every connection is idle.
Drained == \A r \in Requests : request[r] # "running"

Drain ==
  /\ main = "drain" /\ Drained
  /\ verdict' = "ok"
  /\ Goto("deferred")
  /\ UNCHANGED <<listener, signalled, cancelled, pool, cache, goroutines>>

\* ShutdownTimeout is over; Close cuts the connections, the goroutines go on.
DrainTimesOut ==
  /\ main = "drain" /\ ~Drained
  /\ verdict' = "drainError"
  /\ Goto("deferred")
  /\ UNCHANGED <<listener, signalled, cancelled, pool, cache, goroutines>>

\* The deferred calls, last one first: stopWorkers and WaitWorkers,
DeferredStop ==
  /\ main = "deferred"
  /\ StopWorkers
  /\ Goto("wait")
  /\ UNCHANGED <<listener, signalled, pool, cache, verdict, goroutines>>

\* Broken variant: the worker is not waited for.
WorkerAbandoned == TRUE
\* WaitWorkers.
WorkerGone == worker = "gone"

WaitWorkers ==
  /\ main = "wait" /\ WorkerGone
  /\ Goto("closeCache")
  /\ UNCHANGED <<listener, signalled, cancelled, pool, cache, verdict, goroutines>>

\* server.Close,
CloseCache ==
  /\ main = "closeCache"
  /\ cache' = FALSE
  /\ Goto("closePool")
  /\ UNCHANGED <<listener, signalled, cancelled, pool, verdict, goroutines>>

\* sqlDB.Close.
ClosePool ==
  /\ main = "closePool"
  /\ pool' = FALSE
  /\ Goto("leave")
  /\ UNCHANGED <<listener, signalled, cancelled, cache, verdict, goroutines>>

\* The process ends with its goroutines.
Exit ==
  /\ main = "leave"
  /\ Goto("exited")
  /\ request' = [r \in Requests |-> IF request[r] = "running" THEN "broken" ELSE request[r]]
  /\ UNCHANGED <<listener, signalled, cancelled, worker, pool, cache, verdict, misused>>

WorkerStep == CleanUp \/ ExpireNext \/ EndPass
MainStep ==
  \/ ServerFails \/ BeginShutdown \/ Drain \/ DrainTimesOut
  \/ DeferredStop \/ WaitWorkers \/ CloseCache \/ ClosePool \/ Exit

Next ==
  \/ Listen \/ BreakListener
  \/ \E r \in Requests : Accept(r) \/ UseByRequest(r) \/ Answer(r)
  \/ StartPass \/ WorkerStep \/ StopWorker
  \/ Signal \/ MainStep

Spec == Init /\ [][Next]_vars

-----------------------------------------------------------------------------

TypeOK ==
  /\ main \in {"select", "drain", "deferred", "wait", "closeCache", "closePool", "leave", "exited"}
  /\ listener \in {"starting", "open", "failed", "closed"}
  /\ signalled \in BOOLEAN /\ cancelled \in BOOLEAN
  /\ worker \in {"select", "cleanup", "expire", "gone"}
  /\ worker = "gone" \/ main \notin {"select", "drain", "deferred"} => cancelled
  /\ request \in [Requests -> {"none", "running", "served", "broken"}]
  /\ pool \in BOOLEAN /\ cache \in BOOLEAN
  /\ verdict \in {"none", "serverError", "drainError", "ok"}
  /\ main \in {"select", "drain"} <=> verdict = "none"
  /\ misused \subseteq Requests \cup {Worker}

\* The worker has its last transaction behind it when the cache and the pool are
\* closed, whichever way the process ends (docs/production.md:28).
WorkerIsSafe == Worker \notin misused

\* A process that reports success has cut off no request: each one it accepted was
\* answered and had its resources (main.go:108-116; docs/deployment.md:46).
SuccessMeansDrained ==
  verdict = "ok" =>
    /\ misused = {}
    /\ \A r \in Requests : request[r] \notin {"running", "broken"}

\* A signal and a server that cannot listen both end the process, without waiting
\* for requests or for the worker for ever.
ProcessEnds == (signalled \/ listener = "failed") ~> (main = "exited")
=============================================================================
