------------------------------- MODULE Serving -------------------------------
(***************************************************************************)
(* The requests that a configured process serves: the middleware chain of  *)
(* Router (internal/httpapi/router.go), the handlers and the response      *)
(* writer, with the deadlines of the configuration, on top of the process  *)
(* that Lifecycle describes.                                               *)
(*                                                                         *)
(* A tick is a unit of the configured durations.  Steps that do not wait   *)
(* for a client or for the database take no time, and a statement returns  *)
(* as soon as its context is done.                                         *)
(***************************************************************************)
EXTENDS Lifecycle, Config, Sequences, FiniteSetsExt

CONSTANTS
  Environments, Files,  \* the environments and .env files that it may start with
  Asked                 \* Asked[r]: the requests that r may be, see Arrive

VARIABLES
  config,   \* the settings of the process that its requests depend on
  call,     \* call[r]: how far r is, its age since the headers, what it asks and gets
  drained   \* for how long Shutdown has been waiting

servingVars == <<vars, config, call, drained>>

-----------------------------------------------------------------------------
\* What the handlers check before they call a service, and the status of a success.

Route(checks, success) == [checks |-> checks, success |-> success]
User == {"rate", "token"}
Operator == User \cup {"role"}

AuthRoutes == [
  login |-> Route({"rate", "payload"}, {200}), refresh |-> Route({"rate", "payload"}, {200}),
  logout |-> Route({"rate", "payload"}, {200}),
  userInfo |-> Route(User, {200}), listFavorites |-> Route(User, {200})]

CartRoutes == [
  getCart |-> Route(User, {200}), clearCart |-> Route(User, {200}),
  addCartItem |-> Route(User \cup {"payload"}, {201}),
  updateCartItem |-> Route(User \cup {"id", "payload"}, {200}),
  deleteCartItem |-> Route(User \cup {"id"}, {200})]

OrderRoutes == [
  createOrder |-> Route(User \cup {"payload"}, {200, 201}),
  listOrders |-> Route(User, {200}),
  getOrder |-> Route(User \cup {"id"}, {200}), cancelOrder |-> Route(User \cup {"id"}, {200}),
  createPayment |-> Route(User \cup {"id"}, {201}),
  mockPaymentWebhook |-> Route({"rate", "payload"}, {200}),
  adminAdvanceOrder |-> Route(Operator \cup {"id", "payload"}, {200})]

ProductRoutes == [
  listProducts |-> Route({"rate", "payload"}, {200}), productDetail |-> Route({"rate", "id"}, {200}),
  favoriteStatus |-> Route(User \cup {"id"}, {200}),
  toggleFavorite |-> Route(User \cup {"payload"}, {200})]

AdminRoutes == [
  adminListProducts |-> Route(Operator, {200}), adminGetProduct |-> Route(Operator \cup {"id"}, {200}),
  adminCreateProduct |-> Route(Operator \cup {"payload"}, {201}),
  adminUpdateProduct |-> Route(Operator \cup {"id", "payload"}, {200}),
  adminDeleteProduct |-> Route(Operator \cup {"id"}, {200})]

SKURoutes == [
  adminCreateSKU |-> Route(Operator \cup {"id", "payload"}, {201}),
  adminUpdateSKU |-> Route(Operator \cup {"id", "payload"}, {200})]

Tables == {AuthRoutes, CartRoutes, OrderRoutes, ProductRoutes, AdminRoutes, SKURoutes}
TableOf(route) == CHOOSE table \in Tables : route \in DOMAIN table
Routes == [route \in UNION {DOMAIN table : table \in Tables} |-> TableOf(route)[route]]

\* The order of the checks, and the status of a refusal.
Checks == <<"origin", "size", "rate", "token", "role", "id", "payload">>
BeforeToken == {"origin", "size", "rate"}
Refusal == [origin |-> 403, size |-> 413, rate |-> 429, token |-> 401, role |-> 403,
            id |-> 422, payload |-> 422]

\* What the chain finds wrong with a request, and the first of it.
Wrong(ask) ==
  {check \in ask.defects \cap (Routes[ask.route].checks \cup {"origin", "size"}) :
     check = "rate" => config.RateLimitEnabled}
FirstRefusal(wrong) == Refusal[Checks[Min({i \in DOMAIN Checks : Checks[i] \in wrong})]]

\* The routes that read their row again after the commit and pass the error on.
ReadsBack == {"createOrder", "cancelOrder", "adminAdvanceOrder", "adminCreateSKU", "adminUpdateSKU"}

-----------------------------------------------------------------------------
Durations == {"READ_TIMEOUT", "WRITE_TIMEOUT", "REQUEST_TIMEOUT", "SHUTDOWN_TIMEOUT"}
Requested == [route : DOMAIN Routes, defects : SUBSET DOMAIN Refusal, slow : BOOLEAN, patient : BOOLEAN]

\* What time.ParseDuration returns, and the requests that the router knows.
ASSUME DurationsAreParsed ==
  \A environment \in Environments \cup Files :
    \A key \in Durations : environment[key] \in Int \cup {Absent, Malformed}
ASSUME RoutesAreAsked == \A r \in Requests : Asked[r] \subseteq Requested

NoCall == [stage |-> "none", age |-> 0, gone |-> FALSE, answer |-> 0, effect |-> FALSE, delivered |-> FALSE,
           ask |-> [route |-> "none", defects |-> {}, slow |-> FALSE, patient |-> TRUE]]

Used == {"ReadTimeout", "WriteTimeout", "RequestTimeout", "ShutdownTimeout", "RateLimitEnabled"}

\* run returns at once if the settings are not valid.
ServingInit ==
  /\ Init
  /\ \E environment \in Environments, file \in Files :
       LET loaded == Load(LoadDotEnv(environment, file)) IN
       Validate(loaded) /\ config = [name \in Used |-> loaded[name]]
  /\ call = [r \in Requests |-> NoCall]
  /\ drained = 0

\* The connection is gone: the client left, or Close has cut it.
Cut(r) == call[r].gone \/ verdict = "drainError"
Late(r) == call[r].age >= config.RequestTimeout
ContextDone(r) == Cut(r) \/ Late(r)

\* Fail with the error of the context; nothing is written for a cancelled one.
Interrupted(r) == IF Cut(r) THEN 0 ELSE 504

Enter(r, stage) == call' = [call EXCEPT ![r].stage = stage]
Answering(r, status) == call' = [call EXCEPT ![r].stage = "answer", ![r].answer = status]

Quietly == UNCHANGED vars /\ UNCHANGED <<config, drained>>
Running(r) == request[r] = "running" /\ main # "exited"

\* The headers of a request have been read: its route, what is wrong with it, and a
\* client that is slow to send the body or prompt, and patient or not.
Arrive(r) ==
  /\ Accept(r)
  /\ \E ask \in Asked[r] : call' = [call EXCEPT ![r].stage = "body", ![r].ask = ask]
  /\ UNCHANGED <<config, drained>>

\* An impatient client goes away.
HangUp(r) ==
  /\ Running(r) /\ ~call[r].ask.patient /\ ~call[r].gone
  /\ call' = [call EXCEPT ![r].gone = TRUE]
  /\ Quietly

AwaitsBody(r) == call[r].stage = "body" /\ "origin" \notin call[r].ask.defects

\* CORS does not wait for the body, and neither does BodyLimit if the headers tell the length.
TurnAway(r) ==
  LET wrong == Wrong(call[r].ask) \cap {"origin", "size"} IN
  /\ Running(r) /\ call[r].stage = "body"
  /\ wrong # {} /\ Answering(r, FirstRefusal(wrong))
  /\ Quietly

\* BodyLimit and the limiter; without a token to check, also the handler.
ReadBody(r) ==
  LET route == Routes[call[r].ask.route]
      wrong == Wrong(call[r].ask) \cap (IF "token" \in route.checks THEN BeforeToken ELSE DOMAIN Refusal)
  IN
  /\ Running(r) /\ AwaitsBody(r)
  /\ ~Cut(r) /\ call[r].age < config.ReadTimeout
  /\ IF wrong # {} THEN Answering(r, FirstRefusal(wrong))
     ELSE Enter(r, IF "token" \in route.checks THEN "token" ELSE "service")
  /\ Quietly

\* The body cannot be read, or not in time.
BodyFails(r) ==
  /\ Running(r) /\ AwaitsBody(r)
  /\ Cut(r) \/ call[r].age >= config.ReadTimeout
  /\ Answering(r, IF Late(r) THEN 504 ELSE 422)
  /\ Quietly

\* Authenticate reads the account, unless the database fails; RequireRole and the
\* handler look at the rest.
Authenticate(r) ==
  /\ call[r].stage = "token" /\ ~ContextDone(r)
  /\ UseByRequest(r)
  /\ \/ Answering(r, 500)
     \/ IF Wrong(call[r].ask) # {} THEN Answering(r, FirstRefusal(Wrong(call[r].ask)))
                                   ELSE Enter(r, "service")
  /\ UNCHANGED <<config, drained>>

\* A statement of the service that does not end its work: before its commit, or after
\* it the one that removes the cache entry, reads the row again or looks up the key,
Work(r) ==
  /\ call[r].stage \in {"service", "committed", "unconfirmed"} /\ ~ContextDone(r)
  /\ UseByRequest(r)
  /\ UNCHANGED <<config, call, drained>>

\* one after which it is rolled back, because the service refuses (409 stands for
\* each such status) or the database fails,
Reject(r) ==
  /\ call[r].stage = "service" /\ ~ContextDone(r)
  /\ UseByRequest(r)
  /\ \E status \in {409, 500} : Answering(r, status)
  /\ UNCHANGED <<config, drained>>

\* and COMMIT, whose confirmation may take its time or be lost with the connection.
Commit(r) ==
  /\ call[r].stage = "service" /\ ~ContextDone(r)
  /\ UseByRequest(r)
  /\ \E stage \in {"committed", "unconfirmed"} :
       call' = [call EXCEPT ![r].stage = stage, ![r].effect = TRUE]
  /\ UNCHANGED <<config, drained>>

\* A statement fails because its context is done: the transaction is rolled back.
Interrupt(r) ==
  /\ Running(r) /\ call[r].stage \in {"token", "service"} /\ ContextDone(r)
  /\ Answering(r, Interrupted(r))
  /\ Quietly

\* OK and Created look at the context once more; the read before them may have failed.
Respond(r) ==
  /\ Running(r) /\ call[r].stage = "committed"
  /\ \/ \E status \in Routes[call[r].ask.route].success :
          Answering(r, IF ContextDone(r) THEN Interrupted(r) ELSE status)
     \/ call[r].ask.route \in ReadsBack /\ Answering(r, 500)
  /\ Quietly

\* The service takes a commit without confirmation for a failed one: it answers with the
\* error of the driver or of the context.  Only a checkout looks for its order first.
RespondUnconfirmed(r) ==
  /\ Running(r) /\ call[r].stage = "unconfirmed"
  /\ \/ Answering(r, 500)
     \/ ContextDone(r) /\ Answering(r, Interrupted(r))
     \/ ~ContextDone(r) /\ call[r].ask.route = "createOrder" /\ Answering(r, 200)
  /\ Quietly

\* The answer is written to the connection.
Write(r) ==
  /\ call[r].stage = "answer"
  /\ Answer(r)
  /\ call' = [call EXCEPT ![r].stage = "done",
                          ![r].delivered = /\ ~Cut(r) /\ call[r].answer # 0
                                           /\ call[r].age < config.WriteTimeout]
  /\ UNCHANGED <<config, drained>>

RequestStep(r) ==
  \/ TurnAway(r) \/ ReadBody(r) \/ BodyFails(r) \/ Authenticate(r) \/ Interrupt(r)
  \/ Respond(r) \/ RespondUnconfirmed(r) \/ Write(r)

-----------------------------------------------------------------------------

\* Broken variant: requests have as long to finish as they had when nothing ended.
PatienceOfRequest == config.RequestTimeout
\* How long Shutdown waits.
Patience == config.ShutdownTimeout

\* A request that waits for its client or for the database.
Waits(r) ==
  \/ AwaitsBody(r) /\ call[r].ask.slow /\ call[r].age < config.ReadTimeout
  \/ call[r].stage \in {"token", "service", "committed", "unconfirmed"} /\ ~Late(r)

Tick ==
  /\ main # "exited" /\ \E r \in Requests : Running(r)
  /\ \A r \in Requests : Running(r) => Waits(r) /\ ~Cut(r)
  /\ main = "drain" => drained < Patience
  /\ call' = [r \in Requests |-> IF Running(r) THEN [call[r] EXCEPT !.age = @ + 1] ELSE call[r]]
  /\ drained' = IF main = "drain" THEN drained + 1 ELSE drained
  /\ UNCHANGED vars /\ UNCHANGED config

\* A step of the process that no request takes.
Around(A) ==
  /\ A
  /\ UNCHANGED <<config, call, drained>>
TimedMainStep ==
  /\ MainStep
  /\ main = "drain" /\ verdict' = "drainError" => drained >= Patience

ServingNext ==
  \/ \E r \in Requests : Arrive(r) \/ HangUp(r) \/ RequestStep(r) \/ Work(r) \/ Reject(r) \/ Commit(r)
  \/ Tick
  \/ Around(Listen) \/ Around(BreakListener) \/ Around(Signal)
  \/ Around(StartPass) \/ Around(WorkerStep) \/ Around(StopWorker) \/ Around(TimedMainStep)

ServingSpec == ServingInit /\ [][ServingNext]_servingVars

\* Goroutines that can proceed do, and time passes.  A pass of the worker does not go
\* on for ever: a batch is bounded and its context has a deadline.  select chooses
\* among the ready cases at random, so a cancelled context is not passed over for ever.
FairServing ==
  /\ ServingSpec
  /\ WF_servingVars(Around(TimedMainStep)) /\ WF_servingVars(Around(WorkerStep))
  /\ SF_servingVars(Around(StopWorker))
  /\ WF_servingVars(Tick) /\ \A r \in Requests : WF_servingVars(RequestStep(r))

-----------------------------------------------------------------------------

ServingTypeOK ==
  /\ TypeOK
  /\ \A r \in Requests :
       /\ call[r].stage \in {"none", "body", "token", "service", "committed", "unconfirmed",
                             "answer", "done"}
       /\ request[r] \in {"none", "running", "served"} =>
            (call[r].stage = "none" <=> request[r] = "none") /\ (call[r].stage = "done" <=> request[r] = "served")
  /\ drained \in 0..Patience

\* A client that stays is answered: after a success its request took effect, after a
\* refusal nothing was done, while a 500 or 504 leaves open whether it was (the commit
\* may have lost its confirmation, or the read after it failed).  The write deadline
\* never cuts an answer off, not even that of a timeout, unless the client took as
\* long to send its body; and a process that reports success has cut off nobody
\* (config.go:211; docs/production.md:25; main.go:108-116; commerce_service.go:245-263).
RequestsAreAnswered ==
  /\ \A r \in Requests : request[r] = "served" =>
       /\ \/ call[r].delivered \/ Cut(r)
          \/ call[r].ask.slow /\ config.WriteTimeout <= config.ReadTimeout
       /\ call[r].delivered =>
            /\ call[r].answer \in {200, 201} => call[r].effect
            /\ call[r].answer \notin {200, 201, 500, 504} => ~call[r].effect
  /\ SuccessMeansDrained

\* A shutdown with clients that behave fails only if it is given no more time than a
\* request; one that sends its body slowly may use up the time for reading it as
\* well (main.go:109; config.go:160-164).
DrainErrorHasReason ==
  verdict = "drainError" =>
    \/ config.ShutdownTimeout <= config.RequestTimeout
    \/ /\ config.ShutdownTimeout <= config.ReadTimeout
       /\ \E r \in Requests : call[r].stage # "none" /\ call[r].ask.slow
=============================================================================
