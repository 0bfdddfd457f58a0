---------------------------- MODULE ServingProofs -----------------------------
(***************************************************************************)
(* A process with a validated configuration that serves requests is a      *)
(* process of Lifecycle, and both end safely.                              *)
(***************************************************************************)
EXTENDS Serving, TLAPS

(* What Validate guarantees of every environment and every .env file. *)

\* The settings of Load that the theorem is about.
LEMMA Loaded ==
  ASSUME NEW environment
  PROVE  /\ Load(environment).AppEnv = Env(environment, "APP_ENV", "development")
         /\ Load(environment).JWTSecret = Env(environment, "JWT_SECRET", "default")
         /\ Load(environment).MockPaymentWebhookSecret
              = Env(environment, "MOCK_PAYMENT_WEBHOOK_SECRET", "default")
         /\ Load(environment).CORSOrigins = Env(environment, "CORS_ORIGINS", {"loopback"})
  BY DEF Load

\* A server that starts in production or staging has been told so, and has been
\* told its secrets and its origins, by its environment or its .env file: no
\* default of the source, which is public, gets there by omission (config.go:254,
\* config.go:281).
THEOREM ProductionIsConfigured ==
  ASSUME NEW environment, NEW file,
         Validate(Load(LoadDotEnv(environment, file))),
         ProductionLike(Load(LoadDotEnv(environment, file)).AppEnv)
  PROVE  \A key \in {"APP_ENV", "JWT_SECRET", "MOCK_PAYMENT_WEBHOOK_SECRET", "CORS_ORIGINS"} :
           environment[key] # Absent \/ file[key] # Absent
<1> DEFINE merged == LoadDotEnv(environment, file)
           c == Load(merged)
           named == {"APP_ENV", "JWT_SECRET", "MOCK_PAYMENT_WEBHOOK_SECRET", "CORS_ORIGINS"}
<1>1. \A key \in named : merged[key] # Absent => environment[key] # Absent \/ file[key] # Absent
  BY DEF LoadDotEnv, Settings, Texts
<1>2. SecretsAreValid(c) /\ ProductionIsSafe(c) /\ ProductionLike(c.AppEnv)
  BY DEF Validate
<1>3. /\ c.AppEnv = Env(merged, "APP_ENV", "development")
      /\ c.JWTSecret = Env(merged, "JWT_SECRET", "default")
      /\ c.MockPaymentWebhookSecret = Env(merged, "MOCK_PAYMENT_WEBHOOK_SECRET", "default")
      /\ c.CORSOrigins = Env(merged, "CORS_ORIGINS", {"loopback"})
  BY Loaded
<1> HIDE DEF merged, c
<1>4. merged["APP_ENV"] # Absent
  BY <1>2, <1>3 DEF Env, ProductionLike
<1>5. merged["JWT_SECRET"] # Absent /\ merged["MOCK_PAYMENT_WEBHOOK_SECRET"] # Absent
  BY <1>2, <1>3 DEF Env, SecretsAreValid
<1>6. merged["CORS_ORIGINS"] # Absent
  BY <1>2, <1>3 DEF Env, ProductionIsSafe
<1> QED
  BY <1>1, <1>4, <1>5, <1>6

-----------------------------------------------------------------------------
(* The end of the process. *)

\* The main goroutine has not closed anything yet.
Whole == {"select", "drain", "deferred", "wait", "closeCache"}
Closing == {"closeCache", "closePool", "leave", "exited"}

OpenUntilClosed == main \in Whole => pool /\ cache /\ misused = {}
WaitedFor == main \in Closing => worker = "gone"
NotOpenAfter == main # "select" /\ verdict # "serverError" => listener # "open"
BrokenByExit == main # "exited" => \A r \in Requests : request[r] # "broken"

\* WorkerIsSafe and SuccessMeansDrained, and why: the resources are closed after the
\* worker is gone, and no connection is accepted once Shutdown was called.
EndsSafely ==
  /\ TypeOK
  /\ OpenUntilClosed /\ WaitedFor /\ NotOpenAfter /\ BrokenByExit
  /\ WorkerIsSafe /\ SuccessMeansDrained

LEMMA SafeInit == Init => EndsSafely
  BY WorkerIsNoRequest
  DEF Init, EndsSafely, TypeOK, OpenUntilClosed, WaitedFor, NotOpenAfter, BrokenByExit,
      WorkerIsSafe, SuccessMeansDrained, Whole, Closing

\* No step of a request, of the worker or of main undoes it.
LEMMA SafeStep == EndsSafely /\ [Next]_vars => EndsSafely'
<1> SUFFICES ASSUME EndsSafely, [Next]_vars PROVE EndsSafely'
  OBVIOUS
<1> USE WorkerIsNoRequest
    DEF EndsSafely, TypeOK, OpenUntilClosed, WaitedFor, NotOpenAfter, BrokenByExit, WorkerIsSafe,
        SuccessMeansDrained, Whole, Closing, goroutines
<1>1. CASE UNCHANGED vars
  BY <1>1 DEF vars
<1>2. CASE Listen
  BY <1>2 DEF Listen, ShutDown
<1>3. CASE BreakListener
  BY <1>3 DEF BreakListener
<1>4. ASSUME NEW r \in Requests, Accept(r) PROVE EndsSafely'
  BY <1>4 DEF Accept
<1>5. ASSUME NEW r \in Requests, UseByRequest(r) PROVE EndsSafely'
  BY <1>5 DEF UseByRequest, Touch, Worker
<1>6. ASSUME NEW r \in Requests, Answer(r) PROVE EndsSafely'
  BY <1>6 DEF Answer
<1>7. CASE StartPass
  BY <1>7 DEF StartPass
<1>8. CASE WorkerStep
  BY <1>8 DEF WorkerStep, CleanUp, ExpireNext, EndPass, Touch
<1>9. CASE StopWorker
  BY <1>9 DEF StopWorker
<1>10. CASE Signal
  BY <1>10 DEF Signal
<1>11. CASE ServerFails
  BY <1>11 DEF ServerFails, Goto
<1>12. CASE BeginShutdown
  BY <1>12 DEF BeginShutdown, Goto
<1>13. CASE Drain
  BY <1>13 DEF Drain, Drained, Goto
<1>14. CASE DrainTimesOut
  BY <1>14 DEF DrainTimesOut, Goto
<1>15. CASE DeferredStop
  BY <1>15 DEF DeferredStop, StopWorkers, Goto
<1>16. CASE WaitWorkers
  BY <1>16 DEF WaitWorkers, WorkerGone, Goto
<1>17. CASE CloseCache
  BY <1>17 DEF CloseCache, Goto
<1>18. CASE ClosePool
  BY <1>18 DEF ClosePool, Goto
<1>19. CASE Exit
  BY <1>19 DEF Exit, Goto
<1> QED
  BY <1>1, <1>2, <1>3, <1>4, <1>5, <1>6, <1>7, <1>8, <1>9, <1>10, <1>11, <1>12, <1>13,
     <1>14, <1>15, <1>16, <1>17, <1>18, <1>19
  DEF Next, MainStep

LEMMA AlwaysSafe == Spec => []EndsSafely
<1>1. Init => EndsSafely
  BY SafeInit
<1>2. EndsSafely /\ [Next]_vars => EndsSafely'
  BY SafeStep
<1> QED
  BY <1>1, <1>2, PTL DEF Spec

\* Whatever requests do with their bodies, deadlines and answers, each of their
\* steps is one of Lifecycle or none: the requests of Serving are those that main and
\* the worker were specified with (main.go).
LEMMA ServingStep == [ServingNext]_servingVars => [Next]_vars
<1> SUFFICES ASSUME [ServingNext]_servingVars PROVE [Next]_vars
  OBVIOUS
<1>1. CASE UNCHANGED servingVars
  BY <1>1 DEF servingVars
<1>2. ASSUME NEW r \in Requests,
             Arrive(r) \/ HangUp(r) \/ RequestStep(r) \/ Work(r) \/ Reject(r) \/ Commit(r)
      PROVE  [Next]_vars
  <2>1. CASE Arrive(r)
    BY <2>1 DEF Arrive, Next
  <2>2. CASE \/ HangUp(r) \/ TurnAway(r) \/ ReadBody(r) \/ BodyFails(r) \/ Interrupt(r)
             \/ Respond(r) \/ RespondUnconfirmed(r)
    BY <2>2 DEF HangUp, TurnAway, ReadBody, BodyFails, Interrupt, Respond, RespondUnconfirmed, Quietly
  <2>3. CASE Authenticate(r) \/ Work(r) \/ Reject(r) \/ Commit(r)
    BY <2>3 DEF Authenticate, Work, Reject, Commit, Next
  <2>4. CASE Write(r)
    BY <2>4 DEF Write, Next
  <2> QED
    BY <1>2, <2>1, <2>2, <2>3, <2>4 DEF RequestStep
<1>3. CASE Tick
  BY <1>3 DEF Tick
<1>4. CASE \/ Around(Listen) \/ Around(BreakListener) \/ Around(Signal) \/ Around(StartPass)
           \/ Around(WorkerStep) \/ Around(StopWorker) \/ Around(TimedMainStep)
  BY <1>4 DEF Around, TimedMainStep, Next
<1> QED
  BY <1>1, <1>2, <1>3, <1>4 DEF ServingNext

\* Serving implements Lifecycle.
THEOREM ServingImplementsLifecycle == ServingSpec => Spec
<1>1. ServingInit => Init
  BY DEF ServingInit
<1>2. [ServingNext]_servingVars => [Next]_vars
  BY ServingStep
<1> QED
  BY <1>1, <1>2, PTL DEF ServingSpec, Spec

\* The worker never touches a closed pool or cache, whatever the requests do and
\* whichever way the process ends (deferred calls of run, main.go:57-73).
THEOREM WorkerSafe == ServingSpec => []WorkerIsSafe
<1>1. EndsSafely => WorkerIsSafe
  BY DEF EndsSafely
<1> QED
  BY <1>1, ServingImplementsLifecycle, AlwaysSafe, PTL

\* A process that reports success has answered every request that it accepted, with
\* its resources open (main.go:108-116).
THEOREM SuccessDrained == ServingSpec => []SuccessMeansDrained
<1>1. EndsSafely => SuccessMeansDrained
  BY DEF EndsSafely
<1> QED
  BY <1>1, ServingImplementsLifecycle, AlwaysSafe, PTL

-----------------------------------------------------------------------------
(* Successes and refusals are true, and a shutdown fails for a reason. *)

\* The timeouts of Load.
LEMMA LoadedTimeouts ==
  ASSUME NEW environment
  PROVE  LET c == Load(environment) IN
         /\ c.ReadTimeout = EnvValue(environment, "READ_TIMEOUT", 15)
         /\ c.WriteTimeout = EnvValue(environment, "WRITE_TIMEOUT", 30)
         /\ c.RequestTimeout = EnvValue(environment, "REQUEST_TIMEOUT", 10)
         /\ c.ShutdownTimeout = EnvValue(environment, "SHUTDOWN_TIMEOUT", 15)
  BY DEF Load

\* What Validate leaves of them.
Deadlines ==
  /\ config.ReadTimeout \in Nat /\ config.WriteTimeout \in Nat
  /\ config.RequestTimeout \in Nat /\ config.ShutdownTimeout \in Nat \ {0}
  /\ config.RequestTimeout < config.WriteTimeout

LEMMA ValidDeadlines == ServingInit => Deadlines
<1> SUFFICES ASSUME ServingInit PROVE Deadlines
  OBVIOUS
<1>1. PICK environment \in Environments, file \in Files :
        LET loaded == Load(LoadDotEnv(environment, file)) IN
        Validate(loaded) /\ config = [name \in Used |-> loaded[name]]
  BY DEF ServingInit
<1> DEFINE merged == LoadDotEnv(environment, file)
           c == Load(merged)
<1>2. \A key \in Durations : merged[key] \in Int \cup {Absent, Malformed}
  BY DurationsAreParsed DEF LoadDotEnv, Durations, Settings, Parsed
<1>3. /\ c.ReadTimeout = EnvValue(merged, "READ_TIMEOUT", 15)
      /\ c.WriteTimeout = EnvValue(merged, "WRITE_TIMEOUT", 30)
      /\ c.RequestTimeout = EnvValue(merged, "REQUEST_TIMEOUT", 10)
      /\ c.ShutdownTimeout = EnvValue(merged, "SHUTDOWN_TIMEOUT", 15)
  BY LoadedTimeouts
<1>4. /\ config.ReadTimeout = c.ReadTimeout /\ config.WriteTimeout = c.WriteTimeout
      /\ config.RequestTimeout = c.RequestTimeout /\ config.ShutdownTimeout = c.ShutdownTimeout
  BY <1>1 DEF Used
<1>5. TimeoutsAreValid(c)
  BY <1>1 DEF Validate
<1> HIDE DEF merged, c
<1>6. /\ c.ReadTimeout \in Int /\ c.WriteTimeout \in Int
      /\ c.RequestTimeout \in Int /\ c.ShutdownTimeout \in Int
  BY <1>2, <1>3 DEF EnvValue, Durations
<1> QED
  BY <1>4, <1>5, <1>6 DEF Deadlines, TimeoutsAreValid, RequestBeforeWrite

\* The first check that fails has a status of its own.
Refused == {401, 403, 413, 422, 429}

LEMMA RefusalStatus ==
  ASSUME NEW wrong \in SUBSET DOMAIN Refusal, wrong # {}
  PROVE  FirstRefusal(wrong) \in Refused
<1> DEFINE failed == {i \in DOMAIN Checks : Checks[i] \in wrong}
<1>1. DOMAIN Checks = 1..7 /\ \A i \in 1..7 : Refusal[Checks[i]] \in Refused
  BY DEF Checks, Refusal, Refused
<1>2. \E i \in 1..7 : i \in failed
  BY <1>1 DEF Checks, Refusal
<1>3. failed \subseteq 1..7
  BY <1>1
<1> HIDE DEF failed
<1>4. \E i \in failed : \A j \in failed : i <= j
  BY <1>2, <1>3
<1>5. Min(failed) \in failed
  BY <1>4 DEF Min
<1> QED
  BY <1>1, <1>3, <1>5 DEF FirstRefusal, failed

\* The handlers answer 200 or 201.
LEMMA SuccessStatus ==
  ASSUME NEW route \in DOMAIN Routes
  PROVE  Routes[route].success \subseteq {200, 201}
<1> DEFINE Sound(table) == \A name \in DOMAIN table : table[name].success \subseteq {200, 201}
<1>1. Sound(AuthRoutes)
  BY DEF AuthRoutes, Route
<1>2. Sound(CartRoutes)
  BY DEF CartRoutes, Route
<1>3. Sound(OrderRoutes)
  BY DEF OrderRoutes, Route
<1>4. Sound(ProductRoutes)
  BY DEF ProductRoutes, Route
<1>5. Sound(AdminRoutes)
  BY DEF AdminRoutes, Route
<1>6. Sound(SKURoutes)
  BY DEF SKURoutes, Route
<1>7. \A table \in Tables : Sound(table)
  BY <1>1, <1>2, <1>3, <1>4, <1>5, <1>6 DEF Tables
<1> HIDE DEF Sound
<1>8. \E table \in Tables : route \in DOMAIN table
  BY DEF Routes
<1>9. TableOf(route) \in Tables /\ route \in DOMAIN TableOf(route)
  BY <1>8 DEF TableOf
<1>10. Routes[route] = TableOf(route)[route]
  BY DEF Routes
<1> QED
  BY <1>7, <1>9, <1>10 DEF Sound

Stages == {"none", "body", "token", "service", "committed", "unconfirmed", "answer", "done"}
Answers == {0, 200, 201, 409, 500, 504} \cup Refused
Calls == [stage : Stages, age : Nat, gone : BOOLEAN, answer : Answers, effect : BOOLEAN,
          delivered : BOOLEAN, ask : Requested \cup {NoCall.ask}]

\* The stage of a request is that of its connection.
StageFits(r) ==
  /\ request[r] = "none" <=> call[r].stage = "none"
  /\ request[r] = "served" <=> call[r].stage = "done"
  /\ IF call[r].stage = "none" THEN call[r].age = 0 ELSE call[r].ask \in Requested

\* Nobody waits longer than for the deadline of a request or for a slow body.
AgeIsBounded(r) ==
  \/ call[r].age <= config.RequestTimeout
  \/ call[r].ask.slow /\ call[r].age <= config.ReadTimeout

\* A success or a refusal that a client is told, or would be if it had stayed, is true.
AnswerAgrees(r) ==
  LET c == call[r] IN
  /\ c.stage \in {"none", "body", "token", "service"} => ~c.effect
  /\ c.stage \in {"committed", "unconfirmed"} => c.effect
  /\ c.stage \in {"answer", "done"} =>
       /\ c.answer \in {200, 201} => c.effect
       /\ c.answer \notin {0, 200, 201, 500, 504} => ~c.effect
       /\ c.answer = 0 => Cut(r)
  /\ c.delivered => c.stage = "done" /\ c.answer # 0
  /\ c.stage = "done" =>
       c.delivered \/ Cut(r) \/ (c.ask.slow /\ config.WriteTimeout <= config.ReadTimeout)

\* A request that Shutdown waits for is at least as old as the shutdown.
OlderThanDrain(r) == main = "drain" /\ request[r] = "running" => drained <= call[r].age

CallOK(r) == StageFits(r) /\ AgeIsBounded(r) /\ AnswerAgrees(r) /\ OlderThanDrain(r)

\* RequestsAreAnswered and DrainErrorHasReason, and why.
AnswerInv ==
  /\ EndsSafely /\ Deadlines
  /\ call \in [Requests -> Calls]
  /\ drained \in Nat /\ (main = "select" => drained = 0)
  /\ \A r \in Requests : CallOK(r)
  /\ DrainErrorHasReason

LEMMA AnswerInit == ServingInit => AnswerInv
<1> SUFFICES ASSUME ServingInit PROVE AnswerInv
  OBVIOUS
<1>1. Init /\ call = [r \in Requests |-> NoCall] /\ drained = 0
  BY DEF ServingInit
<1>2. EndsSafely /\ Deadlines
  BY <1>1, SafeInit, ValidDeadlines
<1>3. NoCall \in Calls
  BY DEF NoCall, Calls, Stages, Answers
<1>4. main = "select" /\ verdict = "none" /\ request = [r \in Requests |-> "none"]
  BY <1>1 DEF Init
<1>5. ASSUME NEW r \in Requests PROVE CallOK(r)
  BY <1>1, <1>2, <1>4 DEF CallOK, StageFits, AgeIsBounded, AnswerAgrees, OlderThanDrain, NoCall, Deadlines
<1> QED
  BY <1>1, <1>2, <1>3, <1>4, <1>5 DEF AnswerInv, DrainErrorHasReason

\* A step of one request, which leaves the others, the process and its deadlines alone.
LEMMA OneCall ==
  ASSUME AnswerInv, EndsSafely', NEW r \in Requests, NEW new \in Calls,
         call' = [call EXCEPT ![r] = new], UNCHANGED <<config, drained, main, verdict>>,
         \/ UNCHANGED request
         \/ /\ main # "drain" \/ request[r] = "running"
            /\ \E s : request' = [request EXCEPT ![r] = s],
         CallOK(r)',
         call[r].stage = "none" \/ (new.ask = call[r].ask /\ new.stage # "none")
  PROVE  AnswerInv'
<1>1. call' \in [Requests -> Calls] /\ call'[r] = new
  BY DEF AnswerInv
<1>2. ASSUME NEW t \in Requests \ {r} PROVE CallOK(t)'
  <2>1. call'[t] = call[t] /\ request'[t] = request[t] /\ CallOK(t)
    BY DEF AnswerInv, EndsSafely, TypeOK
  <2> QED
    BY <2>1 DEF CallOK, StageFits, AgeIsBounded, AnswerAgrees, OlderThanDrain, Cut
<1>3. DrainErrorHasReason'
  BY <1>1 DEF AnswerInv, DrainErrorHasReason
<1>4. Deadlines'
  BY DEF AnswerInv, Deadlines
<1> QED
  BY <1>1, <1>2, <1>3, <1>4 DEF AnswerInv

\* It goes on to the token or to the service.
LEMMA EnterKeeps ==
  ASSUME AnswerInv, EndsSafely', NEW r \in Requests, NEW stage \in {"token", "service"},
         call[r].stage \in {"body", "token"}, Enter(r, stage),
         UNCHANGED <<config, drained, main, verdict, request>>
  PROVE  AnswerInv'
<1> DEFINE new == [call[r] EXCEPT !.stage = stage]
<1>1. call[r] \in Calls /\ CallOK(r)
  BY DEF AnswerInv
<1>2. call' = [call EXCEPT ![r] = new] /\ call'[r] = new
  BY DEF Enter, AnswerInv
<1>3. new \in Calls
  BY <1>1 DEF Calls, Stages
<1>4. CallOK(r)'
  BY <1>1, <1>2
     DEF CallOK, StageFits, AgeIsBounded, AnswerAgrees, OlderThanDrain, Cut, Calls
<1>5. new.ask = call[r].ask /\ new.stage # "none"
  BY <1>1 DEF Calls
<1> HIDE DEF new
<1> QED
  BY <1>2, <1>3, <1>4, <1>5, OneCall

\* It gets its answer.
LEMMA AnswerKeeps ==
  ASSUME AnswerInv, EndsSafely', NEW r \in Requests, NEW status \in Answers,
         call[r].stage \in Stages \ {"none", "done"}, Answering(r, status),
         status \in {200, 201} => call[r].effect,
         status \notin {0, 200, 201, 500, 504} => ~call[r].effect,
         status = 0 => Cut(r),
         UNCHANGED <<config, drained, main, verdict, request>>
  PROVE  AnswerInv'
<1> DEFINE new == [call[r] EXCEPT !.stage = "answer", !.answer = status]
<1>1. call[r] \in Calls /\ CallOK(r)
  BY DEF AnswerInv
<1>2. call' = [call EXCEPT ![r] = new] /\ call'[r] = new
  BY <1>1 DEF Answering, AnswerInv, Calls
<1>3. new \in Calls
  BY <1>1 DEF Calls, Stages
<1>4. CallOK(r)'
  BY <1>1, <1>2
     DEF CallOK, StageFits, AgeIsBounded, AnswerAgrees, OlderThanDrain, Cut, Calls, Stages
<1>5. new.ask = call[r].ask /\ new.stage # "none"
  BY <1>1 DEF Calls
<1> HIDE DEF new
<1> QED
  BY <1>2, <1>3, <1>4, <1>5, OneCall

LEMMA RequestKeeps ==
  ASSUME AnswerInv, EndsSafely', NEW r \in Requests,
         Arrive(r) \/ HangUp(r) \/ RequestStep(r) \/ Work(r) \/ Reject(r) \/ Commit(r)
  PROVE  AnswerInv'
<1> DEFINE c == call[r]
<1>1. c \in Calls /\ CallOK(r) /\ Deadlines /\ TypeOK
  BY DEF AnswerInv, EndsSafely
<1>2. CASE Arrive(r)
  <2>1. PICK ask \in Requested : call' = [call EXCEPT ![r].stage = "body", ![r].ask = ask]
    BY <1>2, RoutesAreAsked DEF Arrive
  <2> DEFINE new == [c EXCEPT !.stage = "body", !.ask = ask]
  <2>2. new \in Calls /\ call' = [call EXCEPT ![r] = new] /\ call'[r] = new
    BY <1>1, <2>1 DEF AnswerInv, Calls, Stages
  <2>3. /\ UNCHANGED <<config, drained, main, verdict>> /\ request[r] = "none"
        /\ request' = [request EXCEPT ![r] = "running"] /\ main # "drain" /\ c.stage = "none"
    BY <1>1, <1>2 DEF Arrive, Accept, AnswerInv, EndsSafely, NotOpenAfter, TypeOK, CallOK, StageFits
  <2>4. CallOK(r)'
    <3>1. /\ new.stage = "body" /\ new.ask = ask /\ new.age = c.age
          /\ new.answer = c.answer /\ new.effect = c.effect /\ new.delivered = c.delivered
      BY <1>1 DEF Calls
    <3>2. request'[r] = "running"
      BY <1>1, <2>3 DEF TypeOK
    <3>3. AgeIsBounded(r)'
      BY <1>1, <2>2, <2>3, <3>1 DEF StageFits, AgeIsBounded, CallOK, Deadlines
    <3>4. AnswerAgrees(r)'
      BY <1>1, <2>2, <2>3, <3>1 DEF CallOK, AnswerAgrees
    <3>5. StageFits(r)' /\ OlderThanDrain(r)'
      BY <2>2, <2>3, <3>1, <3>2 DEF StageFits, OlderThanDrain
    <3> QED
      BY <3>3, <3>4, <3>5 DEF CallOK
  <2> HIDE DEF new
  <2> QED
    BY <2>2, <2>3, <2>4, OneCall
<1>3. CASE HangUp(r)
  <2> DEFINE new == [c EXCEPT !.gone = TRUE]
  <2>1. new \in Calls /\ call' = [call EXCEPT ![r] = new] /\ call'[r] = new
    BY <1>1, <1>3 DEF HangUp, AnswerInv, Calls
  <2>2. UNCHANGED <<config, drained, main, verdict, request>> /\ request[r] = "running"
    BY <1>3 DEF HangUp, Running, Quietly, vars
  <2>3. CallOK(r)' /\ new.ask = c.ask /\ new.stage = c.stage /\ c.stage # "none"
    BY <1>1, <2>1, <2>2
       DEF CallOK, StageFits, AgeIsBounded, AnswerAgrees, OlderThanDrain, Cut, Calls
  <2> HIDE DEF new
  <2> QED
    BY <2>1, <2>2, <2>3, OneCall
<1>4. CASE ReadBody(r)
  <2>1. UNCHANGED <<config, drained, main, verdict, request>> /\ c.stage = "body"
    BY <1>4 DEF ReadBody, AwaitsBody, Quietly, vars
  <2>2. Wrong(c.ask) \in SUBSET DOMAIN Refusal
    BY <1>1, <2>1 DEF CallOK, StageFits, Requested, Wrong
  <2>3. \/ \E wrong \in SUBSET DOMAIN Refusal : wrong # {} /\ Answering(r, FirstRefusal(wrong))
        \/ \E stage \in {"token", "service"} : Enter(r, stage)
    BY <1>4, <2>2 DEF ReadBody
  <2>4. CASE \E wrong \in SUBSET DOMAIN Refusal : wrong # {} /\ Answering(r, FirstRefusal(wrong))
    <3>1. PICK status \in Refused : Answering(r, status)
      BY <2>4, RefusalStatus
    <3> QED
      BY <1>1, <2>1, <3>1, AnswerKeeps DEF Refused, Answers, Stages, CallOK, AnswerAgrees
  <2>5. CASE \E stage \in {"token", "service"} : Enter(r, stage)
    BY <2>1, <2>5, EnterKeeps
  <2> QED
    BY <2>3, <2>4, <2>5
<1>5. CASE BodyFails(r)
  BY <1>1, <1>5, AnswerKeeps
     DEF BodyFails, AwaitsBody, Quietly, vars, Refused, Answers, Stages, CallOK, AnswerAgrees
<1>6. CASE Authenticate(r)
  <2>1. UNCHANGED <<config, drained, main, verdict, request>> /\ c.stage = "token"
    BY <1>6 DEF Authenticate, UseByRequest
  <2>2. Wrong(c.ask) \in SUBSET DOMAIN Refusal
    BY <1>1, <2>1 DEF CallOK, StageFits, Requested, Wrong
  <2>3. CASE \E status \in Refused \cup {500} : Answering(r, status)
    <3>1. PICK status \in Refused \cup {500} : Answering(r, status)
      BY <2>3
    <3> QED
      BY <1>1, <2>1, <3>1, AnswerKeeps DEF Refused, Answers, Stages, CallOK, AnswerAgrees
  <2>4. CASE Enter(r, "service")
    BY <2>1, <2>4, EnterKeeps
  <2> QED
    BY <1>6, <2>2, <2>3, <2>4, RefusalStatus DEF Authenticate
<1>7. CASE Work(r)
  <2>1. UNCHANGED <<config, call, drained, main, verdict, request>>
    BY <1>7 DEF Work, UseByRequest
  <2> QED
    BY <2>1 DEF AnswerInv, Deadlines, CallOK, StageFits, AgeIsBounded, AnswerAgrees,
                OlderThanDrain, Cut, DrainErrorHasReason
<1>8. CASE Reject(r)
  <2>1. UNCHANGED <<config, drained, main, verdict, request>> /\ c.stage = "service"
    BY <1>8 DEF Reject, UseByRequest
  <2>2. PICK status \in {409, 500} : Answering(r, status)
    BY <1>8 DEF Reject
  <2> QED
    BY <1>1, <2>1, <2>2, AnswerKeeps DEF Answers, Stages, CallOK, AnswerAgrees
<1>9. CASE Commit(r)
  <2>0. PICK stage \in {"committed", "unconfirmed"} :
          call' = [call EXCEPT ![r].stage = stage, ![r].effect = TRUE]
    BY <1>9 DEF Commit
  <2> DEFINE new == [c EXCEPT !.stage = stage, !.effect = TRUE]
  <2>1. new \in Calls /\ call' = [call EXCEPT ![r] = new] /\ call'[r] = new
    BY <1>1, <2>0 DEF AnswerInv, Calls, Stages
  <2>2. UNCHANGED <<config, drained, main, verdict, request>> /\ c.stage = "service"
    BY <1>9 DEF Commit, UseByRequest
  <2>3. CallOK(r)' /\ new.ask = c.ask /\ new.stage # "none"
    BY <1>1, <2>1, <2>2
       DEF CallOK, StageFits, AgeIsBounded, AnswerAgrees, OlderThanDrain, Cut, Calls
  <2> HIDE DEF new
  <2> QED
    BY <2>1, <2>2, <2>3, OneCall
<1>10. CASE Interrupt(r)
  <2>1. UNCHANGED <<config, drained, main, verdict, request>> /\ c.stage \in {"token", "service"}
    BY <1>10 DEF Interrupt, Quietly, vars
  <2>2. Answering(r, Interrupted(r)) /\ Interrupted(r) \in {0, 504} /\ (Interrupted(r) = 0 => Cut(r))
    BY <1>10 DEF Interrupt, Interrupted
  <2> QED
    BY <2>1, <2>2, AnswerKeeps DEF Answers, Stages
<1>11. CASE Respond(r)
  <2>1. UNCHANGED <<config, drained, main, verdict, request>> /\ c.stage = "committed"
    BY <1>11 DEF Respond, Quietly, vars
  <2>2. c.ask.route \in DOMAIN Routes /\ c.effect
    BY <1>1, <2>1 DEF CallOK, StageFits, AnswerAgrees, Requested
  <2>3. PICK status \in {0, 200, 201, 500, 504} : Answering(r, status) /\ (status = 0 => Cut(r))
    BY <1>11, <2>2, SuccessStatus DEF Respond, Interrupted
  <2> QED
    BY <2>1, <2>2, <2>3, AnswerKeeps DEF Answers, Stages
<1>12. CASE Write(r)
  <2> DEFINE reached == ~Cut(r) /\ c.answer # 0 /\ c.age < config.WriteTimeout
             new == [c EXCEPT !.stage = "done", !.delivered = reached]
  <2>1. reached \in BOOLEAN
    OBVIOUS
  <2>2. /\ UNCHANGED <<config, drained, main, verdict>> /\ c.stage = "answer"
        /\ request[r] = "running" /\ request' = [request EXCEPT ![r] = "served"]
    BY <1>12 DEF Write, Answer
  <2>3. call' = [call EXCEPT ![r].stage = "done", ![r].delivered = reached]
    BY <1>12 DEF Write
  <2>4. reached \/ Cut(r) \/ (c.ask.slow /\ config.WriteTimeout <= config.ReadTimeout)
    BY <1>1, <2>2 DEF CallOK, AnswerAgrees, AgeIsBounded, Deadlines, Calls
  <2>5. reached => c.answer # 0
    OBVIOUS
  <2> HIDE DEF reached
  <2>6. new \in Calls /\ call' = [call EXCEPT ![r] = new] /\ call'[r] = new
    BY <1>1, <2>1, <2>3 DEF AnswerInv, Calls, Stages
  <2>7. /\ new.stage = "done" /\ new.ask = c.ask /\ new.age = c.age /\ new.answer = c.answer
        /\ new.gone = c.gone /\ new.effect = c.effect /\ new.delivered = reached
        /\ request'[r] = "served"
    BY <1>1, <2>2 DEF Calls, TypeOK
  <2>8. CallOK(r)'
    <3>1. AnswerAgrees(r)'
      BY <1>1, <2>2, <2>4, <2>5, <2>6, <2>7 DEF CallOK, AnswerAgrees, Cut
    <3> QED
      BY <1>1, <2>2, <2>6, <2>7, <3>1 DEF CallOK, StageFits, AgeIsBounded, OlderThanDrain
  <2> HIDE DEF new
  <2> QED
    BY <2>2, <2>6, <2>7, <2>8, OneCall
<1>13. CASE TurnAway(r)
  <2>1. UNCHANGED <<config, drained, main, verdict, request>> /\ c.stage = "body"
    BY <1>13 DEF TurnAway, Quietly, vars
  <2>2. \E wrong \in SUBSET DOMAIN Refusal : wrong # {} /\ Answering(r, FirstRefusal(wrong))
    <3>1. Wrong(c.ask) \cap {"origin", "size"} \in SUBSET DOMAIN Refusal
      BY DEF Refusal
    <3> QED
      BY <1>13, <3>1 DEF TurnAway
  <2>3. PICK status \in Refused : Answering(r, status)
    BY <2>2, RefusalStatus
  <2> QED
    BY <1>1, <2>1, <2>3, AnswerKeeps DEF Refused, Answers, Stages, CallOK, AnswerAgrees
<1>14. CASE RespondUnconfirmed(r)
  <2>1. UNCHANGED <<config, drained, main, verdict, request>> /\ c.stage = "unconfirmed"
    BY <1>14 DEF RespondUnconfirmed, Quietly, vars
  <2>2. c.effect
    BY <1>1, <2>1 DEF CallOK, AnswerAgrees
  <2>3. PICK status \in {0, 200, 500, 504} : Answering(r, status) /\ (status = 0 => Cut(r))
    BY <1>14 DEF RespondUnconfirmed, Interrupted
  <2> QED
    BY <1>1, <2>1, <2>2, <2>3, AnswerKeeps DEF Answers, Stages
<1> QED
  BY <1>2, <1>3, <1>4, <1>5, <1>6, <1>7, <1>8, <1>9, <1>10, <1>11, <1>12, <1>13, <1>14 DEF RequestStep

LEMMA TickKeeps == AnswerInv /\ EndsSafely' /\ Tick => AnswerInv'
<1> SUFFICES ASSUME AnswerInv, EndsSafely', Tick PROVE AnswerInv'
  OBVIOUS
<1>1. UNCHANGED <<config, main, verdict, request>>
  BY DEF Tick, vars
<1>2. drained \in Nat /\ Deadlines /\ main # "exited"
  BY DEF AnswerInv, Tick
<1>3. /\ main = "drain" => drained' = drained + 1
      /\ main # "drain" => drained' = drained
  BY DEF Tick
<1>4. ASSUME NEW r \in Requests
      PROVE  call'[r] \in Calls /\ CallOK(r)' /\ call'[r].ask = call[r].ask
             /\ call'[r].stage = call[r].stage
  <2>1. call[r] \in Calls /\ CallOK(r)
    BY <1>4 DEF AnswerInv
  <2>2. CASE request[r] = "running"
    <3>1. call'[r] = [call[r] EXCEPT !.age = @ + 1] /\ Waits(r)
      BY <1>2, <1>4, <2>2 DEF Tick, Running
    <3>2. call'[r] \in Calls /\ call'[r].age = call[r].age + 1
      BY <2>1, <3>1 DEF Calls
    <3>3. /\ call'[r].ask = call[r].ask /\ call'[r].stage = call[r].stage
          /\ call'[r].gone = call[r].gone /\ call'[r].answer = call[r].answer
          /\ call'[r].effect = call[r].effect /\ call'[r].delivered = call[r].delivered
      BY <2>1, <3>1 DEF Calls
    <3>4. AgeIsBounded(r)'
      BY <1>1, <1>2, <2>1, <3>1, <3>2, <3>3 DEF AgeIsBounded, Waits, AwaitsBody, Late, Deadlines, Calls
    <3>5. OlderThanDrain(r)'
      BY <1>1, <1>2, <1>3, <2>1, <3>2 DEF CallOK, OlderThanDrain, Calls
    <3>6. StageFits(r)' /\ AnswerAgrees(r)'
      BY <1>1, <2>1, <2>2, <3>3 DEF CallOK, StageFits, AnswerAgrees, Cut
    <3> QED
      BY <3>2, <3>3, <3>4, <3>5, <3>6 DEF CallOK
  <2>3. CASE request[r] # "running"
    <3>1. call'[r] = call[r]
      BY <1>4, <2>3 DEF Tick, Running
    <3> QED
      BY <1>1, <2>1, <2>3, <3>1
         DEF CallOK, StageFits, AgeIsBounded, AnswerAgrees, OlderThanDrain, Cut
  <2> QED
    BY <2>2, <2>3
<1>5. DrainErrorHasReason'
  BY <1>1, <1>4 DEF AnswerInv, DrainErrorHasReason
<1>6. call' \in [Requests -> Calls]
  <2>1. call' = [r \in Requests |-> call'[r]]
    BY DEF Tick
  <2> QED
    BY <1>4, <2>1
<1> QED
  BY <1>1, <1>2, <1>3, <1>4, <1>5, <1>6 DEF AnswerInv, Deadlines

\* The steps of the process.
LEMMA AroundKeeps ==
  ASSUME AnswerInv, EndsSafely',
         \/ Around(Listen) \/ Around(BreakListener) \/ Around(Signal) \/ Around(StartPass)
         \/ Around(WorkerStep) \/ Around(StopWorker) \/ Around(TimedMainStep)
  PROVE  AnswerInv'
<1>1. UNCHANGED <<config, call, drained>>
  BY DEF Around
<1>2. TypeOK
  BY DEF AnswerInv, EndsSafely
<1>3. CASE UNCHANGED <<main, verdict, request>>
  BY <1>1, <1>3
     DEF AnswerInv, Deadlines, CallOK, StageFits, AgeIsBounded, AnswerAgrees, OlderThanDrain,
         Cut, DrainErrorHasReason
<1>4. CASE TimedMainStep
  <2>1. \A r \in Requests :
          /\ request'[r] \in {request[r], "broken"}
          /\ request'[r] # request[r] => request[r] = "running"
    BY <1>2, <1>4
       DEF TimedMainStep, MainStep, ServerFails, BeginShutdown, Drain, DrainTimesOut, DeferredStop,
           WaitWorkers, CloseCache, ClosePool, Exit, TypeOK, goroutines
  <2>2. verdict = "drainError" => verdict' = "drainError"
    BY <1>2, <1>4
       DEF TimedMainStep, MainStep, ServerFails, BeginShutdown, Drain, DrainTimesOut, DeferredStop,
           WaitWorkers, CloseCache, ClosePool, Exit, TypeOK
  <2>3. /\ main' = "drain" => main = "select" /\ UNCHANGED request
        /\ main' # "select"
    BY <1>2, <1>4
       DEF TimedMainStep, MainStep, ServerFails, BeginShutdown, Drain, DrainTimesOut, DeferredStop,
           WaitWorkers, CloseCache, ClosePool, Exit, TypeOK, goroutines, Goto
  <2>4. verdict' = "drainError" /\ verdict # "drainError" =>
          /\ main = "drain" /\ drained >= Patience
          /\ \E r \in Requests : request[r] = "running"
    BY <1>2, <1>4
       DEF TimedMainStep, MainStep, ServerFails, BeginShutdown, Drain, DrainTimesOut, DeferredStop,
           WaitWorkers, CloseCache, ClosePool, Exit, TypeOK, goroutines, Goto, Drained
  <2>5. ASSUME NEW r \in Requests PROVE CallOK(r)'
    <3>1. CallOK(r) /\ call[r] \in Calls
      BY DEF AnswerInv
    <3>2. StageFits(r)'
      BY <1>1, <2>1, <3>1 DEF CallOK, StageFits
    <3>3. AgeIsBounded(r)' /\ AnswerAgrees(r)'
      BY <1>1, <2>2, <3>1 DEF CallOK, AgeIsBounded, AnswerAgrees, Cut
    <3>4. OlderThanDrain(r)'
      BY <1>1, <2>3, <3>1 DEF OlderThanDrain, AnswerInv, Calls
    <3> QED
      BY <3>2, <3>3, <3>4 DEF CallOK
  <2>6. DrainErrorHasReason'
    <3>1. CASE verdict = "drainError"
      BY <1>1, <3>1 DEF AnswerInv, DrainErrorHasReason
    <3>2. CASE verdict' = "drainError" /\ verdict # "drainError"
      <4>1. PICK r \in Requests : request[r] = "running"
        BY <2>4, <3>2
      <4>2. config.ShutdownTimeout <= call[r].age /\ call[r].stage # "none"
        BY <2>4, <3>2, <4>1
           DEF AnswerInv, CallOK, OlderThanDrain, StageFits, Calls, Deadlines, Patience
      <4>3. AgeIsBounded(r) /\ call[r].age \in Nat
        BY DEF AnswerInv, CallOK, Calls
      <4> QED
        BY <1>1, <4>2, <4>3 DEF AnswerInv, Deadlines, AgeIsBounded, DrainErrorHasReason
    <3> QED
      BY <3>1, <3>2 DEF DrainErrorHasReason
  <2> QED
    BY <1>1, <2>3, <2>5, <2>6 DEF AnswerInv, Deadlines
<1> QED
  BY <1>3, <1>4
     DEF Around, Listen, BreakListener, Signal, StartPass, WorkerStep, StopWorker, CleanUp,
         ExpireNext, EndPass, goroutines

LEMMA AnswersStay == ServingSpec => []AnswerInv
<1>1. ServingInit => AnswerInv
  BY AnswerInit
<1>2. AnswerInv /\ [ServingNext]_servingVars => AnswerInv'
  <2> SUFFICES ASSUME AnswerInv, [ServingNext]_servingVars PROVE AnswerInv'
    OBVIOUS
  <2>1. EndsSafely'
    BY ServingStep, SafeStep DEF AnswerInv
  <2>2. CASE UNCHANGED servingVars
    BY <2>1, <2>2
       DEF servingVars, vars, AnswerInv, Deadlines, CallOK, StageFits, AgeIsBounded, AnswerAgrees,
           OlderThanDrain, Cut, DrainErrorHasReason
  <2> QED
    BY <2>1, <2>2, RequestKeeps, TickKeeps, AroundKeeps DEF ServingNext
<1> QED
  BY <1>1, <1>2, PTL DEF ServingSpec

\* Whatever the deadlines that Validate accepts, and whatever the routes: a client
\* that stays is answered, and neither a success nor a refusal misleads it, although a
\* commit may lose its confirmation and the read after it may fail (Timeout,
\* middleware.go:223; config.go:211; commerce_service.go:245-263).
THEOREM AnswersAreTrue == ServingSpec => []RequestsAreAnswered
<1>1. AnswerInv => RequestsAreAnswered
  <2> SUFFICES ASSUME AnswerInv, NEW r \in Requests, request[r] = "served"
               PROVE  /\ \/ call[r].delivered \/ Cut(r)
                         \/ call[r].ask.slow /\ config.WriteTimeout <= config.ReadTimeout
                      /\ call[r].delivered =>
                           /\ call[r].answer \in {200, 201} => call[r].effect
                           /\ call[r].answer \notin {200, 201, 500, 504} => ~call[r].effect
    BY DEF AnswerInv, EndsSafely, RequestsAreAnswered
  <2> QED
    BY DEF AnswerInv, CallOK, StageFits, AnswerAgrees
<1> QED
  BY <1>1, AnswersStay, PTL

\* A shutdown cuts somebody off only if the operator gave it too little time
\* (main.go:109).
THEOREM DrainErrorsAreExplained == ServingSpec => []DrainErrorHasReason
<1>1. AnswerInv => DrainErrorHasReason
  BY DEF AnswerInv
<1> QED
  BY <1>1, AnswersStay, PTL
=============================================================================
