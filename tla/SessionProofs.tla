----------------------------- MODULE SessionProofs -----------------------------
(***************************************************************************)
(* Theorems about RefreshSessions for any number of clients, requests and  *)
(* tokens.                                                                 *)
(***************************************************************************)
EXTENDS RefreshSessions, FiniteSetTheorems, TLAPS

-----------------------------------------------------------------------------
(* The steps of a request, without the CASEs of the model. *)

LEMMA ReadAccountCases ==
  ASSUME NEW r, ReadAccount(r)
  PROVE  /\ pc[r] = "account"
         /\ \/ User(r) \in disabled /\ Answer(r, "refused")
            \/ User(r) \notin disabled /\ Kind[r] = "call" /\ Answer(r, "ok")
            \/ User(r) \notin disabled /\ Kind[r] # "call" /\ Goto(r, "issue") /\ UNCHANGED outcome
  BY DEF ReadAccount, AccountActive

LEMMA CookieCases ==
  ASSUME NEW r
  PROVE  \/ Kind[r] \in {"login", "refresh"} /\ outcome[r] = "ok" /\ CookieAfter(r) = r
         \/ Kind[r] = "refresh" /\ outcome[r] # "ok" /\ CookieAfter(r) = NoToken
         \/ Kind[r] = "logout" /\ outcome[r] = "ok" /\ CookieAfter(r) = NoToken
         \/ /\ Kind[r] \notin {"login", "refresh"} \/ outcome[r] # "ok"
            /\ Kind[r] # "refresh" /\ (Kind[r] = "logout" => outcome[r] # "ok")
            /\ CookieAfter(r) = jar[Client[r]]
  BY DEF CookieAfter

LEMMA DoubtCases ==
  ASSUME NEW r, Deliver(r)
  PROVE  \/ Kind[r] = "login" /\ outcome[r] = "ok" /\ doubt' = doubt \ {Client[r]}
         \/ Kind[r] = "logout" /\ outcome[r] = "failed" /\ doubt' = doubt \cup {Client[r]}
         \/ /\ ~(Kind[r] = "login" /\ outcome[r] = "ok")
            /\ ~(Kind[r] = "logout" /\ outcome[r] = "failed")
            /\ doubt' = doubt
  BY DEF Deliver

\* What a request may arrive with, where it goes on, and what is decided already.
Arrival(r, t, next, verdict) ==
  \/ Kind[r] = "login" /\ t = NoToken /\ next = "account" /\ verdict = "none"
  \/ /\ Kind[r] # "login"
     /\ t \in Tokens /\ (t = jar[Client[r]] \/ t \in received[Client[r]])
     /\ \/ Kind[r] \in {"refresh", "call"} /\ next = "account" /\ verdict = "none"
        \/ Kind[r] \in {"refresh", "call"} /\ next = "answer" /\ verdict = "refused"
        \/ Kind[r] = "logout" /\ next = "revoke" /\ verdict = "none"
        \/ Kind[r] = "logout" /\ next = "answer" /\ verdict = "ok" /\ ~RefreshValid(t)

LEMMA ArrivalCases ==
  ASSUME TypeOK, NEW r \in Requests,
         ArriveLogin(r) \/ ArriveRefresh(r) \/ ArriveLogout(r) \/ ArriveCall(r)
  PROVE  \E t, next, verdict : Arrive(r, t, next, verdict) /\ Arrival(r, t, next, verdict)
<1>1. Client[r] \in Clients /\ received[Client[r]] \subseteq Tokens
  BY RequestsAreWellFormed DEF TypeOK
<1>2. CASE ArriveLogin(r)
  BY <1>2 DEF ArriveLogin, Arrival
<1>3. CASE ArriveRefresh(r)
  BY <1>3 DEF ArriveRefresh, Arrival, MayPresent
<1>4. CASE ArriveLogout(r)
  BY <1>4 DEF ArriveLogout, Arrival, MayPresent
<1>5. CASE ArriveCall(r)
  BY <1>1, <1>5 DEF ArriveCall, Arrival
<1>6. QED
  BY <1>2, <1>3, <1>4, <1>5

-----------------------------------------------------------------------------
(* Types. *)

\* Where a request of each kind may be.
StagesFit ==
  \A r \in Requests :
    /\ pc[r] = "account" => Kind[r] # "logout"
    /\ pc[r] = "issue" => Kind[r] \in {"login", "refresh"}
    /\ pc[r] = "create" => Kind[r] = "login"
    /\ pc[r] \in {"begin", "consume", "commit"} => Kind[r] = "refresh"
    /\ pc[r] = "revoke" => Kind[r] = "logout"
    /\ pc[r] \in {"answer", "done"} <=> outcome[r] # "none"
    /\ Kind[r] = "logout" => outcome[r] # "refused"
    /\ Kind[r] = "login" \/ pc[r] = "idle" => presented[r] = NoToken
    /\ Kind[r] # "login" /\ pc[r] # "idle" => presented[r] # NoToken

\* A request mints its token once, and does not fail to answer after that.
MintedOnce ==
  \A r \in Requests :
    /\ r \in used => pc[r] \in {"answer", "done"}
    /\ outcome[r] = "ok" /\ r \in Tokens => r \in used

\* The tokens that client c has been given.
Given(c) == {t \in used : pc[t] = "done" /\ Client[t] = c}

\* Nobody has a token of another client, or one that was not answered.
TokensAreOwned ==
  /\ \A c \in Clients : received[c] \subseteq Given(c) /\ jar[c] \in Given(c) \cup {NoToken}
  /\ \A r \in Requests : presented[r] \in Given(Client[r]) \cup {NoToken}

BaseInv == TypeOK /\ StagesFit /\ MintedOnce /\ TokensAreOwned

LEMMA BaseInit == Init => BaseInv
  BY RequestsAreWellFormed, LifetimesAreOrdered
     DEF Init, BaseInv, TypeOK, StagesFit, MintedOnce, TokensAreOwned, Given

LEMMA ArrivalType ==
  ASSUME BaseInv, NEW r \in Requests, NEW t, NEW next, NEW verdict,
         Arrive(r, t, next, verdict), Arrival(r, t, next, verdict)
  PROVE  BaseInv'
<1>1. /\ pc[r] = "idle" /\ pc' = [pc EXCEPT ![r] = next]
      /\ presented' = [presented EXCEPT ![r] = t]
      /\ outcome' = [outcome EXCEPT ![r] = verdict]
      /\ late' \in {late, late \cup {r}}
      /\ chain' = [chain EXCEPT ![r] = IF t = NoToken THEN r ELSE chain[t]]
      /\ UNCHANGED <<clock, disabled, sessions, used, jar, received, doubt, issued, stamp>>
  BY DEF Arrive, db, client
<1>2. /\ next \in {"account", "answer", "revoke"} /\ verdict \in {"none", "ok", "refused"}
      /\ t \in Tokens \cup {NoToken}
  BY DEF Arrival
<1>3. TypeOK'
  <2>1. (IF t = NoToken THEN r ELSE chain[t]) \in Requests
    BY <1>2 DEF BaseInv, TypeOK, Tokens
  <2>2. chain' \in [Requests -> Requests]
    BY <1>1, <2>1 DEF BaseInv, TypeOK
  <2>3. QED
    BY <1>1, <1>2, <2>2 DEF BaseInv, TypeOK
<1>4. StagesFit'
  BY <1>1, RequestsAreWellFormed DEF BaseInv, Arrival, TypeOK, StagesFit, Tokens
<1>5. MintedOnce'
  BY <1>1 DEF BaseInv, Arrival, TypeOK, MintedOnce, Tokens
<1>6. TokensAreOwned'
  <2>1. \A c : Given(c) \subseteq Given(c)'
    BY <1>1 DEF BaseInv, TypeOK, MintedOnce, Given
  <2>2. t \in Given(Client[r]) \cup {NoToken}
    BY RequestsAreWellFormed DEF BaseInv, Arrival, TokensAreOwned
  <2>3. \A q \in Requests : presented'[q] \in Given(Client[q]) \cup {NoToken}
    BY <1>1, <2>2 DEF BaseInv, TypeOK, TokensAreOwned
  <2>4. QED
    BY <1>1, <2>1, <2>3 DEF BaseInv, TokensAreOwned
<1>7. QED
  BY <1>3, <1>4, <1>5, <1>6 DEF BaseInv

-----------------------------------------------------------------------------
(* The statements of a request, by what they do to the table. *)

Inserts(r, next, verdict) ==
  /\ pc[r] \in {"create", "commit"} /\ next = "answer" /\ verdict \in {"ok", "failed"}
  /\ used' = used \cup {r}
  /\ sessions' = (sessions \ {presented[r]}) \cup {r}
Removes(r, next, verdict) ==
  /\ pc[r] = "revoke" /\ next = "answer" /\ verdict \in {"ok", "failed"}
  /\ ~Locked(presented[r])
  /\ used' = used
  /\ sessions' = sessions \ {presented[r]}
Locks(r, next, verdict) ==
  /\ pc[r] = "consume" /\ next = "commit" /\ verdict = "none"
  /\ ~Locked(presented[r]) /\ presented[r] \in sessions
  /\ UNCHANGED <<sessions, used>>
Computes(r, next, verdict) ==
  /\ \/ next = "answer" /\ verdict = "failed"
     \/ next = "answer" /\ verdict = "refused" /\ Kind[r] # "logout"
     \/ next = "answer" /\ verdict = "ok" /\ Kind[r] = "call" /\ User(r) \notin disabled
     \/ /\ pc[r] = "account" /\ next = "issue" /\ verdict = "none"
        /\ Kind[r] \in {"login", "refresh"} /\ User(r) \notin disabled
     \/ pc[r] = "issue" /\ next = "create" /\ verdict = "none" /\ Kind[r] = "login"
     \/ pc[r] = "issue" /\ next = "begin" /\ verdict = "none" /\ Kind[r] = "refresh"
     \/ pc[r] = "begin" /\ next = "consume" /\ verdict = "none"
  /\ UNCHANGED <<sessions, used>>

\* A step of r that is neither its arrival nor its answer.
Works(r, next, verdict) ==
  /\ pc[r] \notin {"idle", "answer", "done"}
  /\ pc' = [pc EXCEPT ![r] = next]
  /\ outcome' = [outcome EXCEPT ![r] = verdict]
  /\ issued' = IF pc[r] = "issue" /\ next # "answer" THEN [issued EXCEPT ![r] = clock] ELSE issued
  /\ stamp' \in {stamp, [stamp EXCEPT ![r] = clock]}
  /\ UNCHANGED <<clock, disabled, jar, received, doubt, presented, late, chain>>
  /\ \/ Inserts(r, next, verdict) \/ Removes(r, next, verdict)
     \/ Locks(r, next, verdict) \/ Computes(r, next, verdict)

LEMMA WorkCases ==
  ASSUME BaseInv, NEW r \in Requests,
         \/ ReadAccount(r) \/ Issue(r) \/ CreateSession(r) \/ BeginRotation(r)
         \/ ConsumeToken(r) \/ CommitRotation(r) \/ Revoke(r) \/ Fail(r)
  PROVE  \E next, verdict : Works(r, next, verdict)
<1>1. /\ outcome \in [Requests -> {"none", "ok", "refused", "failed"}]
      /\ pc[r] \in {"answer", "done"} <=> outcome[r] # "none"
      /\ Kind[r] \in {"login", "refresh", "logout", "call"}
      /\ sessions \subseteq Requests
  BY RequestsAreWellFormed DEF BaseInv, TypeOK, StagesFit, Tokens
<1>2. pc[r] \notin {"answer", "done"} => outcome = [outcome EXCEPT ![r] = "none"]
  BY <1>1
<1>3. CASE ReadAccount(r)
  <2>1. UNCHANGED <<clock, disabled, sessions, used, jar, received, doubt, presented, issued, stamp, late, chain>>
    BY <1>3 DEF ReadAccount, db, client
  <2>2. pc[r] = "account" /\ Kind[r] # "logout"
    BY <1>3, ReadAccountCases DEF BaseInv, StagesFit
  <2>3. CASE Answer(r, "refused")
    BY <2>1, <2>2, <2>3 DEF Answer, Works, Computes
  <2>4. CASE User(r) \notin disabled /\ Kind[r] = "call" /\ Answer(r, "ok")
    BY <2>1, <2>2, <2>4 DEF Answer, Works, Computes
  <2>5. CASE User(r) \notin disabled /\ Kind[r] # "call" /\ Goto(r, "issue") /\ UNCHANGED outcome
    BY <1>1, <1>2, <2>1, <2>2, <2>5 DEF Goto, Works, Computes
  <2>6. QED
    BY <1>3, <2>3, <2>4, <2>5, ReadAccountCases
<1>4. CASE Issue(r)
  <2>1. pc[r] = "issue" /\ Kind[r] \in {"login", "refresh"}
    BY <1>4 DEF Issue, BaseInv, StagesFit
  <2>2. CASE Kind[r] = "login"
    <3>1. Works(r, "create", "none")
      BY <1>2, <1>4, <2>1, <2>2 DEF Issue, Goto, Works, Computes, db, client
    <3>2. QED
      BY <3>1
  <2>3. CASE Kind[r] = "refresh"
    <3>1. Works(r, "begin", "none")
      BY <1>2, <1>4, <2>1, <2>3 DEF Issue, Goto, Works, Computes, db, client
    <3>2. QED
      BY <3>1
  <2>4. QED
    BY <2>1, <2>2, <2>3
<1>5. CASE CreateSession(r)
  <2>1. pc[r] = "create" /\ presented[r] \notin sessions
    BY <1>1, <1>5, RequestsAreWellFormed DEF CreateSession, BaseInv, StagesFit
  <2>2. sessions' = (sessions \ {presented[r]}) \cup {r} /\ used' = used \cup {r}
    BY <1>5, <2>1 DEF CreateSession
  <2>3. UNCHANGED <<clock, disabled, jar, received, doubt, presented, issued, stamp, late, chain>>
    BY <1>5 DEF CreateSession, client
  <2>4. \E verdict \in {"ok", "failed"} : Answer(r, verdict)
    BY <1>5 DEF CreateSession, Committed
  <2>5. QED
    BY <2>1, <2>2, <2>3, <2>4 DEF Answer, Works, Inserts
<1>6. CASE BeginRotation(r)
  <2>1. Works(r, "consume", "none")
    BY <1>2, <1>6 DEF BeginRotation, Goto, Works, Computes, db, client
  <2>2. QED
    BY <2>1
<1>7. CASE ConsumeToken(r)
  <2>1. pc[r] = "consume" /\ Kind[r] # "logout" /\ ~Locked(presented[r])
    BY <1>7 DEF ConsumeToken, BaseInv, StagesFit
  <2>2. UNCHANGED <<clock, disabled, sessions, used, jar, received, doubt, presented, issued, stamp, late, chain>>
    BY <1>7 DEF ConsumeToken, db, client
  <2>3. CASE Consumable(r) /\ Goto(r, "commit") /\ UNCHANGED outcome
    <3>1. Works(r, "commit", "none")
      BY <1>2, <2>1, <2>2, <2>3 DEF Consumable, Goto, Works, Locks
    <3>2. QED
      BY <3>1
  <2>4. CASE Answer(r, "refused")
    BY <2>1, <2>2, <2>4 DEF Answer, Works, Computes
  <2>5. QED
    BY <1>7, <2>3, <2>4 DEF ConsumeToken
<1>8. CASE CommitRotation(r)
  <2>1. UNCHANGED <<clock, disabled, jar, received, doubt, presented, issued, stamp, late, chain>>
    BY <1>8 DEF CommitRotation, client
  <2>2. \E verdict \in {"ok", "failed"} : Answer(r, verdict)
    BY <1>8 DEF CommitRotation, Committed
  <2>3. QED
    BY <1>8, <2>1, <2>2 DEF CommitRotation, Answer, Works, Inserts
<1>9. CASE Revoke(r)
  <2>1. UNCHANGED <<clock, disabled, used, jar, received, doubt, presented, issued, stamp, late, chain>>
    BY <1>9 DEF Revoke, client
  <2>2. \E verdict \in {"ok", "failed"} : Answer(r, verdict)
    BY <1>9 DEF Revoke, Committed
  <2>3. pc[r] = "revoke" /\ ~Locked(presented[r]) /\ sessions' = sessions \ {presented[r]}
    BY <1>9 DEF Revoke, RowsToRevoke
  <2>4. QED
    BY <2>1, <2>2, <2>3 DEF Answer, Works, Removes
<1>10. CASE Fail(r)
  <2>1. Works(r, "answer", "failed")
    BY <1>10 DEF Fail, InFlight, Answer, Works, Computes, db, client
  <2>2. QED
    BY <2>1
<1>11. QED
  BY <1>3, <1>4, <1>5, <1>6, <1>7, <1>8, <1>9, <1>10

LEMMA WorkType ==
  ASSUME BaseInv, NEW r \in Requests, NEW next, NEW verdict, Works(r, next, verdict)
  PROVE  BaseInv'
<1>1. /\ next \in {"answer", "issue", "create", "begin", "consume", "commit"}
      /\ verdict \in {"none", "ok", "refused", "failed"}
      /\ used' \in {used, used \cup {r}} /\ sessions' \subseteq used'
      /\ r \in used' => r \in Tokens
  BY DEF Works, Inserts, Removes, Locks, Computes, BaseInv, TypeOK, StagesFit, Tokens
<1>2. TypeOK'
  <2>1. issued' \in [Requests -> 0..MaxTime] /\ stamp' \in [Requests -> 0..MaxTime]
    BY DEF Works, BaseInv, TypeOK
  <2>2. QED
    BY <1>1, <2>1 DEF Works, BaseInv, TypeOK
<1>3. StagesFit'
  <2>1. \A q \in Requests \ {r} : pc'[q] = pc[q] /\ outcome'[q] = outcome[q]
    BY DEF Works, BaseInv, TypeOK
  <2>2. pc'[r] = next /\ outcome'[r] = verdict /\ presented' = presented
    BY DEF Works, BaseInv, TypeOK
  <2>3. /\ next = "issue" => Kind[r] \in {"login", "refresh"}
        /\ next = "create" => Kind[r] = "login"
        /\ next \in {"begin", "consume", "commit"} => Kind[r] = "refresh"
        /\ next = "answer" <=> verdict # "none"
        /\ Kind[r] = "logout" => verdict # "refused"
        /\ pc[r] # "idle"
    BY DEF Works, Inserts, Removes, Locks, Computes, BaseInv, StagesFit
  <2>4. QED
    BY <1>1, <2>1, <2>2, <2>3 DEF BaseInv, StagesFit
<1>4. MintedOnce'
  <2>1. \A q \in Requests \ {r} :
          pc'[q] = pc[q] /\ outcome'[q] = outcome[q] /\ (q \in used' <=> q \in used)
    BY <1>1 DEF Works, BaseInv, TypeOK
  <2>2. pc'[r] = next /\ outcome'[r] = verdict /\ r \notin used
    BY DEF Works, BaseInv, TypeOK, MintedOnce
  <2>3. (r \in used' => next = "answer") /\ (verdict = "ok" /\ r \in Tokens => r \in used')
    BY <2>2 DEF Works, Inserts, Removes, Locks, Computes, BaseInv, StagesFit, Tokens
  <2>4. QED
    BY <2>1, <2>2, <2>3 DEF BaseInv, MintedOnce
<1>5. TokensAreOwned'
  <2>1. \A c : Given(c) \subseteq Given(c)'
    BY <1>1 DEF Works, BaseInv, TypeOK, Given
  <2>2. QED
    BY <2>1 DEF Works, BaseInv, TokensAreOwned
<1>6. QED
  BY <1>2, <1>3, <1>4, <1>5 DEF BaseInv

\* The answer of r, whether it is seen or lost.
LEMMA AnswerType ==
  ASSUME BaseInv, NEW r \in Requests, Deliver(r) \/ LoseAnswer(r)
  PROVE  BaseInv'
<1>1. /\ pc[r] = "answer" /\ pc' = [pc EXCEPT ![r] = "done"]
      /\ UNCHANGED <<clock, disabled, sessions, used, presented, issued, stamp, outcome, late, chain>>
  BY DEF Deliver, LoseAnswer, Goto, db
<1>2. Client[r] \in Clients
  BY RequestsAreWellFormed
<1>3. \A c : Given(c) \subseteq Given(c)' /\ (r \in used => r \in Given(Client[r])')
  BY <1>1 DEF BaseInv, TypeOK, Given
<1>4. outcome[r] = "ok" /\ r \in Tokens => r \in used
  BY DEF BaseInv, MintedOnce
<1>5. \A c \in Clients : received'[c] \subseteq Given(c)' /\ jar'[c] \in Given(c)' \cup {NoToken}
  <2>1. CASE Deliver(r)
    <3>1. \A c \in Clients \ {Client[r]} : received'[c] = received[c] /\ jar'[c] = jar[c]
      BY <2>1 DEF Deliver, BaseInv, TypeOK
    <3>2. received'[Client[r]] \subseteq Given(Client[r])'
      BY <1>2, <1>3, <1>4, <2>1 DEF Deliver, BaseInv, TypeOK, TokensAreOwned
    <3>3. jar'[Client[r]] = CookieAfter(r)
      BY <1>2, <2>1 DEF Deliver, BaseInv, TypeOK
    <3>4. CookieAfter(r) \in Given(Client[r])' \cup {NoToken}
      BY <1>2, <1>3, <1>4, CookieCases DEF BaseInv, TokensAreOwned, Tokens
    <3>5. QED
      BY <1>3, <3>1, <3>2, <3>3, <3>4 DEF BaseInv, TokensAreOwned
  <2>2. CASE LoseAnswer(r)
    BY <1>3, <2>2 DEF LoseAnswer, BaseInv, TokensAreOwned
  <2>3. QED
    BY <2>1, <2>2
<1>6. TokensAreOwned'
  BY <1>1, <1>3, <1>5 DEF BaseInv, TokensAreOwned
<1>7. TypeOK'
  <2>1. jar' \in [Clients -> Tokens \cup {NoToken}] /\ received' \in [Clients -> SUBSET Tokens]
    <3>1. DOMAIN jar' = Clients /\ DOMAIN received' = Clients
      BY DEF Deliver, LoseAnswer, BaseInv, TypeOK
    <3>2. \A c : Given(c)' \subseteq Tokens
      BY <1>1 DEF Given, BaseInv, TypeOK
    <3>3. jar' = [c \in Clients |-> jar'[c]] /\ received' = [c \in Clients |-> received'[c]]
      BY <3>1 DEF Deliver, LoseAnswer, BaseInv, TypeOK
    <3>4. QED
      BY <1>5, <3>2, <3>3
  <2>2. doubt' \subseteq Clients
    BY <1>2, DoubtCases DEF LoseAnswer, BaseInv, TypeOK
  <2>3. QED
    BY <1>1, <2>1, <2>2 DEF BaseInv, TypeOK
<1>8. StagesFit' /\ MintedOnce'
  BY <1>1 DEF BaseInv, TypeOK, StagesFit, MintedOnce
<1>9. QED
  BY <1>6, <1>7, <1>8 DEF BaseInv

\* The steps of nobody's request.
LEMMA ElsewhereType ==
  ASSUME BaseInv, Cleanup \/ (\E u \in Users : Disable(u)) \/ Tick \/ UNCHANGED vars
  PROVE  BaseInv'
<1>1. /\ UNCHANGED <<used, jar, received, doubt, pc, presented, issued, stamp, outcome, late, chain>>
      /\ sessions' \subseteq sessions /\ disabled' \subseteq Users /\ clock' \in 0..MaxTime
  BY LifetimesAreOrdered DEF Cleanup, Disable, Tick, vars, db, client, request, BaseInv, TypeOK
<1>2. TypeOK' /\ StagesFit' /\ MintedOnce' /\ TokensAreOwned'
  BY <1>1 DEF BaseInv, TypeOK, StagesFit, MintedOnce, TokensAreOwned, Given
<1>3. QED
  BY <1>2 DEF BaseInv

\* Every step of the specification is one of these.
LEMMA StepCases ==
  ASSUME BaseInv, [Next]_vars
  PROVE  \/ \E r \in Requests :
              \/ \E t, next, verdict : Arrive(r, t, next, verdict) /\ Arrival(r, t, next, verdict)
              \/ \E next, verdict : Works(r, next, verdict)
              \/ Deliver(r) \/ LoseAnswer(r)
         \/ Cleanup \/ (\E u \in Users : Disable(u)) \/ Tick \/ UNCHANGED vars
<1>1. CASE \E r \in Requests :
             \/ ArriveLogin(r) \/ ArriveRefresh(r) \/ ArriveLogout(r) \/ ArriveCall(r)
             \/ Proceed(r) \/ Fail(r) \/ LoseAnswer(r)
  <2>1. PICK r \in Requests :
          \/ ArriveLogin(r) \/ ArriveRefresh(r) \/ ArriveLogout(r) \/ ArriveCall(r)
          \/ Proceed(r) \/ Fail(r) \/ LoseAnswer(r)
    BY <1>1
  <2>2. CASE ArriveLogin(r) \/ ArriveRefresh(r) \/ ArriveLogout(r) \/ ArriveCall(r)
    BY <2>2, ArrivalCases DEF BaseInv
  <2>3. CASE Proceed(r) \/ Fail(r) \/ LoseAnswer(r)
    BY <2>3, WorkCases DEF Proceed
  <2>4. QED
    BY <2>1, <2>2, <2>3
<1>2. QED
  BY <1>1 DEF Next

LEMMA BaseInvariant == Spec => []BaseInv
<1>1. BaseInv /\ [Next]_vars => BaseInv'
  BY StepCases, ArrivalType, WorkType, AnswerType, ElsewhereType
<1>2. QED
  BY <1>1, BaseInit, PTL DEF Spec

\* Every token that a row, a cookie or a request holds was minted by a login or a
\* refresh, and no statement leaves the domain of what it writes.
THEOREM SessionTypes == Spec => []TypeOK
<1>1. BaseInv => TypeOK
  BY DEF BaseInv
<1>2. QED
  BY <1>1, BaseInvariant, PTL

-----------------------------------------------------------------------------
(* Chains. *)

\* A token continues the chain of the token it was exchanged for, and a chain
\* starts with the token of a login.
ChainsAreRooted ==
  /\ \A r \in Requests : chain[r] = IF presented[r] = NoToken THEN r ELSE chain[presented[r]]
  /\ \A t \in used : chain[t] \in Logins \cap used

\* A row belongs to at most one refresh that has consumed it, and a chain to
\* at most one row.
RowsAreExclusive ==
  /\ \A t1, t2 \in sessions : chain[t1] = chain[t2] => t1 = t2
  /\ \A r \in Requests : pc[r] = "commit" => presented[r] \in sessions
  /\ \A r, q \in Requests :
       pc[r] = "commit" /\ pc[q] = "commit" /\ presented[r] = presented[q] => r = q

ChainsInv == BaseInv /\ ChainsAreRooted /\ RowsAreExclusive

LEMMA ChainsInit == Init => ChainsInv
  BY BaseInit DEF Init, ChainsInv, ChainsAreRooted, RowsAreExclusive

LEMMA ArrivalChains ==
  ASSUME ChainsInv, BaseInv', NEW r \in Requests, NEW t, NEW next, NEW verdict,
         Arrive(r, t, next, verdict), Arrival(r, t, next, verdict)
  PROVE  ChainsInv' /\ \A u \in used : chain'[u] = chain[u]
<1>1. /\ pc[r] = "idle" /\ pc' = [pc EXCEPT ![r] = next]
      /\ presented' = [presented EXCEPT ![r] = t]
      /\ chain' = [chain EXCEPT ![r] = IF t = NoToken THEN r ELSE chain[t]]
      /\ UNCHANGED <<sessions, used>>
  BY DEF Arrive, db
<1>2. next # "commit" /\ (t # NoToken => t \in used)
  BY RequestsAreWellFormed DEF Arrival, ChainsInv, BaseInv, TokensAreOwned, Given
<1>3. r \notin used
  BY <1>1 DEF ChainsInv, BaseInv, MintedOnce
<1>4. \A u \in used : u \in Requests /\ u # r
  BY <1>3 DEF ChainsInv, BaseInv, TypeOK, Tokens
<1>5. chain'[r] = (IF t = NoToken THEN r ELSE chain[t]) /\ \A q \in Requests \ {r} : chain'[q] = chain[q]
  BY <1>1 DEF ChainsInv, BaseInv, TypeOK
<1>6. presented'[r] = t /\ \A q \in Requests \ {r} : presented'[q] = presented[q] /\ pc'[q] = pc[q]
  BY <1>1 DEF ChainsInv, BaseInv, TypeOK
<1>7. pc'[r] # "commit"
  BY <1>1, <1>2 DEF ChainsInv, BaseInv, TypeOK
<1>8. \A q \in Requests : presented[q] # NoToken => presented[q] \in used
  BY DEF ChainsInv, BaseInv, TokensAreOwned, Given
<1>9. ChainsAreRooted'
  BY <1>1, <1>2, <1>4, <1>5, <1>6, <1>8 DEF ChainsInv, ChainsAreRooted
<1>10. RowsAreExclusive'
  <2>1. \A u \in sessions : u \in used
    BY DEF ChainsInv, BaseInv, TypeOK
  <2>2. QED
    BY <1>1, <1>4, <1>5, <1>6, <1>7, <2>1 DEF ChainsInv, RowsAreExclusive
<1>11. QED
  BY <1>4, <1>5, <1>9, <1>10 DEF ChainsInv

LEMMA InsertChains ==
  ASSUME ChainsInv, NEW r \in Requests, NEW next, NEW verdict,
         Works(r, next, verdict), Inserts(r, next, verdict)
  PROVE  ChainsAreRooted' /\ RowsAreExclusive'
<1>1. /\ pc[r] \in {"create", "commit"} /\ pc' = [pc EXCEPT ![r] = "answer"]
      /\ used' = used \cup {r} /\ sessions' = (sessions \ {presented[r]}) \cup {r}
      /\ UNCHANGED <<presented, chain>>
  BY DEF Works, Inserts
<1>2. r \notin used /\ sessions \subseteq used /\ used \subseteq Requests /\ NoToken \notin used
  BY <1>1, RequestsAreWellFormed DEF ChainsInv, BaseInv, MintedOnce, TypeOK, Tokens
<1>3. /\ pc[r] = "create" => presented[r] = NoToken /\ r \in Logins
      /\ pc[r] = "commit" => presented[r] \in sessions
  BY DEF ChainsInv, BaseInv, StagesFit, RowsAreExclusive, Logins
<1>4. chain[r] \in Logins \cap used'
  BY <1>1, <1>2, <1>3 DEF ChainsInv, ChainsAreRooted
<1>5. ChainsAreRooted'
  BY <1>1, <1>4 DEF ChainsInv, ChainsAreRooted
<1>6. \A t \in sessions \ {presented[r]} : chain[t] # chain[r]
  <2>1. CASE pc[r] = "create"
    <3>1. chain[r] = r /\ \A t \in sessions : chain[t] \in used
      BY <1>2, <1>3, <2>1 DEF ChainsInv, ChainsAreRooted
    <3>2. QED
      BY <1>2, <3>1
  <2>2. CASE pc[r] = "commit"
    <3>1. presented[r] \in sessions /\ chain[r] = chain[presented[r]]
      BY <1>2, <1>3, <2>2 DEF ChainsInv, ChainsAreRooted
    <3>2. QED
      BY <3>1 DEF ChainsInv, RowsAreExclusive
  <2>3. QED
    BY <1>1, <2>1, <2>2
<1>7. \A q \in Requests : pc'[q] = "commit" => q # r /\ pc[q] = "commit"
  BY <1>1 DEF ChainsInv, BaseInv, TypeOK
<1>8. \A q \in Requests : pc'[q] = "commit" => presented[q] \in sessions \ {presented[r]}
  BY <1>1, <1>2, <1>3, <1>7 DEF ChainsInv, RowsAreExclusive
<1>9. RowsAreExclusive'
  BY <1>1, <1>6, <1>7, <1>8 DEF ChainsInv, RowsAreExclusive
<1>10. QED
  BY <1>5, <1>9

\* Rows are removed, none of them locked, or a free one is locked.
LEMMA ShrinkChains ==
  ASSUME ChainsInv, UNCHANGED <<used, presented, chain>>, sessions' \subseteq sessions,
         \A t \in sessions \ sessions' : ~Locked(t),
         \A q \in Requests :
           pc'[q] = "commit" =>
             \/ pc[q] = "commit"
             \/ /\ presented[q] \in sessions' /\ ~Locked(presented[q])
                /\ \A z \in Requests \ {q} : pc'[z] = "commit" => pc[z] = "commit"
  PROVE  ChainsAreRooted' /\ RowsAreExclusive'
<1>1. ChainsAreRooted'
  BY DEF ChainsInv, ChainsAreRooted
<1>2. \A t1, t2 \in sessions' : chain'[t1] = chain'[t2] => t1 = t2
  BY DEF ChainsInv, RowsAreExclusive
<1>3. \A q \in Requests : pc'[q] = "commit" => presented'[q] \in sessions'
  BY DEF ChainsInv, RowsAreExclusive, Locked
<1>4. \A r, q \in Requests :
        pc'[r] = "commit" /\ pc'[q] = "commit" /\ presented'[r] = presented'[q] => r = q
  BY DEF ChainsInv, RowsAreExclusive, Locked
<1>5. QED
  BY <1>1, <1>2, <1>3, <1>4 DEF RowsAreExclusive

\* What every step but a commit of a new token does to the rows.
LEMMA ShrinkCases ==
  ASSUME BaseInv,
         \/ \E r \in Requests :
              \/ \E next, verdict : Works(r, next, verdict) /\ ~Inserts(r, next, verdict)
              \/ Deliver(r) \/ LoseAnswer(r)
         \/ Cleanup \/ (\E u \in Users : Disable(u)) \/ Tick \/ UNCHANGED vars
  PROVE  /\ UNCHANGED <<used, presented, chain>> /\ sessions' \subseteq sessions
         /\ \A t \in sessions \ sessions' : ~Locked(t)
         /\ \A q \in Requests :
              pc'[q] = "commit" =>
                \/ pc[q] = "commit"
                \/ /\ presented[q] \in sessions' /\ ~Locked(presented[q])
                   /\ \A z \in Requests \ {q} : pc'[z] = "commit" => pc[z] = "commit"
<1>1. ASSUME NEW r \in Requests, NEW next, NEW verdict,
             Works(r, next, verdict), ~Inserts(r, next, verdict)
      PROVE  /\ UNCHANGED <<used, presented, chain>> /\ sessions' \subseteq sessions
             /\ \A t \in sessions \ sessions' : ~Locked(t)
             /\ next = "commit" => presented[r] \in sessions' /\ ~Locked(presented[r])
             /\ pc'[r] = next /\ \A z \in Requests \ {r} : pc'[z] = pc[z]
  <2>1. Removes(r, next, verdict) \/ Locks(r, next, verdict) \/ Computes(r, next, verdict)
    BY <1>1 DEF Works
  <2>2. pc'[r] = next /\ \A z \in Requests \ {r} : pc'[z] = pc[z]
    BY <1>1 DEF Works, BaseInv, TypeOK
  <2>3. UNCHANGED <<used, presented, chain>>
    BY <1>1, <2>1 DEF Works, Removes, Locks, Computes
  <2>4. sessions' \subseteq sessions /\ \A t \in sessions \ sessions' : ~Locked(t)
    BY <2>1 DEF Removes, Locks, Computes
  <2>5. next = "commit" => presented[r] \in sessions' /\ ~Locked(presented[r])
    BY <2>1 DEF Removes, Locks, Computes
  <2>6. QED
    BY <2>2, <2>3, <2>4, <2>5
<1>2. ASSUME NEW r \in Requests, Deliver(r) \/ LoseAnswer(r)
      PROVE  UNCHANGED <<used, sessions, presented, chain>> /\ \A q \in Requests : pc'[q] = "commit" => pc[q] = "commit"
  BY <1>2 DEF Deliver, LoseAnswer, Goto, db, BaseInv, TypeOK
<1>3. ASSUME Cleanup
      PROVE  /\ UNCHANGED <<used, presented, chain, pc>> /\ sessions' \subseteq sessions
             /\ \A t \in sessions \ sessions' : ~Locked(t)
  BY <1>3 DEF Cleanup, client, request
<1>4. ASSUME (\E u \in Users : Disable(u)) \/ Tick \/ UNCHANGED vars
      PROVE  UNCHANGED <<used, sessions, presented, chain, pc>>
  BY <1>4 DEF Disable, Tick, vars, db, client, request
<1>5. QED
  BY <1>1, <1>2, <1>3, <1>4

LEMMA ChainsInvariant == Spec => []ChainsInv
<1>1. ChainsInv /\ BaseInv' /\ [Next]_vars => ChainsInv'
  <2> SUFFICES ASSUME ChainsInv, BaseInv', [Next]_vars PROVE ChainsInv'
    OBVIOUS
  <2>1. BaseInv
    BY DEF ChainsInv
  <2>2. CASE \E r \in Requests : \E t, next, verdict :
               Arrive(r, t, next, verdict) /\ Arrival(r, t, next, verdict)
    BY <2>2, ArrivalChains
  <2>3. CASE \E r \in Requests : \E next, verdict : Works(r, next, verdict) /\ Inserts(r, next, verdict)
    BY <2>3, InsertChains DEF ChainsInv
  <2>4. CASE \/ \E r \in Requests :
                  \/ \E next, verdict : Works(r, next, verdict) /\ ~Inserts(r, next, verdict)
                  \/ Deliver(r) \/ LoseAnswer(r)
             \/ Cleanup \/ (\E u \in Users : Disable(u)) \/ Tick \/ UNCHANGED vars
    BY <2>1, <2>4, ShrinkCases, ShrinkChains DEF ChainsInv
  <2>5. QED
    BY <2>1, <2>2, <2>3, <2>4, StepCases
<1>2. QED
  BY <1>1, ChainsInit, BaseInvariant, PTL DEF Spec

-----------------------------------------------------------------------------
(* The refinement of SessionChain. *)

\* The refinement mapping, told by rows instead of cardinalities.
CurrentIsRow ==
  \A l \in Logins :
    /\ l \notin used => CurrentToken(l) = NotStarted
    /\ \A t \in sessions : chain[t] = l => CurrentToken(l) = t
    /\ l \in used /\ LiveTokens(l) = {} => CurrentToken(l) = Ended

LEMMA CurrentIsToken == ChainsInv => CurrentIsRow
<1> SUFFICES ASSUME ChainsInv, NEW l \in Logins
             PROVE  /\ l \notin used => CurrentToken(l) = NotStarted
                    /\ \A t \in sessions : chain[t] = l => CurrentToken(l) = t
                    /\ l \in used /\ LiveTokens(l) = {} => CurrentToken(l) = Ended
  BY DEF CurrentIsRow
<1>1. ASSUME NEW t \in sessions, chain[t] = l
      PROVE  CurrentToken(l) = t
  <2>1. LiveTokens(l) = {t}
    BY <1>1 DEF LiveTokens, ChainsInv, RowsAreExclusive
  <2>2. Cardinality(LiveTokens(l)) = 1 /\ (CHOOSE u \in LiveTokens(l) : TRUE) = t
    BY <2>1, FS_Singleton
  <2>3. l \in used /\ LiveTokens(l) # {}
    BY <1>1, <2>1 DEF ChainsInv, ChainsAreRooted, BaseInv, TypeOK
  <2>4. QED
    BY <2>2, <2>3 DEF CurrentToken
<1>2. ASSUME l \notin used
      PROVE  CurrentToken(l) = NotStarted
  <2>1. LiveTokens(l) = {}
    BY <1>2 DEF LiveTokens, ChainsInv, ChainsAreRooted, BaseInv, TypeOK
  <2>2. Cardinality(LiveTokens(l)) # 1
    BY <2>1, FS_EmptySet
  <2>3. QED
    BY <1>2, <2>2 DEF CurrentToken
<1>3. l \in used /\ LiveTokens(l) = {} => CurrentToken(l) = Ended
  BY DEF CurrentToken
<1>4. QED
  BY <1>1, <1>2, <1>3

LEMMA CurrentIsTokenNext == ChainsInv' => CurrentIsRow'
  BY CurrentIsToken, PTL

\* Rows that go end their chains; the other chains keep their tokens.
LEMMA ShrinkEnds ==
  ASSUME ChainsInv, CurrentIsRow, CurrentIsRow',
         UNCHANGED used, sessions' \subseteq sessions, \A t \in sessions : chain'[t] = chain[t]
  PROVE  Chains!Next
<1> DEFINE gone == {chain[t] : t \in sessions \ sessions'}
<1>1. gone \subseteq Logins /\ gone \subseteq used
  BY DEF ChainsInv, ChainsAreRooted, BaseInv, TypeOK
<1>2. ASSUME NEW l \in gone
      PROVE  CurrentToken(l) \in Tokens /\ CurrentToken(l)' = Ended
  <2>1. PICK t \in sessions \ sessions' : chain[t] = l
    OBVIOUS
  <2>2. CurrentToken(l) = t /\ t \in Tokens
    BY <1>1, <2>1 DEF CurrentIsRow, ChainsInv, BaseInv, TypeOK
  <2>3. LiveTokens(l)' = {}
    BY <2>1 DEF LiveTokens, ChainsInv, RowsAreExclusive
  <2>4. QED
    BY <1>1, <2>2, <2>3 DEF CurrentIsRow
<1>3. ASSUME NEW l \in Logins \ gone
      PROVE  CurrentToken(l)' = CurrentToken(l)
  <2>1. LiveTokens(l)' = LiveTokens(l)
    BY DEF LiveTokens
  <2>2. QED
    BY <2>1 DEF CurrentToken
<1> HIDE DEF gone
<1>4. Chains!End(gone)
  <2>1. \A l \in gone : [m \in Logins |-> CurrentToken(m)][l] \in Tokens
    BY <1>1, <1>2
  <2>2. [l \in Logins |-> CurrentToken(l)]' =
          [l \in Logins |-> IF l \in gone THEN Ended ELSE [m \in Logins |-> CurrentToken(m)][l]]
    BY <1>2, <1>3
  <2>3. QED
    BY <2>1, <2>2 DEF Chains!End
<1>5. QED
  BY <1>1, <1>4 DEF Chains!Next

\* The commit of a new token opens a chain or renews one.
LEMMA InsertPlaces ==
  ASSUME ChainsInv, CurrentIsRow, CurrentIsRow', NEW r \in Requests, NEW next, NEW verdict,
         Works(r, next, verdict), Inserts(r, next, verdict)
  PROVE  Chains!Next
<1> DEFINE cur == [m \in Logins |-> CurrentToken(m)]
<1>0. PICK l : l = chain[r]
  OBVIOUS
<1>1. /\ pc[r] \in {"create", "commit"}
      /\ used' = used \cup {r} /\ sessions' = (sessions \ {presented[r]}) \cup {r}
      /\ UNCHANGED <<presented, chain>>
  BY DEF Works, Inserts
<1>2. r \in Tokens \ used /\ sessions \subseteq used /\ used \subseteq Requests /\ NoToken \notin used
  BY <1>1, RequestsAreWellFormed DEF ChainsInv, BaseInv, StagesFit, MintedOnce, TypeOK, Tokens
<1>3. /\ pc[r] = "create" => presented[r] = NoToken /\ r \in Logins
      /\ pc[r] = "commit" => presented[r] \in sessions /\ r \notin Logins
  BY DEF ChainsInv, BaseInv, StagesFit, RowsAreExclusive, Logins
<1>4. l \in Logins /\ CurrentToken(l)' = r
  <2>1. l \in Logins
    BY <1>0, <1>1, <1>2, <1>3 DEF ChainsInv, ChainsAreRooted
  <2>2. QED
    BY <1>0, <1>1, <2>1 DEF CurrentIsRow
<1>5. ASSUME NEW m \in Logins \ {l}
      PROVE  CurrentToken(m)' = CurrentToken(m)
  <2>1. LiveTokens(m)' = LiveTokens(m)
    <3>1. presented[r] \in sessions => chain[presented[r]] = l
      BY <1>0, <1>2 DEF ChainsInv, ChainsAreRooted
    <3>2. QED
      BY <1>0, <1>1, <3>1 DEF LiveTokens
  <2>2. m \in used' <=> m \in used
    <3>1. m # r
      BY <1>0, <1>1, <1>3 DEF ChainsInv, ChainsAreRooted
    <3>2. QED
      BY <1>1, <3>1
  <2>3. QED
    BY <2>1, <2>2 DEF CurrentToken
<1>6. cur' = [cur EXCEPT ![l] = r]
  <2>1. \A m \in Logins : CurrentToken(m)' = IF m = l THEN r ELSE CurrentToken(m)
    BY <1>4, <1>5
  <2>2. cur' = [m \in Logins |-> IF m = l THEN r ELSE CurrentToken(m)]
    BY <2>1
  <2>3. QED
    BY <2>2
<1>7. cur[l] = NotStarted \/ cur[l] \in Tokens
  <2>1. CASE pc[r] = "create"
    <3>1. l = r
      BY <1>0, <1>3, <2>1 DEF ChainsInv, ChainsAreRooted
    <3>2. QED
      BY <1>2, <1>4, <3>1 DEF CurrentIsRow
  <2>2. CASE pc[r] = "commit"
    <3>1. presented[r] \in sessions /\ chain[presented[r]] = l
      BY <1>0, <1>2, <1>3, <2>2 DEF ChainsInv, ChainsAreRooted
    <3>2. CurrentToken(l) = presented[r] /\ presented[r] \in Tokens
      BY <1>4, <3>1 DEF CurrentIsRow, ChainsInv, BaseInv, TypeOK
    <3>3. QED
      BY <1>4, <3>2
  <2>3. QED
    BY <1>1, <2>1, <2>2
<1>8. Chains!Place(l, r)
  BY <1>1, <1>2, <1>6 DEF Chains!Place
<1>9. Chains!Open(l, r) \/ Chains!Renew(l, r)
  BY <1>7, <1>8 DEF Chains!Open, Chains!Renew
<1>10. QED
  BY <1>2, <1>4, <1>9 DEF Chains!Next

\* However the statements of logins, refreshes, logouts and cleanups interleave,
\* a chain has one token at a time, a token has at most one successor, and a
\* chain that was logged out or has expired is never resumed.
THEOREM SessionsKeepChains == Spec => KeepsChains
<1>1. Init => Chains!Init
  <2> SUFFICES ASSUME Init PROVE Chains!Init
    OBVIOUS
  <2>1. \A l \in Logins : CurrentToken(l) = NotStarted
    BY ChainsInit, CurrentIsToken DEF Init, CurrentIsRow
  <2>2. QED
    BY <2>1 DEF Init, Chains!Init
<1>2. ChainsInv /\ ChainsInv' /\ [Next]_vars => [Chains!Next]_(Chains!vars)
  <2> SUFFICES ASSUME ChainsInv, ChainsInv', [Next]_vars PROVE Chains!Next
    OBVIOUS
  <2>1. BaseInv /\ BaseInv' /\ CurrentIsRow /\ CurrentIsRow'
    BY CurrentIsToken, CurrentIsTokenNext DEF ChainsInv
  <2>2. sessions \subseteq used
    BY <2>1 DEF BaseInv, TypeOK
  <2>3. CASE \E r \in Requests : \E t, next, verdict :
               Arrive(r, t, next, verdict) /\ Arrival(r, t, next, verdict)
    <3>1. \A u \in used : chain'[u] = chain[u]
      BY <2>1, <2>3, ArrivalChains
    <3>2. UNCHANGED <<used, sessions>>
      BY <2>3 DEF Arrive, db
    <3>3. QED
      BY <2>1, <2>2, <3>1, <3>2, ShrinkEnds
  <2>4. CASE \E r \in Requests : \E next, verdict : Works(r, next, verdict) /\ Inserts(r, next, verdict)
    BY <2>1, <2>4, InsertPlaces
  <2>5. CASE \/ \E r \in Requests :
                  \/ \E next, verdict : Works(r, next, verdict) /\ ~Inserts(r, next, verdict)
                  \/ Deliver(r) \/ LoseAnswer(r)
             \/ Cleanup \/ (\E u \in Users : Disable(u)) \/ Tick \/ UNCHANGED vars
    <3>1. UNCHANGED <<used, chain>> /\ sessions' \subseteq sessions
      BY <2>1, <2>5, ShrinkCases
    <3>2. QED
      BY <2>1, <3>1, ShrinkEnds
  <2>6. QED
    BY <2>1, <2>3, <2>4, <2>5, StepCases
<1>3. QED
  BY <1>1, <1>2, ChainsInvariant, PTL DEF Spec, Chains!Spec, KeepsChains

-----------------------------------------------------------------------------
(* What a step cannot undo. *)

\* A token that is not in the table never comes back, and the lifetime of a
\* token does not start again.
LEMMA Irreversible ==
  ASSUME ChainsInv, ChainsInv', [Next]_vars, NEW t \in used
  PROVE  /\ t \in sessions' => t \in sessions
         /\ t \in used' /\ issued'[t] = issued[t] /\ (RefreshValid(t)' => RefreshValid(t))
         /\ pc[t] = "done" => pc'[t] = "done"
<1>1. /\ t \in Requests /\ pc[t] \in {"answer", "done"} /\ sessions \subseteq used
      /\ issued \in [Requests -> 0..MaxTime] /\ clock \in 0..MaxTime
      /\ pc \in [Requests -> {"idle", "account", "issue", "create", "begin", "consume",
                              "commit", "revoke", "answer", "done"}]
  BY DEF ChainsInv, BaseInv, MintedOnce, TypeOK, Tokens
<1>2. /\ t \in sessions' => t \in sessions
      /\ t \in used' /\ issued'[t] = issued[t] /\ clock' \in {clock, clock + 1}
      /\ pc[t] = "done" => pc'[t] = "done"
  <2>1. CASE \E r \in Requests : \E u, next, verdict : Arrive(r, u, next, verdict)
    BY <1>1, <2>1 DEF Arrive, db
  <2>2. CASE \E r \in Requests : \E next, verdict : Works(r, next, verdict)
    <3>1. PICK r, next, verdict : r \in Requests /\ Works(r, next, verdict)
      BY <2>2
    <3>2. r \notin used /\ r # t
      BY <3>1 DEF Works, ChainsInv, BaseInv, MintedOnce
    <3>3. issued'[t] = issued[t] /\ clock' = clock /\ pc'[t] = pc[t]
      BY <1>1, <3>1, <3>2 DEF Works
    <3>4. t \in used' /\ (t \in sessions' => t \in sessions)
      BY <3>1, <3>2 DEF Works, Inserts, Removes, Locks, Computes
    <3>5. QED
      BY <3>3, <3>4
  <2>3. CASE \E r \in Requests : Deliver(r) \/ LoseAnswer(r)
    BY <1>1, <2>3 DEF Deliver, LoseAnswer, Goto, db
  <2>4. CASE Cleanup \/ (\E u \in Users : Disable(u)) \/ Tick \/ UNCHANGED vars
    BY <1>1, <2>4 DEF Cleanup, Disable, Tick, vars, db, client, request
  <2>5. QED
    BY <2>1, <2>2, <2>3, <2>4, StepCases DEF ChainsInv
<1>3. RefreshValid(t)' => RefreshValid(t)
  BY <1>1, <1>2, LifetimesAreOrdered DEF RefreshValid, ExpiresAt
<1>4. QED
  BY <1>2, <1>3

-----------------------------------------------------------------------------
(* Logouts. *)

\* A logout that was acknowledged is never undone.
LEMMA LogoutStep ==
  ASSUME ChainsInv, ChainsInv', LogoutIsFinal, [Next]_vars
  PROVE  LogoutIsFinal'
<1> SUFFICES ASSUME NEW r \in Requests, Kind[r] = "logout", outcome'[r] = "ok",
                    NEW t, t = presented'[r]
             PROVE  t \notin sessions' \/ ~RefreshValid(t)'
  BY DEF LogoutIsFinal, RefreshValid, ExpiresAt
<1>1. BaseInv /\ BaseInv' /\ TypeOK
  BY DEF ChainsInv, BaseInv
<1>2. CASE outcome[r] = "ok" /\ presented'[r] = presented[r]
  <2>1. t \in used
    BY <1>1, <1>2 DEF BaseInv, StagesFit, TokensAreOwned, Given
  <2>2. t \notin sessions \/ ~RefreshValid(t)
    BY <1>2 DEF LogoutIsFinal
  <2>3. QED
    BY <2>1, <2>2, Irreversible
<1>3. ASSUME NEW q \in Requests, NEW u, NEW next, NEW verdict,
             Arrive(q, u, next, verdict), Arrival(q, u, next, verdict)
      PROVE  t \notin sessions' \/ ~RefreshValid(t)'
  <2>1. CASE q = r
    <3>1. t = u /\ verdict = "ok"
      BY <1>1, <1>3, <2>1 DEF Arrive, TypeOK
    <3>2. ~RefreshValid(u)
      BY <1>3, <2>1, <3>1 DEF Arrival
    <3>3. RefreshValid(u)' => RefreshValid(u)
      BY <1>3 DEF Arrive, RefreshValid, ExpiresAt
    <3>4. QED
      BY <3>1, <3>2, <3>3
  <2>2. CASE q # r
    <3>1. outcome'[r] = outcome[r] /\ presented'[r] = presented[r]
      BY <1>1, <1>3, <2>2 DEF Arrive, TypeOK
    <3>2. QED
      BY <1>2, <3>1
  <2>3. QED
    BY <2>1, <2>2
<1>4. ASSUME NEW q \in Requests, NEW next, NEW verdict, Works(q, next, verdict)
      PROVE  t \notin sessions' \/ ~RefreshValid(t)'
  <2>1. CASE q = r
    <3>1. outcome'[r] = verdict /\ presented' = presented /\ verdict = "ok"
      BY <1>1, <1>4, <2>1 DEF Works, TypeOK
    <3>2. pc[r] \notin {"create", "commit"}
      BY <1>1 DEF BaseInv, StagesFit
    <3>3. Removes(r, next, verdict)
      BY <1>4, <2>1, <3>1, <3>2 DEF Works, Inserts, Locks, Computes
    <3>4. QED
      BY <3>1, <3>3 DEF Removes
  <2>2. CASE q # r
    <3>1. outcome'[r] = outcome[r] /\ presented'[r] = presented[r]
      BY <1>1, <1>4, <2>2 DEF Works, TypeOK
    <3>2. QED
      BY <1>2, <3>1
  <2>3. QED
    BY <2>1, <2>2
<1>5. CASE \/ \E q \in Requests : Deliver(q) \/ LoseAnswer(q)
           \/ Cleanup \/ (\E u \in Users : Disable(u)) \/ Tick \/ UNCHANGED vars
  <2>1. outcome'[r] = outcome[r] /\ presented'[r] = presented[r]
    BY <1>5 DEF Deliver, LoseAnswer, Cleanup, Disable, Tick, vars, db, client, request
  <2>2. QED
    BY <1>2, <2>1
<1>6. QED
  BY <1>1, <1>3, <1>4, <1>5, StepCases

\* A token whose logout was acknowledged buys nothing ever after, whatever other
\* requests came with it at the same time.
THEOREM LogoutsAreFinal == Spec => []LogoutIsFinal
<1>1. Init => LogoutIsFinal
  BY DEF Init, LogoutIsFinal
<1>2. QED
  BY <1>1, LogoutStep, ChainsInvariant, PTL DEF Spec

-----------------------------------------------------------------------------
(* Disabled accounts. *)

\* A request that came too late is refused before it reads the clock.
LateAreRefused ==
  \A r \in late :
    /\ User(r) \in disabled /\ r \notin used
    /\ Kind[r] # "logout" => pc[r] \in {"account", "answer", "done"} /\ outcome[r] # "ok"

LEMMA LateStep ==
  ASSUME BaseInv, LateAreRefused, [Next]_vars
  PROVE  LateAreRefused'
<1>1. disabled \subseteq disabled'
  BY StepCases DEF Arrive, Works, Deliver, LoseAnswer, Cleanup, Disable, Tick, vars, db, client, request
<1>2. TypeOK /\ late \subseteq Requests
  BY DEF BaseInv, TypeOK
<1>3. ASSUME NEW q \in Requests, NEW t, NEW next, NEW verdict,
             Arrive(q, t, next, verdict), Arrival(q, t, next, verdict)
      PROVE  LateAreRefused'
  <2>1. \A r \in Requests \ {q} : pc'[r] = pc[r] /\ outcome'[r] = outcome[r]
    BY <1>2, <1>3 DEF Arrive, TypeOK
  <2>2. /\ pc[q] = "idle" /\ pc'[q] = next /\ outcome'[q] = verdict
        /\ used' = used /\ disabled' = disabled
    BY <1>2, <1>3 DEF Arrive, TypeOK, db
  <2>3. late' = IF User(q) \in disabled THEN late \cup {q} ELSE late
    BY <1>3 DEF Arrive
  <2>4. q \notin used /\ (Kind[q] # "logout" => next \in {"account", "answer"} /\ verdict # "ok")
    BY <1>3, <2>2 DEF Arrival, BaseInv, MintedOnce
  <2>5. ASSUME NEW r \in late'
        PROVE  /\ User(r) \in disabled /\ r \notin used
               /\ Kind[r] # "logout" => pc'[r] \in {"account", "answer", "done"} /\ outcome'[r] # "ok"
    <3>1. CASE r = q
      BY <2>2, <2>3, <2>4, <3>1 DEF LateAreRefused
    <3>2. CASE r # q
      BY <1>2, <2>1, <2>3, <3>2 DEF LateAreRefused
    <3>3. QED
      BY <3>1, <3>2
  <2>6. QED
    BY <2>2, <2>5 DEF LateAreRefused, User
<1>4. ASSUME NEW q \in Requests, NEW next, NEW verdict, Works(q, next, verdict)
      PROVE  LateAreRefused'
  <2>1. /\ late' = late /\ disabled' = disabled
        /\ \A r \in Requests \ {q} :
             pc'[r] = pc[r] /\ outcome'[r] = outcome[r] /\ (r \in used' => r \in used)
    BY <1>2, <1>4 DEF Works, Inserts, Removes, Locks, Computes, TypeOK
  <2>2. pc'[q] = next /\ outcome'[q] = verdict
    BY <1>2, <1>4 DEF Works, TypeOK
  <2>3. ASSUME q \in late
        PROVE  /\ q \notin used'
               /\ Kind[q] # "logout" => next = "answer" /\ verdict # "ok"
    <3>1. /\ User(q) \in disabled /\ q \notin used
          /\ Kind[q] # "logout" => pc[q] = "account"
      BY <1>4, <2>3 DEF LateAreRefused, Works
    <3>2. pc[q] \notin {"create", "commit"} /\ (Kind[q] = "logout" => pc[q] # "issue")
      BY <3>1 DEF BaseInv, StagesFit
    <3>3. used' = used
      BY <1>4, <3>2 DEF Works, Inserts, Removes, Locks, Computes
    <3>4. Kind[q] # "logout" => next = "answer" /\ verdict # "ok"
      BY <1>4, <3>1 DEF Works, Inserts, Removes, Locks, Computes
    <3>5. QED
      BY <3>1, <3>3, <3>4
  <2>4. QED
    BY <1>2, <2>1, <2>2, <2>3 DEF LateAreRefused, User
<1>5. ASSUME NEW q \in Requests, Deliver(q) \/ LoseAnswer(q)
      PROVE  LateAreRefused'
  <2>1. /\ pc[q] = "answer" /\ pc' = [pc EXCEPT ![q] = "done"]
        /\ UNCHANGED <<late, disabled, used, outcome>>
    BY <1>5 DEF Deliver, LoseAnswer, Goto, db
  <2>2. QED
    BY <1>2, <2>1 DEF LateAreRefused, User, TypeOK
<1>6. CASE Cleanup \/ (\E u \in Users : Disable(u)) \/ Tick \/ UNCHANGED vars
  <2>1. UNCHANGED <<pc, late, used, outcome>>
    BY <1>6 DEF Cleanup, Disable, Tick, vars, db, client, request
  <2>2. QED
    BY <1>1, <2>1 DEF LateAreRefused, User
<1>7. QED
  BY <1>3, <1>4, <1>5, <1>6, StepCases

\* A token, valid as it may be, opens no session and no call to a request that
\* arrives after its account was disabled.
THEOREM DisabledAreRefused == Spec => []DisabledGetNothing
<1>1. Init => LateAreRefused
  BY DEF Init, LateAreRefused
<1>2. LateAreRefused => DisabledGetNothing
  BY DEF LateAreRefused, DisabledGetNothing
<1>3. QED
  BY <1>1, <1>2, LateStep, BaseInvariant, PTL DEF Spec

-----------------------------------------------------------------------------
(* Who ends a session. *)

\* What OnlyOwnersEndSessions says of one step.
OwnersEnd ==
  \A t \in sessions \ sessions' :
    RefreshValid(t) => \E r \in Requests : presented[r] = t /\ pc'[r] # pc[r]

LEMMA OwnersEndStep ==
  ASSUME BaseInv, [Next]_vars
  PROVE  OwnersEnd
<1>1. ASSUME NEW r \in Requests, NEW next, NEW verdict, Works(r, next, verdict)
      PROVE  OwnersEnd
  <2>1. sessions \ sessions' \subseteq {presented[r]}
    BY <1>1 DEF Works, Inserts, Removes, Locks, Computes
  <2>2. Inserts(r, next, verdict) \/ Removes(r, next, verdict) => pc'[r] # pc[r]
    BY <1>1 DEF Works, Inserts, Removes, BaseInv, TypeOK
  <2>3. ~(Inserts(r, next, verdict) \/ Removes(r, next, verdict)) => sessions' = sessions
    BY <1>1 DEF Works, Locks, Computes
  <2>4. QED
    BY <2>1, <2>2, <2>3 DEF OwnersEnd
<1>2. CASE Cleanup
  <2>1. \A t \in sessions \ sessions' : ExpiresAt(t) <= clock
    BY <1>2 DEF Cleanup, CleanupBatches, ExpiredRows
  <2>2. \A t \in sessions : ExpiresAt(t) \in Nat /\ clock \in Nat
    BY LifetimesAreOrdered DEF BaseInv, TypeOK, ExpiresAt, Tokens
  <2>3. QED
    BY <2>1, <2>2 DEF OwnersEnd, RefreshValid
<1>3. CASE sessions' = sessions
  BY <1>3 DEF OwnersEnd
<1>4. QED
  BY <1>1, <1>2, <1>3, StepCases
     DEF Arrive, Deliver, LoseAnswer, Disable, Tick, vars, db

\* The cleanup takes no session that is alive, and nobody ends the session of
\* another one: only a request that came with its token does.
THEOREM OwnersEndSessions == Spec => OnlyOwnersEndSessions
<1>1. BaseInv /\ [Next]_vars => [OwnersEnd]_vars
  BY OwnersEndStep
<1>2. Spec => [][OwnersEnd]_vars
  BY <1>1, BaseInvariant, PTL DEF Spec
<1>3. QED
  BY <1>2 DEF OnlyOwnersEndSessions, OwnersEnd

-----------------------------------------------------------------------------
(* The cookies of browsers. *)

\* The token is in the table, or it has expired.
Usable(t) == t \in sessions \/ ~RefreshValid(t)

\* A browser waits for the answer to its request.
OneAtATime ==
  \A r, q \in Requests :
    InFlight(r) /\ InFlight(q) /\ Client[r] = Client[q] /\ Client[r] \in Browsers => r = q

\* Nobody can end a session whose token has not been given to anyone yet.
NewIsUsable == \A t \in used : pc[t] = "answer" => Usable(t)

\* A cookie goes bad only under a request whose answer will replace or clear it.
CookiesAreTended ==
  \A c \in Browsers \ doubt :
    jar[c] # NoToken =>
      \/ Usable(jar[c])
      \/ \E q \in Requests : Client[q] = c /\ pc[q] = "answer" /\ Kind[q] \in {"refresh", "logout"}

CookieInv == OneAtATime /\ NewIsUsable /\ CookiesAreTended

\* Who makes a usable token unusable.
LEMMA WhoSpends ==
  ASSUME ChainsInv, ChainsInv', [Next]_vars, NEW t \in used, Usable(t), ~Usable(t)'
  PROVE  \E r \in Requests : \E next, verdict :
           /\ Works(r, next, verdict) /\ next = "answer"
           /\ presented[r] = t /\ Kind[r] \in {"refresh", "logout"}
<1>1. RefreshValid(t) /\ RefreshValid(t)' /\ t \in sessions /\ t \notin sessions'
  BY Irreversible DEF Usable
<1>2. BaseInv /\ t # NoToken
  BY RequestsAreWellFormed DEF ChainsInv, BaseInv, TypeOK, Tokens
<1>3. ~Cleanup
  <2>1. t \in Requests
    BY <1>2 DEF BaseInv, TypeOK, Tokens
  <2>2. ExpiresAt(t) \in Nat /\ clock \in Nat
    BY <1>2, <2>1, LifetimesAreOrdered DEF BaseInv, TypeOK, ExpiresAt
  <2>3. ~(ExpiresAt(t) <= clock)
    BY <1>1, <2>2 DEF RefreshValid
  <2>4. QED
    BY <1>1, <2>3 DEF Cleanup, CleanupBatches, ExpiredRows
<1>4. PICK r, next, verdict : r \in Requests /\ Works(r, next, verdict)
  BY <1>1, <1>2, <1>3, StepCases DEF Arrive, Deliver, LoseAnswer, Disable, Tick, vars, db
<1>5. Inserts(r, next, verdict) \/ Removes(r, next, verdict)
  BY <1>1, <1>4 DEF Works, Locks, Computes
<1>6. presented[r] = t /\ next = "answer"
  BY <1>1, <1>5 DEF Inserts, Removes
<1>7. Kind[r] \in {"refresh", "logout"}
  BY <1>2, <1>4, <1>5, <1>6 DEF Inserts, Removes, BaseInv, StagesFit
<1>8. QED
  BY <1>4, <1>6, <1>7

LEMMA OneAtATimeStep ==
  ASSUME BaseInv, OneAtATime, [Next]_vars
  PROVE  OneAtATime'
<1>1. TypeOK
  BY DEF BaseInv
<1>2. ASSUME NEW q \in Requests, NEW t, NEW next, NEW verdict, Arrive(q, t, next, verdict)
      PROVE  OneAtATime'
  <2>1. \A r \in Requests \ {q} : pc'[r] = pc[r]
    BY <1>1, <1>2 DEF Arrive, TypeOK
  <2>2. Client[q] \in Browsers => \A r \in Requests \ {q} : Client[r] = Client[q] => ~InFlight(r)
    BY <1>2 DEF Arrive, MaySend
  <2>3. QED
    BY <2>1, <2>2 DEF OneAtATime, InFlight
<1>3. ASSUME \A r \in Requests : InFlight(r)' => InFlight(r)
      PROVE  OneAtATime'
  BY <1>3 DEF OneAtATime
<1>4. ASSUME NEW q \in Requests, NEW next, NEW verdict, Works(q, next, verdict)
      PROVE  \A r \in Requests : InFlight(r)' => InFlight(r)
  BY <1>1, <1>4 DEF Works, TypeOK, InFlight
<1>5. ASSUME NEW q \in Requests, Deliver(q) \/ LoseAnswer(q)
      PROVE  \A r \in Requests : InFlight(r)' => InFlight(r)
  BY <1>1, <1>5 DEF Deliver, LoseAnswer, Goto, TypeOK, InFlight
<1>6. CASE Cleanup \/ (\E u \in Users : Disable(u)) \/ Tick \/ UNCHANGED vars
  <2>1. pc' = pc
    BY <1>6 DEF Cleanup, Disable, Tick, vars, request
  <2>2. QED
    BY <1>3, <2>1 DEF InFlight
<1>7. QED
  BY <1>2, <1>3, <1>4, <1>5, <1>6, StepCases

LEMMA NewIsUsableStep ==
  ASSUME ChainsInv, ChainsInv', NewIsUsable, [Next]_vars
  PROVE  NewIsUsable'
<1> SUFFICES ASSUME NEW t \in used', pc'[t] = "answer" PROVE Usable(t)'
  BY DEF NewIsUsable
<1>1. BaseInv
  BY DEF ChainsInv
<1>2. CASE t \in used
  <2>1. pc[t] = "answer"
    BY <1>1, <1>2, Irreversible DEF BaseInv, TypeOK, MintedOnce, Tokens
  <2>2. Usable(t)
    BY <1>2, <2>1 DEF NewIsUsable
  <2>3. \A r \in Requests : presented[r] # t
    BY <1>1, <1>2, <2>1, RequestsAreWellFormed DEF BaseInv, TokensAreOwned, Given, TypeOK, Tokens
  <2>4. QED
    BY <1>2, <2>2, <2>3, WhoSpends
<1>3. CASE t \notin used
  <2>1. used' # used
    BY <1>3
  <2>2. PICK r, next, verdict :
          r \in Requests /\ Works(r, next, verdict) /\ Inserts(r, next, verdict)
    BY <1>1, <2>1, ShrinkCases, StepCases DEF Arrive, db
  <2>3. t = r /\ r \in sessions'
    BY <1>3, <2>2 DEF Inserts
  <2>4. QED
    BY <2>3 DEF Usable
<1>4. QED
  BY <1>2, <1>3

\* A browser whose cookie and doubts a step leaves alone.
LEMMA CookieUntouched ==
  ASSUME ChainsInv, ChainsInv', CookieInv, [Next]_vars, NEW c \in Browsers \ doubt,
         jar'[c] = jar[c], jar[c] # NoToken,
         \A q \in Requests : Client[q] = c /\ pc[q] = "answer" => pc'[q] = "answer"
  PROVE  \/ Usable(jar[c])'
         \/ \E q \in Requests : Client[q] = c /\ pc'[q] = "answer" /\ Kind[q] \in {"refresh", "logout"}
<1>1. PICK t : t = jar[c]
  OBVIOUS
<1>2. BaseInv /\ c \in Clients /\ t \in Given(c)
  BY <1>1, RequestsAreWellFormed DEF ChainsInv, BaseInv, TokensAreOwned
<1>3. t \in used /\ Client[t] = c
  BY <1>2 DEF Given
<1>4. CASE Usable(t) /\ ~Usable(t)'
  <2>1. PICK r, next, verdict :
          /\ r \in Requests /\ Works(r, next, verdict) /\ next = "answer"
          /\ presented[r] = t /\ Kind[r] \in {"refresh", "logout"}
    BY <1>3, <1>4, WhoSpends
  <2>2. Client[r] = c
    BY <1>2, <1>3, <2>1, RequestsAreWellFormed DEF BaseInv, TokensAreOwned, Given, TypeOK, Tokens
  <2>3. pc'[r] = "answer"
    BY <1>2, <2>1 DEF Works, BaseInv, TypeOK
  <2>4. QED
    BY <2>1, <2>2, <2>3
<1>5. CASE Usable(t)'
  BY <1>1, <1>5 DEF Usable, RefreshValid, ExpiresAt
<1>6. CASE ~Usable(t)
  BY <1>1, <1>6 DEF CookieInv, CookiesAreTended
<1>7. QED
  BY <1>4, <1>5, <1>6

LEMMA CookieStep ==
  ASSUME ChainsInv, ChainsInv', CookieInv, [Next]_vars
  PROVE  CookiesAreTended'
<1> SUFFICES ASSUME NEW c \in Browsers \ doubt', jar'[c] # NoToken
             PROVE  \/ Usable(jar[c])'
                    \/ \E q \in Requests : Client[q] = c /\ pc'[q] = "answer" /\ Kind[q] \in {"refresh", "logout"}
  BY DEF CookiesAreTended, Usable, RefreshValid, ExpiresAt
<1>1. BaseInv /\ TypeOK /\ c \in Clients
  BY RequestsAreWellFormed DEF ChainsInv, BaseInv
<1>2. ASSUME jar' = jar, doubt' = doubt,
             \A q \in Requests : pc[q] = "answer" => pc'[q] = "answer"
      PROVE  \/ Usable(jar[c])'
             \/ \E q \in Requests : Client[q] = c /\ pc'[q] = "answer" /\ Kind[q] \in {"refresh", "logout"}
  BY <1>2, CookieUntouched
<1>3. ASSUME NEW q \in Requests, NEW t, NEW next, NEW verdict, Arrive(q, t, next, verdict)
      PROVE  jar' = jar /\ doubt' = doubt /\ \A r \in Requests : pc[r] = "answer" => pc'[r] = "answer"
  BY <1>1, <1>3 DEF Arrive, client, TypeOK
<1>4. ASSUME NEW q \in Requests, NEW next, NEW verdict, Works(q, next, verdict)
      PROVE  jar' = jar /\ doubt' = doubt /\ \A r \in Requests : pc[r] = "answer" => pc'[r] = "answer"
  BY <1>1, <1>4 DEF Works, TypeOK
<1>5. ASSUME Cleanup \/ (\E u \in Users : Disable(u)) \/ Tick \/ UNCHANGED vars
      PROVE  jar' = jar /\ doubt' = doubt /\ pc' = pc
  BY <1>5 DEF Cleanup, Disable, Tick, vars, client, request
<1>6. ASSUME NEW q \in Requests, Deliver(q) \/ LoseAnswer(q)
      PROVE  \/ Usable(jar[c])'
             \/ \E z \in Requests : Client[z] = c /\ pc'[z] = "answer" /\ Kind[z] \in {"refresh", "logout"}
  <2>1. /\ pc[q] = "answer" /\ pc' = [pc EXCEPT ![q] = "done"]
        /\ UNCHANGED <<clock, sessions, issued>>
    BY <1>6 DEF Deliver, LoseAnswer, Goto, db
  <2>2. \A z \in Requests \ {q} : pc'[z] = pc[z]
    BY <1>1, <2>1 DEF TypeOK
  <2>3. CASE c # Client[q]
    <3>1. jar'[c] = jar[c]
      BY <1>1, <1>6, <2>3 DEF Deliver, LoseAnswer, TypeOK
    <3>2. c \notin doubt
      BY <1>6, <2>3, DoubtCases DEF LoseAnswer
    <3>3. QED
      BY <2>2, <2>3, <3>1, <3>2, CookieUntouched
  <2>4. CASE c = Client[q]
    <3>1. Deliver(q)
      BY <1>6, <2>4 DEF LoseAnswer
    <3>2. jar'[c] = CookieAfter(q)
      BY <1>1, <2>4, <3>1 DEF Deliver, TypeOK
    <3>3. CASE Kind[q] \in {"login", "refresh"} /\ outcome[q] = "ok" /\ CookieAfter(q) = q
      <4>1. q \in used /\ Usable(q)
        BY <1>1, <2>1, <3>3 DEF BaseInv, MintedOnce, Tokens, CookieInv, NewIsUsable
      <4>2. Usable(jar[c])'
        BY <2>1, <3>2, <3>3, <4>1 DEF Usable, RefreshValid, ExpiresAt
      <4>3. QED
        BY <4>2
    <3>4. CASE /\ Kind[q] \notin {"login", "refresh"} \/ outcome[q] # "ok"
               /\ Kind[q] # "refresh" /\ (Kind[q] = "logout" => outcome[q] # "ok")
               /\ CookieAfter(q) = jar[Client[q]]
      <4>1. outcome[q] # "none" /\ (Kind[q] = "logout" => outcome[q] # "refused")
        BY <1>1, <2>1 DEF BaseInv, StagesFit
      <4>2. Kind[q] \in {"login", "call"}
        <5>1. Kind[q] # "logout"
          BY <1>1, <2>4, <3>1, <3>4, <4>1, DoubtCases DEF TypeOK
        <5>2. QED
          BY <3>4, <5>1, RequestsAreWellFormed
      <4>3. c \notin doubt
        BY <3>1, <3>4, <4>2, DoubtCases
      <4>4. \A z \in Requests : Client[z] = c /\ pc[z] = "answer" => z = q
        BY <2>1, <2>4 DEF CookieInv, OneAtATime, InFlight
      <4>5. Usable(jar[c])
        BY <2>4, <3>2, <3>4, <4>2, <4>3, <4>4 DEF CookieInv, CookiesAreTended
      <4>6. Usable(jar[c])'
        BY <2>1, <2>4, <3>2, <3>4, <4>5 DEF Usable, RefreshValid, ExpiresAt
      <4>7. QED
        BY <4>6
    <3>5. QED
      BY <3>2, <3>3, <3>4, CookieCases
  <2>5. QED
    BY <2>3, <2>4
<1>7. QED
  BY <1>1, <1>2, <1>3, <1>4, <1>5, <1>6, StepCases

\* A browser that has seen every answer holds a cookie that works until it
\* expires: no race of its refreshes, logouts and logins with the cleanup leaves
\* it with a token that was consumed.
THEOREM CookiesAreUsable == Spec => []CookieIsUsable
<1>1. Init => CookieInv
  BY RequestsAreWellFormed
     DEF Init, CookieInv, OneAtATime, NewIsUsable, CookiesAreTended, InFlight
<1>2. ChainsInv /\ ChainsInv' /\ CookieInv /\ [Next]_vars => CookieInv'
  BY OneAtATimeStep, NewIsUsableStep, CookieStep DEF CookieInv, ChainsInv
<1>3. CookieInv => CookieIsUsable
  BY DEF CookieInv, CookiesAreTended, CookieIsUsable, Usable, InFlight
<1>4. QED
  BY <1>1, <1>2, <1>3, ChainsInvariant, PTL DEF Spec
=============================================================================
