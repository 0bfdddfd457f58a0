--------------------------- MODULE RefreshSessions ---------------------------
(***************************************************************************)
(* Login, Refresh, Logout and authenticated calls, each a goroutine that   *)
(* executes the statements of AuthService (internal/service/service.go),   *)
(* RotateSession and its siblings (internal/repository/session.go), and    *)
(* the cookie jar of its client (internal/httpapi/handlers_auth.go).       *)
(*                                                                         *)
(* A request mints at most one refresh token, so a token is named by the   *)
(* request that minted it; `sessions` is the set of tokens with a row.     *)
(* Signature, issuer and audience of a token are left out, its type and    *)
(* its lifetime are not.                                                   *)
(***************************************************************************)
EXTENDS Naturals, FiniteSets

CONSTANTS
  Requests,        \* the requests of the instance
  Kind,            \* Kind[r]: "login", "refresh", "logout" or "call"
  Clients, Client, \* Client[r]: who sends r
  Browsers,        \* clients that send their cookie, one request at a time
  Users, Account,  \* Account[c]: whose credentials c has
  AccessTTL, RefreshTTL,
  CleanupLimit,    \* rows per pass of the cleanup, 1000 in the code
  MaxTime,         \* bound of the model: the clock stops here
  NoToken, NotStarted, Ended

ASSUME RequestsAreWellFormed ==
  /\ Kind \in [Requests -> {"login", "refresh", "logout", "call"}]
  /\ Client \in [Requests -> Clients]
  /\ Browsers \subseteq Clients
  /\ Account \in [Clients -> Users]
  /\ NoToken \notin Requests

\* config.Validate.
ASSUME LifetimesAreOrdered ==
  /\ AccessTTL \in Nat \ {0} /\ RefreshTTL \in Nat /\ AccessTTL < RefreshTTL
  /\ CleanupLimit \in Nat \ {0}
  /\ MaxTime \in Nat

VARIABLES
  clock,
  disabled,    \* accounts whose status is not "active"
  sessions,    \* the table refresh_sessions
  pc,          \* pc[r]: the next statement of r
  presented,   \* presented[r]: the token that r came with
  issued,      \* issued[r]: the time at which r minted its tokens
  stamp,       \* stamp[r]: the time that RotateSession compares with
  outcome,     \* outcome[r]: what the service answers
  jar,         \* jar[c]: the refresh cookie
  received,    \* received[c]: the tokens that c has been given
  doubt,       \* clients that missed an answer, or whose logout failed
  late,        \* history: requests that arrived after their account was disabled
  chain,       \* history: chain[r] is the login that r descends from
  used         \* history: tokens that have had a row

db == <<disabled, sessions, used>>
client == <<jar, received, doubt>>
request == <<pc, presented, issued, stamp, outcome, late, chain>>
vars == <<clock, db, client, request>>

Tokens == {r \in Requests : Kind[r] \in {"login", "refresh"}}
Logins == {r \in Requests : Kind[r] = "login"}

Init ==
  /\ clock = 0
  /\ disabled = {} /\ sessions = {} /\ used = {}
  /\ pc = [r \in Requests |-> "idle"]
  /\ presented = [r \in Requests |-> NoToken]
  /\ issued = [r \in Requests |-> 0]
  /\ stamp = [r \in Requests |-> 0]
  /\ outcome = [r \in Requests |-> "none"]
  /\ jar = [c \in Clients |-> NoToken]
  /\ received = [c \in Clients |-> {}]
  /\ doubt = {}
  /\ late = {}
  /\ chain = [r \in Requests |-> r]

-----------------------------------------------------------------------------

ExpiresAt(t) == issued[t] + RefreshTTL
\* auth.Verify accepts the token at this time: exp lies in the future.
RefreshValid(t) == clock < ExpiresAt(t)
AccessValid(t) == clock < issued[t] + AccessTTL

InFlight(r) == pc[r] \notin {"idle", "done"}

\* Broken variant: a reader that does not wait for the row lock.
LockIgnored(t) == FALSE
\* The row lock that DELETE takes in RotateSession, held until the commit.
Locked(t) == \E r \in Requests : pc[r] = "commit" /\ presented[r] = t

User(r) == Account[Client[r]]

\* Broken variant: the status is not looked at.
AnyAccount(r) == TRUE
\* user.Status = "active".
AccountActive(r) == User(r) \notin disabled

Goto(r, label) == pc' = [pc EXCEPT ![r] = label]
Answer(r, verdict) ==
  /\ pc' = [pc EXCEPT ![r] = "answer"]
  /\ outcome' = [outcome EXCEPT ![r] = verdict]

\* A browser sends its cookie and waits for the answer; another client may
\* present any token it has been given, at any time.
MaySend(r) ==
  Client[r] \in Browsers =>
    \A q \in Requests \ {r} : Client[q] = Client[r] => ~InFlight(q)
MayPresent(r, t) ==
  IF Client[r] \in Browsers THEN t = jar[Client[r]] /\ t # NoToken
                            ELSE t \in received[Client[r]]

Arrive(r, t, next, verdict) ==
  /\ pc[r] = "idle" /\ MaySend(r)
  /\ presented' = [presented EXCEPT ![r] = t]
  /\ late' = IF User(r) \in disabled THEN late \cup {r} ELSE late
  /\ chain' = [chain EXCEPT ![r] = IF t = NoToken THEN r ELSE chain[t]]
  /\ pc' = [pc EXCEPT ![r] = next]
  /\ outcome' = [outcome EXCEPT ![r] = verdict]
  /\ UNCHANGED <<clock, db, client, issued, stamp>>

ArriveLogin(r) == Kind[r] = "login" /\ Arrive(r, NoToken, "account", "none")

\* Refresh verifies the token before anything else.
ArriveRefresh(r) ==
  /\ Kind[r] = "refresh"
  /\ \E t \in Tokens :
       /\ MayPresent(r, t)
       /\ IF RefreshValid(t) THEN Arrive(r, t, "account", "none")
                             ELSE Arrive(r, t, "answer", "refused")

\* Logout of a token that does not verify succeeds without a statement.
ArriveLogout(r) ==
  /\ Kind[r] = "logout"
  /\ \E t \in Tokens :
       /\ MayPresent(r, t)
       /\ IF RefreshValid(t) THEN Arrive(r, t, "revoke", "none")
                             ELSE Arrive(r, t, "answer", "ok")

\* An API call with the access token that came with refresh token t.
ArriveCall(r) ==
  /\ Kind[r] = "call"
  /\ \E t \in received[Client[r]] :
       IF AccessValid(t) THEN Arrive(r, t, "account", "none")
                         ELSE Arrive(r, t, "answer", "refused")

\* FindByUsername or FindByID, and the test of the status.
ReadAccount(r) ==
  /\ pc[r] = "account"
  /\ CASE ~AccountActive(r) -> Answer(r, "refused")
       [] AccountActive(r) /\ Kind[r] = "call" -> Answer(r, "ok")
       [] OTHER -> Goto(r, "issue") /\ UNCHANGED outcome
  /\ UNCHANGED <<clock, db, client, presented, issued, stamp, late, chain>>

\* Issue reads the clock; both tokens of the pair live from here.
Issue(r) ==
  /\ pc[r] = "issue"
  /\ issued' = [issued EXCEPT ![r] = clock]
  /\ Goto(r, IF Kind[r] = "login" THEN "create" ELSE "begin")
  /\ UNCHANGED <<clock, db, client, presented, stamp, outcome, late, chain>>

\* A write that commits is answered with success, or with an error when its
\* acknowledgement is lost.
Committed(r) == Answer(r, "ok") \/ Answer(r, "failed")

\* CreateSession.
CreateSession(r) ==
  /\ pc[r] = "create"
  /\ sessions' = sessions \cup {r}
  /\ used' = used \cup {r}
  /\ Committed(r)
  /\ UNCHANGED <<clock, disabled, client, presented, issued, stamp, late, chain>>

\* RotateSession: the transaction begins and reads the clock.
BeginRotation(r) ==
  /\ pc[r] = "begin"
  /\ stamp' = [stamp EXCEPT ![r] = clock]
  /\ Goto(r, "consume")
  /\ UNCHANGED <<clock, db, client, presented, issued, outcome, late, chain>>

\* DELETE ... WHERE token_hash = ? AND user_id = ? AND expires_at > ?: the
\* user is the subject of the token, so the row is that user's.
Consumable(r) ==
  /\ presented[r] \in sessions
  /\ ExpiresAt(presented[r]) > stamp[r]

\* DELETE waits for the row lock and then looks at the committed row.
ConsumeToken(r) ==
  /\ pc[r] = "consume"
  /\ ~Locked(presented[r])
  /\ IF Consumable(r) THEN Goto(r, "commit") /\ UNCHANGED outcome
                      ELSE Answer(r, "refused")
  /\ UNCHANGED <<clock, db, client, presented, issued, stamp, late, chain>>

\* The replacement is inserted and both writes are committed.
CommitRotation(r) ==
  /\ pc[r] = "commit"
  /\ sessions' = (sessions \ {presented[r]}) \cup {r}
  /\ used' = used \cup {r}
  /\ Committed(r)
  /\ UNCHANGED <<clock, disabled, client, presented, issued, stamp, late, chain>>

\* Broken variant: rows that a refresh has locked are skipped.
UnlockedRows(r) == {t \in {presented[r]} : ~Locked(t)}
\* WHERE token_hash = ?.
RowsToRevoke(r) == {presented[r]}

\* RevokeSession waits for the lock of a refresh of the same token.
Revoke(r) ==
  /\ pc[r] = "revoke"
  /\ \A t \in RowsToRevoke(r) : ~Locked(t)
  /\ sessions' = sessions \ RowsToRevoke(r)
  /\ Committed(r)
  /\ UNCHANGED <<clock, disabled, used, client, presented, issued, stamp, late, chain>>

\* Deadline, lost connection or database error: nothing is committed.
Fail(r) ==
  /\ InFlight(r) /\ pc[r] # "answer"
  /\ Answer(r, "failed")
  /\ UNCHANGED <<clock, db, client, presented, issued, stamp, late, chain>>

\* Broken variant: a refused refresh leaves the cookie alone.
CookieUnlessRefused(r) ==
  CASE Kind[r] \in {"login", "refresh"} /\ outcome[r] = "ok" -> r
    [] Kind[r] = "logout" /\ outcome[r] = "ok" -> NoToken
    [] OTHER -> jar[Client[r]]
\* The cookie after the answer: set by login and refresh, cleared by a refresh
\* that fails for any reason and by a logout that succeeds.
CookieAfter(r) ==
  CASE Kind[r] \in {"login", "refresh"} /\ outcome[r] = "ok" -> r
    [] Kind[r] = "refresh" /\ outcome[r] # "ok" -> NoToken
    [] Kind[r] = "logout" /\ outcome[r] = "ok" -> NoToken
    [] OTHER -> jar[Client[r]]

Deliver(r) ==
  /\ pc[r] = "answer"
  /\ Goto(r, "done")
  /\ jar' = [jar EXCEPT ![Client[r]] = CookieAfter(r)]
  /\ received' = [received EXCEPT ![Client[r]] =
                    IF r \in Tokens /\ outcome[r] = "ok" THEN @ \cup {r} ELSE @]
  /\ doubt' = CASE Kind[r] = "login" /\ outcome[r] = "ok" -> doubt \ {Client[r]}
                [] Kind[r] = "logout" /\ outcome[r] = "failed" -> doubt \cup {Client[r]}
                [] OTHER -> doubt
  /\ UNCHANGED <<clock, db, presented, issued, stamp, outcome, late, chain>>

\* The connection is gone: the client sees no answer and keeps its cookie.
LoseAnswer(r) ==
  /\ pc[r] = "answer"
  /\ Goto(r, "done")
  /\ doubt' = doubt \cup {Client[r]}
  /\ UNCHANGED <<clock, db, jar, received, presented, issued, stamp, outcome, late, chain>>

-----------------------------------------------------------------------------

\* Broken variant: sessions that are about to expire are taken along.
ExpiringRows == {t \in sessions : ExpiresAt(t) <= clock + 1}
\* WHERE expires_at <= now.
ExpiredRows == {t \in sessions : ExpiresAt(t) <= clock}

\* ORDER BY expires_at LIMIT: rows of the same age in any order.
CleanupBatches ==
  {S \in SUBSET ExpiredRows :
     /\ \/ Cardinality(S) = CleanupLimit
        \/ Cardinality(S) < CleanupLimit /\ S = ExpiredRows
     /\ \A t \in S, u \in ExpiredRows \ S : ExpiresAt(t) <= ExpiresAt(u)}

\* CleanupSessions: one statement, which waits for the rows it deletes.
Cleanup ==
  /\ \E S \in CleanupBatches \ {{}} :
       /\ \A t \in S : ~Locked(t)
       /\ sessions' = sessions \ S
  /\ UNCHANGED <<clock, disabled, used, client, request>>

\* An operator disables an account in the database: no code of the service does.
Disable(u) ==
  /\ u \notin disabled
  /\ disabled' = disabled \cup {u}
  /\ UNCHANGED <<clock, sessions, used, client, request>>

Tick ==
  /\ clock < MaxTime
  /\ clock' = clock + 1
  /\ UNCHANGED <<db, client, request>>

Proceed(r) ==
  \/ ReadAccount(r) \/ Issue(r)
  \/ CreateSession(r)
  \/ BeginRotation(r) \/ ConsumeToken(r) \/ CommitRotation(r)
  \/ Revoke(r)
  \/ Deliver(r)

Next ==
  \/ \E r \in Requests :
       \/ ArriveLogin(r) \/ ArriveRefresh(r) \/ ArriveLogout(r) \/ ArriveCall(r)
       \/ Proceed(r)
       \/ Fail(r) \/ LoseAnswer(r)
  \/ Cleanup
  \/ \E u \in Users : Disable(u)
  \/ Tick

Spec == Init /\ [][Next]_vars

-----------------------------------------------------------------------------

TypeOK ==
  /\ clock \in 0..MaxTime
  /\ disabled \subseteq Users
  /\ sessions \subseteq used /\ used \subseteq Tokens
  /\ pc \in [Requests -> {"idle", "account", "issue", "create", "begin", "consume",
                          "commit", "revoke", "answer", "done"}]
  /\ presented \in [Requests -> Tokens \cup {NoToken}]
  /\ issued \in [Requests -> 0..MaxTime]
  /\ stamp \in [Requests -> 0..MaxTime]
  /\ outcome \in [Requests -> {"none", "ok", "refused", "failed"}]
  /\ jar \in [Clients -> Tokens \cup {NoToken}]
  /\ received \in [Clients -> SUBSET Tokens]
  /\ doubt \subseteq Clients
  /\ late \subseteq Requests
  /\ chain \in [Requests -> Requests]

\* The token of the chain of login l, for the abstract specification.  "forked"
\* is not a state of SessionChain.
LiveTokens(l) == {t \in sessions : chain[t] = l}
CurrentToken(l) ==
  CASE l \notin used -> NotStarted
    [] l \in used /\ LiveTokens(l) = {} -> Ended
    [] Cardinality(LiveTokens(l)) = 1 -> CHOOSE t \in LiveTokens(l) : TRUE
    [] OTHER -> "forked"

Chains == INSTANCE SessionChain WITH current <- [l \in Logins |-> CurrentToken(l)]

\* The statements of concurrent refreshes, logouts and cleanups implement the
\* chains of SessionChain: concurrent refreshes have one winner, a consumed or
\* revoked token buys nothing, and a chain that has ended stays ended
\* (RotateSession, session.go:20).
KeepsChains == Chains!Spec

\* A token whose logout was acknowledged is gone or has expired, also when a
\* refresh with the same token was under way and failed (Logout, service.go:225).
LogoutIsFinal ==
  \A r \in Requests :
    Kind[r] = "logout" /\ outcome[r] = "ok" =>
      presented[r] \notin sessions \/ ~RefreshValid(presented[r])

\* A browser that serializes its calls and has seen every answer holds no dead
\* cookie: its session is in the table or has expired (handlers_auth.go:42-94).
CookieIsUsable ==
  \A c \in Browsers \ doubt :
    jar[c] # NoToken /\ (\A r \in Requests : Client[r] = c => ~InFlight(r)) =>
      jar[c] \in sessions \/ ~RefreshValid(jar[c])

\* A request that arrives after its account was disabled gets nothing, although
\* its tokens are still valid: neither a session nor an authorised call
\* (VerifyAccessToken, service.go:200, and the status tests of Login and Refresh).
DisabledGetNothing ==
  \A r \in late :
    /\ r \notin used
    /\ Kind[r] # "logout" => outcome[r] # "ok"

\* A session that has not expired is only removed by a request that presented
\* its token: neither the cleanup nor another client's request ends it.
OnlyOwnersEndSessions ==
  [][\A t \in sessions \ sessions' :
       RefreshValid(t) => \E r \in Requests : presented[r] = t /\ pc'[r] # pc[r]]_vars
=============================================================================
