----------------------------- MODULE RateLimiter -----------------------------
(***************************************************************************)
(* The token buckets of internal/httpapi/middleware/middleware.go.  A      *)
(* request reads the clock before it takes the mutex, so buckets may be    *)
(* updated with readings that are out of order.                            *)
(*                                                                         *)
(* Tokens are counted in fractions: a request costs Cost of them and a     *)
(* bucket gains Rate per tick, so that Rate / Cost is the limit.  Rounding *)
(* of float64 is left out.                                                 *)
(***************************************************************************)
EXTENDS Integers, FiniteSets, FiniteSetsExt

CONSTANTS
  Requests, Keys, Key,  \* Key[r]: the client address of r
  Rate, Cost, Burst,
  TTL,                  \* ttl: idle visitors are kept for so long
  SweepInterval,        \* a minute
  MaxVisitors,
  MaxWait,              \* bound of the model: the longest wait for the mutex
  MaxTime,              \* bound of the model: the clock stops here
  NoVisitor

ASSUME LimiterIsWellFormed ==
  /\ Key \in [Requests -> Keys]
  /\ {Rate, Cost, Burst, TTL, SweepInterval, MaxVisitors} \subseteq Nat \ {0}
  /\ {MaxWait, MaxTime} \subseteq Nat
  /\ NoVisitor \notin [tokens : Int, last : Nat]

\* A bucket refills while its visitor is idle, so that evicting it changes
\* nothing, also for the last request before and the first one after, which
\* may both be late: 10 minutes against 2 seconds by default, and 10 for the logins.
ASSUME IdleBucketsAreFull == Rate * (TTL - 2 * MaxWait) >= Cost * Burst

VARIABLES
  clock,
  visitors,   \* visitors[k]: tokens and last, or NoVisitor
  lastSweep,
  now,        \* now[r]: the time that r has read
  pc          \* pc[r]: "new", "timed", "admitted", "refused" or "turnedAway"

vars == <<clock, visitors, lastSweep, now, pc>>

Init ==
  /\ clock = 0
  /\ visitors = [k \in Keys |-> NoVisitor]
  /\ lastSweep = 0
  /\ now = [r \in Requests |-> 0]
  /\ pc = [r \in Requests |-> "new"]

-----------------------------------------------------------------------------

SweepIsDue(t) == t - lastSweep > SweepInterval

\* Broken variant: only full buckets are dropped, but nothing refills an idle one.
SweptWhenFull(t) ==
  [k \in Keys |->
     IF SweepIsDue(t) /\ visitors[k] # NoVisitor /\ visitors[k].tokens = Burst * Cost
       THEN NoVisitor ELSE visitors[k]]
\* The table after the sweep, if one is due.
Swept(t) ==
  [k \in Keys |->
     IF SweepIsDue(t) /\ visitors[k] # NoVisitor /\ t - visitors[k].last > TTL
       THEN NoVisitor ELSE visitors[k]]

Known(table) == {k \in Keys : table[k] # NoVisitor}

\* Broken variant: the bucket has no capacity.
RefilledUncapped(v, t) == v.tokens + (t - v.last) * Rate
\* Refill proportionally to elapsed time, capped at the burst capacity.
Refilled(v, t) == Min({v.tokens + (t - v.last) * Rate, Burst * Cost})

ReadClock(r) ==
  /\ pc[r] = "new"
  /\ now' = [now EXCEPT ![r] = clock]
  /\ pc' = [pc EXCEPT ![r] = "timed"]
  /\ UNCHANGED <<clock, visitors, lastSweep>>

Visit(r, table, tokens, verdict) ==
  /\ visitors' = [table EXCEPT ![Key[r]] = [tokens |-> tokens, last |-> now[r]]]
  /\ pc' = [pc EXCEPT ![r] = verdict]

\* The critical section of allow.
Allow(r) ==
  LET table == Swept(now[r])
      visitor == table[Key[r]]
      tokens == Refilled(visitor, now[r])
  IN
  /\ pc[r] = "timed"
  /\ lastSweep' = IF SweepIsDue(now[r]) THEN now[r] ELSE lastSweep
  /\ \/ /\ visitor = NoVisitor
        /\ Cardinality(Known(table)) >= MaxVisitors
        /\ visitors' = table
        /\ pc' = [pc EXCEPT ![r] = "turnedAway"]
     \/ /\ visitor = NoVisitor
        /\ Cardinality(Known(table)) < MaxVisitors
        /\ Visit(r, table, (Burst - 1) * Cost, "admitted")
     \/ /\ visitor # NoVisitor
        /\ IF tokens < Cost THEN Visit(r, table, tokens, "refused")
                            ELSE Visit(r, table, tokens - Cost, "admitted")
  /\ UNCHANGED <<clock, now>>

\* Time passes; nobody waits for the mutex longer than MaxWait.
Tick ==
  /\ clock < MaxTime
  /\ \A r \in Requests : pc[r] = "timed" => clock - now[r] < MaxWait
  /\ clock' = clock + 1
  /\ UNCHANGED <<visitors, lastSweep, now, pc>>

Next ==
  \/ \E r \in Requests : ReadClock(r) \/ Allow(r)
  \/ Tick

Spec == Init /\ [][Next]_vars

-----------------------------------------------------------------------------

TypeOK ==
  /\ clock \in 0..MaxTime /\ lastSweep \in 0..clock
  /\ \A k \in Keys :
       \/ visitors[k] = NoVisitor
       \/ /\ visitors[k].tokens \in Int /\ visitors[k].tokens <= Burst * Cost
          /\ visitors[k].last \in 0..clock
  /\ Cardinality(Known(visitors)) <= MaxVisitors
  /\ now \in [Requests -> 0..MaxTime] /\ \A r \in Requests : now[r] <= clock
  /\ pc \in [Requests -> {"new", "timed", "admitted", "refused", "turnedAway"}]

Admitted(k) == {r \in Requests : pc[r] = "admitted" /\ Key[r] = k}

\* In no period is a visitor admitted more often than burst plus rate times its
\* length, although readings arrive out of order and idle buckets are dropped
\* (RateLimit, middleware.go:83-88).  Periods that begin and end with an admission
\* are the ones that matter.
AllowanceHolds ==
  \A k \in Keys : \A first, last \in Admitted(k) :
    now[first] <= now[last] =>
      Cost * Cardinality({r \in Admitted(k) : now[r] \in now[first]..now[last]})
        <= Cost * Burst + Rate * (now[last] - now[first])

\* A new visitor is turned away only if everybody in the table has been there
\* lately, served or refused: idle entries make room after their lifetime and a sweep
\* interval (docs/production.md:26, middleware.go:142-145).
TurnedAwayByTheBusy ==
  [][\A r \in Requests :
       pc[r] = "timed" /\ pc'[r] = "turnedAway" =>
         \A k \in Known(visitors') : \E q \in Requests :
           /\ Key[q] = k /\ pc[q] \in {"admitted", "refused"}
           /\ now[r] - now[q] <= TTL + SweepInterval]_vars
=============================================================================
