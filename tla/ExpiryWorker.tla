----------------------------- MODULE ExpiryWorker -----------------------------
(***************************************************************************)
(* The background workers that expire overdue orders: StartWorkers of      *)
(* internal/httpapi/router.go, ExpireBatch of                              *)
(* internal/service/commerce_service.go and LockNextExpiredOrder of        *)
(* internal/repository/commerce.go.  Every replica runs one worker, whose  *)
(* pass removes expired sessions before it expires orders, under one       *)
(* deadline.  A process may end in the middle of a pass; its replacement   *)
(* goes on with what the tables say.                                       *)
(*                                                                         *)
(* Commerce lets an overdue order be expired at any time; here is what the *)
(* workers do for it.  An order is malformed when its release fails on     *)
(* every attempt: its reservation or coupon usage is not in the tables as  *)
(* it should be.                                                           *)
(***************************************************************************)
EXTENDS Naturals, FiniteSets, Sequences, SequencesExt

CONSTANTS
  Workers, Orders, NoOne,
  Malformed,    \* the orders that can never be released
  ExpiresAt,    \* ExpiresAt[o]: the expires_at column
  Id,           \* Id[o]: the primary key
  BatchSize,    \* OrderExpirationBatchSize
  Sessions,     \* refresh sessions that users begin and abandon, again and again
  CleanupLimit, \* rows that one pass deletes, 1000 in the code
  MaxTime,      \* bound of the model: the clock stops here
  MaxFaults     \* bound of the model: lost transactions, deadlines and crashes

ASSUME OrdersAreWellFormed ==
  /\ Malformed \subseteq Orders
  /\ ExpiresAt \in [Orders -> 0..MaxTime]
  /\ Id \in [Orders -> Nat]
  /\ \A o1, o2 \in Orders : Id[o1] = Id[o2] => o1 = o2
  /\ {BatchSize, CleanupLimit} \subseteq Nat \ {0}
  /\ NoOne \notin Workers \cup Orders

VARIABLES
  clock,
  pending,   \* the orders in PENDING_PAYMENT
  expired,   \* the sessions that have expired and still have a row, oldest first
  phase,     \* phase[w]: "select", "cleanup", "expire", or "down"
  attempts,  \* attempts[w]: iterations left of the pass of worker w
  failed,    \* failed[w]: failedIDs of the pass
  claimed,   \* claimed[w]: the order that w has locked
  faults     \* faults so far

vars == <<clock, pending, expired, phase, attempts, failed, claimed, faults>>
tables == <<pending, expired>>

Init ==
  /\ clock = 0
  /\ pending = Orders
  /\ expired = <<>>
  /\ phase = [w \in Workers |-> "select"]
  /\ attempts = [w \in Workers |-> 0]
  /\ failed = [w \in Workers |-> {}]
  /\ claimed = [w \in Workers |-> NoOne]
  /\ faults = 0

-----------------------------------------------------------------------------

Overdue == {o \in pending : ExpiresAt[o] <= clock}

Locked == {claimed[w] : w \in Workers}

\* Broken variant: without SKIP LOCKED, and without waiting.
CandidatesLockedToo(w) == Overdue \ failed[w]
\* The rows of the query of LockNextExpiredOrder: WHERE ... NOT IN failedIDs,
\* FOR UPDATE SKIP LOCKED.
Candidates(w) == (Overdue \ failed[w]) \ Locked

\* ORDER BY expires_at, id.
ComesFirst(o, S) ==
  /\ o \in S
  /\ \A z \in S \ {o} :
       ExpiresAt[o] < ExpiresAt[z] \/ (ExpiresAt[o] = ExpiresAt[z] /\ Id[o] < Id[z])

\* The ticker fires.
StartPass(w) ==
  /\ phase[w] = "select"
  /\ phase' = [phase EXCEPT ![w] = "cleanup"]
  /\ UNCHANGED <<clock, tables, attempts, failed, claimed, faults>>

Batch == IF Len(expired) < CleanupLimit THEN Len(expired) ELSE CleanupLimit
\* Broken variant: ORDER BY expires_at DESC.
NewestKept == SubSeq(expired, 1, Len(expired) - Batch)
\* What DELETE ... ORDER BY expires_at LIMIT leaves.
OldestRemoved == SubSeq(expired, Batch + 1, Len(expired))

\* CleanupSessions; its outcome does not keep ExpireBatch from starting.
CleanUp(w) ==
  /\ phase[w] = "cleanup"
  /\ expired' = OldestRemoved
  /\ phase' = [phase EXCEPT ![w] = "expire"]
  /\ attempts' = [attempts EXCEPT ![w] = BatchSize]
  /\ failed' = [failed EXCEPT ![w] = {}]
  /\ UNCHANGED <<clock, pending, claimed, faults>>

\* The pass is over, or the process is.
Leave(w, next) ==
  /\ phase' = [phase EXCEPT ![w] = next]
  /\ attempts' = [attempts EXCEPT ![w] = 0]
  /\ claimed' = [claimed EXCEPT ![w] = NoOne]

\* The cleanup takes until the deadline, so that the first transaction of
\* ExpireBatch fails without having found an order.
CleanUpTooLong(w) ==
  /\ phase[w] = "cleanup"
  /\ Leave(w, "select")
  /\ UNCHANGED <<clock, tables, failed, faults>>

MayClaim(w) == phase[w] = "expire" /\ attempts[w] > 0 /\ claimed[w] = NoOne

Claim(w) ==
  /\ MayClaim(w)
  /\ \E o \in Orders :
       /\ ComesFirst(o, Candidates(w))
       /\ claimed' = [claimed EXCEPT ![w] = o]
  /\ UNCHANGED <<clock, tables, phase, attempts, failed, faults>>

\* No order is found, or the batch is complete.
EndPass(w) ==
  /\ phase[w] = "expire"
  /\ attempts[w] = 0 \/ (MayClaim(w) /\ Candidates(w) = {})
  /\ Leave(w, "select")
  /\ UNCHANGED <<clock, tables, failed, faults>>

\* The transition, the releases and the commit, which end the iteration.
ExpireClaimed(w) ==
  /\ claimed[w] \in Orders \ Malformed
  /\ pending' = pending \ {claimed[w]}
  /\ claimed' = [claimed EXCEPT ![w] = NoOne]
  /\ attempts' = [attempts EXCEPT ![w] = @ - 1]
  /\ UNCHANGED <<clock, expired, phase, failed, faults>>

\* Broken variant: the failure is forgotten, so the next iteration claims the
\* same order.
RetryClaimed(w) ==
  /\ claimed' = [claimed EXCEPT ![w] = NoOne]
  /\ attempts' = [attempts EXCEPT ![w] = @ - 1]
  /\ UNCHANGED failed
\* An error rolls the transaction back and skips the order until the next pass.
SkipClaimed(w) ==
  /\ failed' = [failed EXCEPT ![w] = @ \cup {claimed[w]}]
  /\ claimed' = [claimed EXCEPT ![w] = NoOne]
  /\ attempts' = [attempts EXCEPT ![w] = @ - 1]

ReleaseFails(w) ==
  /\ claimed[w] \in Malformed
  /\ SkipClaimed(w)
  /\ UNCHANGED <<clock, tables, phase, faults>>

Fault == faults < MaxFaults /\ faults' = faults + 1

\* Any transaction may be lost to a deadlock or a dropped connection.
LoseTransaction(w) ==
  /\ claimed[w] \in Orders
  /\ Fault
  /\ SkipClaimed(w)
  /\ UNCHANGED <<clock, tables, phase>>

\* The deadline of the pass is over while it expires orders: break.
AbandonPass(w) ==
  /\ phase[w] = "expire"
  /\ Fault
  /\ Leave(w, "select")
  /\ UNCHANGED <<clock, tables, failed>>

\* The process ends, which rolls its transaction back; another one takes its place.
Crash(w) ==
  /\ phase[w] # "down"
  /\ Fault
  /\ Leave(w, "down")
  /\ UNCHANGED <<clock, tables, failed>>
Restart(w) ==
  /\ phase[w] = "down"
  /\ phase' = [phase EXCEPT ![w] = "select"]
  /\ UNCHANGED <<clock, tables, attempts, failed, claimed, faults>>

\* A cancellation or a payment, under the row lock of the order.
CloseElsewhere(o) ==
  /\ o \in pending \ (Locked \cup Malformed)
  /\ pending' = pending \ {o}
  /\ UNCHANGED <<clock, expired, phase, attempts, failed, claimed, faults>>

\* A session that began after all those in the backlog expires.
ExpireSession(s) ==
  /\ ~Contains(expired, s)
  /\ expired' = Append(expired, s)
  /\ UNCHANGED <<clock, pending, phase, attempts, failed, claimed, faults>>

Tick ==
  /\ clock < MaxTime
  /\ clock' = clock + 1
  /\ UNCHANGED <<tables, phase, attempts, failed, claimed, faults>>

WorkerStep(w) ==
  \/ StartPass(w) \/ CleanUp(w) \/ Claim(w) \/ EndPass(w) \/ ExpireClaimed(w) \/ ReleaseFails(w)
  \/ Restart(w)

Next ==
  \/ \E w \in Workers :
       WorkerStep(w) \/ CleanUpTooLong(w) \/ LoseTransaction(w) \/ AbandonPass(w) \/ Crash(w)
  \/ \E o \in Orders : CloseElsewhere(o)
  \/ \E s \in Sessions : ExpireSession(s)
  \/ Tick

Spec == Init /\ [][Next]_vars

\* The timer keeps firing, processes are replaced and the database answers.  A cleanup
\* may take too long any number of times, but not every time; nobody has to cancel or
\* pay.
FairSpec ==
  /\ Spec /\ WF_vars(Tick)
  /\ \A w \in Workers : WF_vars(WorkerStep(w)) /\ SF_vars(CleanUp(w))

-----------------------------------------------------------------------------

\* An order that a worker is about to release is pending, and no other worker
\* or request can close it meanwhile: its stock is released once.
ClaimsAreExclusive ==
  \A w \in Workers :
    claimed[w] # NoOne =>
      /\ claimed[w] \in pending
      /\ \A v \in Workers \ {w} : claimed[v] # claimed[w]

\* Every order that can be released is closed in the end, whatever happens to the
\* others and to the replicas, and however often the cleanup uses up a pass
\* (docs/commerce.md: "other orders still commit"; docs/deployment.md:47).
HealthyOrdersClose ==
  \A o \in Orders \ Malformed : <>(o \notin pending)

\* The row of a session that has expired is removed in the end, although new ones
\* expire all the time and a pass removes a bounded batch (CleanupSessions,
\* session.go:43-52).
ExpiredSessionsGo ==
  \A s \in Sessions : Contains(expired, s) ~> ~Contains(expired, s)
=============================================================================
