----------------------------- MODULE ExpiryProofs -----------------------------
(***************************************************************************)
(* Theorems about the expiry workers for any number of replicas and        *)
(* orders, and any number of lost transactions, deadlines and crashes.     *)
(***************************************************************************)
EXTENDS ExpiryWorker, TLAPS

\* The columns and variables of the workers.
WorkerTypes ==
  /\ pending \subseteq Orders
  /\ phase \in [Workers -> {"select", "cleanup", "expire", "down"}]
  /\ attempts \in [Workers -> Nat]
  /\ failed \in [Workers -> SUBSET Orders]
  /\ claimed \in [Workers -> Orders \cup {NoOne}]

\* A row lock lives in an iteration of the loop of ExpireBatch.
ClaimsAreInPasses ==
  \A w \in Workers : claimed[w] # NoOne => phase[w] = "expire" /\ attempts[w] > 0

WorkersInv == WorkerTypes /\ ClaimsAreInPasses /\ ClaimsAreExclusive

-----------------------------------------------------------------------------

LEMMA WorkersInit == Init => WorkersInv
  BY OrdersAreWellFormed
     DEF Init, WorkersInv, WorkerTypes, ClaimsAreInPasses, ClaimsAreExclusive

\* What a worker claims is pending, and no one else has claimed it.
LEMMA ClaimsAreFree ==
  ASSUME WorkersInv, NEW w \in Workers, NEW o, ComesFirst(o, Candidates(w))
  PROVE  o \in pending /\ \A v \in Workers : claimed[v] # o
  BY DEF ComesFirst, Candidates, Overdue, Locked

\* A worker gives up its claim and changes nothing that the others hold.
LEMMA ClaimDropped ==
  ASSUME WorkersInv, NEW w \in Workers, NEW left \in Nat, NEW label,
         label \in {"select", "cleanup", "expire", "down"},
         claimed' = [claimed EXCEPT ![w] = NoOne],
         attempts' = [attempts EXCEPT ![w] = left],
         phase' = [phase EXCEPT ![w] = label],
         failed' \in [Workers -> SUBSET Orders],
         pending' \subseteq pending, pending \ pending' \subseteq {claimed[w]}
  PROVE  WorkersInv'
<1>1. WorkerTypes'
  BY DEF WorkersInv, WorkerTypes
<1>2. claimed'[w] = NoOne /\ \A v \in Workers \ {w} :
        claimed'[v] = claimed[v] /\ attempts'[v] = attempts[v] /\ phase'[v] = phase[v]
  BY DEF WorkersInv, WorkerTypes
<1>3. ClaimsAreInPasses'
  BY <1>2 DEF WorkersInv, ClaimsAreInPasses
<1>4. ASSUME NEW v \in Workers, claimed'[v] # NoOne
      PROVE  /\ claimed'[v] \in pending'
             /\ \A z \in Workers \ {v} : claimed'[z] # claimed'[v]
  <2>1. v # w /\ claimed'[v] = claimed[v]
    BY <1>2, <1>4
  <2>2. claimed[v] \in pending /\ \A z \in Workers \ {v} : claimed[z] # claimed[v]
    BY <1>4, <2>1 DEF WorkersInv, ClaimsAreExclusive
  <2>3. claimed[v] \in pending'
    BY <2>1, <2>2
  <2>4. QED
    BY <1>2, <1>4, <2>1, <2>2, <2>3
<1>5. QED
  BY <1>1, <1>3, <1>4 DEF WorkersInv, ClaimsAreExclusive

LEMMA ClaimStep ==
  ASSUME WorkersInv, NEW w \in Workers, Claim(w)
  PROVE  WorkersInv'
<1>1. PICK o \in Orders :
        ComesFirst(o, Candidates(w)) /\ claimed' = [claimed EXCEPT ![w] = o]
  BY DEF Claim
<1>2. o \in pending /\ \A v \in Workers : claimed[v] # o
  BY <1>1, ClaimsAreFree
<1>3. claimed'[w] = o /\ \A v \in Workers \ {w} : claimed'[v] = claimed[v]
  BY <1>1 DEF WorkersInv, WorkerTypes
<1>4. UNCHANGED <<pending, phase, attempts, failed>> /\ phase[w] = "expire" /\ attempts[w] > 0
  BY DEF Claim, MayClaim, tables
<1>5. WorkerTypes'
  BY <1>1, <1>4 DEF WorkersInv, WorkerTypes
<1>6. ClaimsAreInPasses'
  BY <1>3, <1>4 DEF WorkersInv, ClaimsAreInPasses
<1>7. ClaimsAreExclusive'
  BY <1>2, <1>3, <1>4 DEF WorkersInv, ClaimsAreExclusive
<1>8. QED
  BY <1>5, <1>6, <1>7 DEF WorkersInv

\* A step that leaves the claims and the pending orders alone.
LEMMA ClaimsUntouched ==
  ASSUME WorkersInv, UNCHANGED <<pending, claimed>>, WorkerTypes',
         \A w \in Workers : claimed[w] # NoOne =>
           phase'[w] = phase[w] /\ attempts'[w] = attempts[w]
  PROVE  WorkersInv'
  BY DEF WorkersInv, ClaimsAreInPasses, ClaimsAreExclusive

LEMMA WorkerStepKeeps ==
  ASSUME WorkersInv, NEW w \in Workers,
         WorkerStep(w) \/ CleanUpTooLong(w) \/ LoseTransaction(w) \/ AbandonPass(w) \/ Crash(w)
  PROVE  WorkersInv'
<1>1. /\ phase[w] \in {"select", "cleanup", "expire", "down"} /\ attempts[w] \in Nat
      /\ phase = [phase EXCEPT ![w] = phase[w]]
      /\ claimed[w] # NoOne => phase[w] = "expire" /\ attempts[w] - 1 \in Nat
  BY DEF WorkersInv, WorkerTypes, ClaimsAreInPasses
<1>2. CASE StartPass(w) \/ CleanUp(w) \/ Restart(w)
  <2>1. WorkerTypes'
    BY <1>2, OrdersAreWellFormed
       DEF StartPass, CleanUp, Restart, tables, WorkersInv, WorkerTypes
  <2>2. claimed[w] = NoOne
    BY <1>1, <1>2 DEF StartPass, CleanUp, Restart
  <2>3. /\ UNCHANGED <<pending, claimed>>
        /\ \A v \in Workers \ {w} : phase'[v] = phase[v] /\ attempts'[v] = attempts[v]
    BY <1>2 DEF StartPass, CleanUp, Restart, tables, WorkersInv, WorkerTypes
  <2>4. QED
    BY <2>1, <2>2, <2>3, ClaimsUntouched
<1>3. CASE Claim(w)
  BY <1>3, ClaimStep
<1>4. CASE CleanUpTooLong(w) \/ EndPass(w) \/ AbandonPass(w) \/ Crash(w)
  <2>1. PICK label \in {"select", "down"} : Leave(w, label)
    BY <1>4 DEF CleanUpTooLong, EndPass, AbandonPass, Crash
  <2>2. UNCHANGED <<pending, failed>>
    BY <1>4 DEF CleanUpTooLong, EndPass, AbandonPass, Crash, tables
  <2>3. failed' \in [Workers -> SUBSET Orders]
    BY <2>2 DEF WorkersInv, WorkerTypes
  <2>4. QED
    BY <2>1, <2>2, <2>3, ClaimDropped DEF Leave
<1>5. CASE ExpireClaimed(w)
  <2>1. claimed[w] # NoOne
    BY <1>5, OrdersAreWellFormed DEF ExpireClaimed
  <2>2. failed' \in [Workers -> SUBSET Orders]
    BY <1>5 DEF ExpireClaimed, WorkersInv, WorkerTypes
  <2>3. attempts[w] - 1 \in Nat /\ attempts' = [attempts EXCEPT ![w] = attempts[w] - 1]
    BY <1>1, <1>5, <2>1 DEF ExpireClaimed
  <2>4. QED
    BY <1>1, <1>5, <2>2, <2>3, ClaimDropped DEF ExpireClaimed
<1>6. CASE ReleaseFails(w) \/ LoseTransaction(w)
  <2>1. SkipClaimed(w) /\ claimed[w] \in Orders /\ UNCHANGED <<pending, phase>>
    BY <1>6, OrdersAreWellFormed DEF ReleaseFails, LoseTransaction, tables
  <2>2. claimed[w] # NoOne
    BY <2>1, OrdersAreWellFormed
  <2>3. failed' \in [Workers -> SUBSET Orders]
    BY <2>1 DEF SkipClaimed, WorkersInv, WorkerTypes
  <2>4. attempts[w] - 1 \in Nat /\ attempts' = [attempts EXCEPT ![w] = attempts[w] - 1]
    BY <1>1, <2>1, <2>2 DEF SkipClaimed
  <2>5. QED
    BY <1>1, <2>1, <2>3, <2>4, ClaimDropped DEF SkipClaimed
<1>7. QED
  BY <1>2, <1>3, <1>4, <1>5, <1>6 DEF WorkerStep

\* An order that a worker releases is pending and its own: no other replica, no
\* cancellation and no payment closes it at the same time, however processes
\* crash and transactions are lost.
THEOREM ClaimsExclusive == Spec => []ClaimsAreExclusive
<1>1. WorkersInv /\ [Next]_vars => WorkersInv'
  <2> SUFFICES ASSUME WorkersInv, [Next]_vars PROVE WorkersInv'
    OBVIOUS
  <2>1. CASE \E w \in Workers :
               WorkerStep(w) \/ CleanUpTooLong(w) \/ LoseTransaction(w) \/ AbandonPass(w) \/ Crash(w)
    BY <2>1, WorkerStepKeeps
  <2>2. ASSUME NEW o \in Orders, CloseElsewhere(o)
        PROVE  WorkersInv'
    <3>1. /\ pending' = pending \ {o} /\ UNCHANGED <<phase, attempts, failed, claimed>>
          /\ \A w \in Workers : claimed[w] # o
      BY <2>2 DEF CloseElsewhere, Locked
    <3>2. QED
      BY <3>1 DEF WorkersInv, WorkerTypes, ClaimsAreInPasses, ClaimsAreExclusive
  <2>3. CASE (\E s \in Sessions : ExpireSession(s)) \/ Tick \/ UNCHANGED vars
    <3>1. UNCHANGED <<pending, phase, attempts, failed, claimed>>
      BY <2>3 DEF ExpireSession, Tick, vars, tables
    <3>2. QED
      BY <3>1 DEF WorkersInv, WorkerTypes, ClaimsAreInPasses, ClaimsAreExclusive
  <2>4. QED
    BY <2>1, <2>2, <2>3 DEF Next
<1>2. WorkersInv => ClaimsAreExclusive
  BY DEF WorkersInv
<1>3. QED
  BY <1>1, <1>2, WorkersInit, PTL DEF Spec
=============================================================================
