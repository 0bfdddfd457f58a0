----------------------------- MODULE SessionChain -----------------------------
(***************************************************************************)
(* What internal/repository/session.go promises.  A login opens a chain of *)
(* refresh tokens.  A refresh replaces the token of a chain by one that    *)
(* was never used before; a logout or the cleanup ends the chain.  So a    *)
(* chain has one token at a time, every token has one successor at most,   *)
(* and an ended chain cannot be resumed.                                   *)
(***************************************************************************)
CONSTANTS Logins, Tokens, NotStarted, Ended

VARIABLES
  current,   \* current[l]: the token of the chain that login l opened
  used       \* the tokens that have been the token of a chain

vars == <<current, used>>

Init ==
  /\ current = [l \in Logins |-> NotStarted]
  /\ used = {}

Place(l, t) ==
  /\ t \in Tokens \ used
  /\ current' = [current EXCEPT ![l] = t]
  /\ used' = used \cup {t}

Open(l, t) ==
  /\ current[l] = NotStarted
  /\ Place(l, t)

Renew(l, t) ==
  /\ current[l] \in Tokens
  /\ Place(l, t)

\* The cleanup deletes several rows in one statement.
End(L) ==
  /\ \A l \in L : current[l] \in Tokens
  /\ current' = [l \in Logins |-> IF l \in L THEN Ended ELSE current[l]]
  /\ UNCHANGED used

Next ==
  \/ \E l \in Logins, t \in Tokens : Open(l, t) \/ Renew(l, t)
  \/ \E L \in SUBSET Logins : End(L)

Spec == Init /\ [][Next]_vars
=============================================================================
