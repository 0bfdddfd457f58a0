-------------------------- MODULE MCRefreshSessions --------------------------
(***************************************************************************)
(* An instance of RefreshSessions for TLC: a script and a browser of one   *)
(* user, in three scenarios.                                               *)
(***************************************************************************)
EXTENDS RefreshSessions, TLC

CONSTANTS l1, l2, f1, f2, f3, o1, o2, a2, c1, c2, u1

Kinds == [r \in Requests |->
            CASE r \in {l1, l2} -> "login"
              [] r \in {f1, f2, f3} -> "refresh"
              [] r \in {o1, o2} -> "logout"
              [] r = a2 -> "call"]
ScriptAndBrowser == [r \in Requests |-> IF r \in {l1, f1, f2, o1} THEN c1 ELSE c2]
SameUser == [c \in Clients |-> u1]

\* Only these requests arrive, and only these accounts are disabled.
Within(requests, accounts) ==
  /\ \A r \in Requests \ requests : pc[r] = "idle"
  /\ disabled \subseteq accounts

\* A script races two refreshes and a logout.
Race == Within({l1, f1, f2, o1}, {})
\* A browser makes one request after the other while its account is disabled.
Browser == Within({l2, f3, o2, a2}, {u1})
\* The sessions of two devices expire.
Devices == Within({l1, l2, f1}, {})

\* TLC explores the behaviours that are within one of the scenarios.
OneScenario == Race \/ Browser \/ Devices
=============================================================================
