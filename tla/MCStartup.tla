------------------------------ MODULE MCStartup ------------------------------
(***************************************************************************)
(* Instances of Startup for TLC.                                           *)
(***************************************************************************)
EXTENDS Startup, TLC

CONSTANTS m, a, s, d1, d2, d3, d4, x1, x2

\* A new database, one whose first migration has a dated row, and one that is
\* complete with rows of both kinds.
Ledgers == {{}, {<<1, "date">>}, {<<1, "date">>, <<2, "date">>, <<3, "number">>}}
Complete == {{<<v, "number">> : v \in Versions}}
New == {{}}

\* TLC explores the behaviours in which one process starts again, and those in
\* which a product with an oversized price is created; not both.  No fairness
\* makes a process start or a product be created.
Restarted == {p \in Processes : boots[p] > 1}
OneScenario ==
  \/ Cardinality(Restarted) <= 1 /\ products[x2] = "absent"
  \/ Restarted = {}
=============================================================================
