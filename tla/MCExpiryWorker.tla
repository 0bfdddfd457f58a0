---------------------------- MODULE MCExpiryWorker ----------------------------
(***************************************************************************)
(* Values of the constants of ExpiryWorker for TLC.                        *)
(***************************************************************************)
EXTENDS ExpiryWorker

CONSTANTS w1, w2, o1, o2, o3, o4, s1, s2, no_one

\* o1, o2 and o3 expire together, more than a batch; o4 expires later.
Schedule == [o \in Orders |-> IF o = o4 THEN 2 ELSE 1]
Serial   == [o \in Orders |-> CASE o = o1 -> 1 [] o = o2 -> 2 [] o = o3 -> 3 [] OTHER -> 4]
=============================================================================
