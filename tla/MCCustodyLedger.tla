--------------------------- MODULE MCCustodyLedger ---------------------------
(***************************************************************************)
(* Instances of CustodyLedger for TLC.  Two runs of agent a1 (correlations *)
(* k1 and k2) write to domain d1, an agent of another domain shares the    *)
(* database.  c1 and c3 carry the same event, as a retried call does.      *)
(***************************************************************************)
EXTENDS CustodyLedger, TLC

CONSTANTS a1, a2, c1, c2, c3, c4, d1, d2, k1, k2

CallDomains == [c \in Calls |-> IF c = c4 THEN d2 ELSE d1]
CallAgents  == [c \in Calls |-> IF c = c4 THEN a2 ELSE a1]
CallEvents  == [c \in Calls |-> [corr |-> IF c \in {c1, c3} THEN k1 ELSE k2]]

(* c1 and c3 differ in nothing but their names.                            *)
RetrySymmetry == Permutations({c1, c3})
=============================================================================
