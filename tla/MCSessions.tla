----------------------------- MODULE MCSessions -----------------------------
EXTENDS Sessions, TLC
CONSTANTS u1, r1, r2, t1, t2, t3
(* Requests are alike, and so are the tokens.                               *)
Symmetric == Permutations({r1, r2}) \cup Permutations({t1, t2, t3})
=============================================================================
