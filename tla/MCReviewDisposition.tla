------------------------ MODULE MCReviewDisposition ------------------------
(***************************************************************************)
(* Two draft sets under one correlation, alice's and the rerun by bob,     *)
(* with a document each.  Three reviewers, one of them each set's author,  *)
(* edit both documents.                                                    *)
(***************************************************************************)
EXTENDS ReviewDisposition

Author == [s \in Sets |-> IF s = "s1" THEN "alice" ELSE "bob"]
SetOfDoc == [d \in Docs |-> IF d = "d1" THEN "s1" ELSE "s2"]

Reviewer == [q \in Requests |-> IF q = "q2" THEN "alice" ELSE "bob"]
Decision == [q \in Requests |-> CASE q = "q1" -> "approve" [] q = "q2" -> "reject"
                                  [] q = "q3" -> "rerun"]

Edit(d, f, v) == [doc |-> d, field |-> f, value |-> v]

Submitted ==
    [q \in Requests |->
       CASE q = "q1" -> {Edit("d1", "severity", 7), Edit("d2", "rpn", 7)}
         [] q = "q2" -> {Edit("d1", "rpn", 5)}
         [] q = "q3" -> {Edit("d1", "severity", 5)}]
=============================================================================
