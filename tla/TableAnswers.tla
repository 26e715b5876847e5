---------------------------- MODULE TableAnswers ----------------------------
(***************************************************************************)
(* What is asked of a loaded table and of its answers, case by case: a     *)
(* column as it is published, a condition on it, the notes of its legend,  *)
(* an aggregate over two selections.  A state is one case.                 *)
(***************************************************************************)
EXTENDS TableQuery

CONSTANTS Cells, Asked,                \* texts: of a table, of a condition
          Bases, Endings, Remarks,    \* of headers and notes
          MaxRows, MaxNotes            \* bounds

ASSUME TableAssumption ==
    /\ Cells \subseteq Texts /\ Asked \subseteq {v \in Texts : v.is # "empty"}
    /\ Endings \subseteq Nat /\ MaxRows \in Nat /\ MaxNotes \in Nat

VARIABLE case

Is(kind) == Len(case) > 1 /\ case[1] = kind
Upto(n, S) == UNION {[1..k -> S] : k \in 0..n}

Headers == [base : Bases, suffix : Endings]
Notes == [sheet : {"dictionary", "metadata"}, key : Headers, text : Remarks]
Ops == {"eq", "neq", "gt", "gte", "lt", "lte"}
Counts == {"Count", "CountOf", "Sum", "Minimum", "Maximum"}
Numbered == {c \in Cells : c.is \in {"int", "empty"}}     \* what is added up
TableCase ==
    /\ case = <<"table">>
    /\ \/ \E cells \in Upto(MaxRows, Cells), named \in BOOLEAN : case' = <<"column", cells, named>>
       \/ \E cells \in Upto(MaxRows, Cells), op \in Ops, v \in Asked :
            case' = <<"condition", cells, [op |-> op, value |-> v]>>
       \/ \E headers \in Upto(MaxRows, Headers), notes \in Upto(MaxNotes, Notes) : case' = <<"legend", headers, notes>>
       \/ \E cells \in Upto(MaxRows, Numbered), fn \in Counts : \E first, second \in SUBSET DOMAIN cells :
            case' = <<"answer", cells, first, second, fn>>
TableSpec == case = <<"table">> /\ [][TableCase]_case

(* query-builder.ts, sql-render.ts, grounding.ts, legend.ts: the rows of an *)
(* answer are those whose cells mean what was asked for, however they are  *)
(* written and under whichever type the column was inferred; what is told  *)
(* of a table (domain, range, gaps, notes) is true of its rows; and what   *)
(* the gate lets through the builder can build.                            *)
AnswersAreTheRows ==
    /\ Is("column") => PublishedHolds(case[2]) /\ QualityHolds(case[2], case[3])
    /\ Is("condition") => GateHolds(case[2], case[3]) /\ QueryHolds(case[2], case[3])
    /\ Is("legend") => LegendHolds(case[2], case[3])
    /\ Is("answer") => AnswerHolds(case[2], case[3], case[4], case[5])
=============================================================================
