----------------------------- MODULE MCRubricSet -----------------------------
(* Two files, and releases that keep, replace, withdraw, collide, duplicate *)
(* an id or do not parse.                                                   *)
EXTENDS RubricDrafts, TLC

Criterion(id, gate, weight) ==
    [id |-> id, gate |-> gate, weight |-> weight, by |-> "llm_judge",
     patterns |-> "none", exhaustive |-> TRUE]
Rubric(type, names, criteria) ==
    [json |-> TRUE, recipe |-> TRUE, type |-> type, names |-> names, criteria |-> criteria]

One == <<Criterion("source", "critical", 2)>>
Dfmea == Rubric("dfmea", {"design fmea"}, One)
DfmeaNext == Rubric("dfmea", {"design fmea"}, One \o <<Criterion("effect", "minor", 1)>>)
DfmeaTwice == Rubric("dfmea", {"design fmea"}, One \o One)
DfmeaAhead == [Dfmea EXCEPT !.criteria[1].exhaustive = FALSE]
Capa == Rubric("capa", {"corrective action"}, One)
CapaColliding == Rubric("capa", {"design fmea"}, One)
CapaIdle == Rubric("capa", {}, <<Criterion("note", "advisory", 0)>>)

MCCheckouts == {<<Dfmea, None>>, <<None, Capa>>}
MCReleases == << <<Dfmea, Capa>>, <<None, Capa>>, <<DfmeaNext, CapaColliding>>,
                 <<DfmeaTwice, Capa>>, <<DfmeaNext, CapaIdle>>, <<Dfmea, DfmeaNext>>,
                 <<DfmeaAhead, Capa>> >>
MCContents == {CapaColliding, DfmeaNext}
=============================================================================
