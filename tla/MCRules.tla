------------------------------ MODULE MCRules ------------------------------
(***************************************************************************)
(* The pure rules of the system, each evaluated on every input of a        *)
(* bounded set: a state is one case.                                       *)
(***************************************************************************)
EXTENDS TrajectoryHistory, TableAnswers, Chunking, TLC

CONSTANTS None, Failed, Here, PROSE_TOP_K, FUSED_PROSE_K,
          TABLE_TOP_K, RRF_K, ShortWords, DraftVerbs, SelectVerbs, DeliverableNouns

Plan == INSTANCE DocumentPlan
Rows == INSTANCE SectionRules
Rubric == INSTANCE RubricStatistics
Evidence == INSTANCE TrajectoryRules
Found == INSTANCE Retrieval WITH EnforceLabels <- TRUE
OpenTo == INSTANCE Retrieval WITH EnforceLabels <- FALSE
Request == INSTANCE RequestRouting
Scope == INSTANCE DocumentScope

MCShortWords == {<<"of">>, <<"s">>, <<"d">>}

-----------------------------------------------------------------------------
Types == {"capa", "dfmea", "risk"}
EdgesTo(types) == [type : types, domain : {Here, "accounting"}, consume : {{}, {"open_items"}}]
RubricsOf(n, types) == [requires : Upto(n, EdgesTo(types)), exports : {{"open_items"}}]
PlanCase ==
    /\ case = <<"plan">>
    /\ \E dfmea \in RubricsOf(2, {"risk", "capa"}), risk \in RubricsOf(1, Types \cup {"ledger"}),
          capa \in [requires : Upto(1, EdgesTo({"dfmea", "risk"})), exports : {{}, {"open_items"}}],
          approved \in SUBSET {"capa", "risk"} :
        case' = <<"plan", [t \in Types |-> CASE t = "dfmea" -> dfmea [] t = "risk" -> risk [] t = "capa" -> capa],
                  approved>>

-----------------------------------------------------------------------------
Value(is, n) == [is |-> is, n |-> n]
Num(n) == Value("number", n)
Declared == [name |-> "a", type |-> "integer", provenance |-> "retrieved", required |-> TRUE, min |-> 1,
          max |-> 3, domain |-> {}, formula |-> None, references |-> {}]
Operators == Upto(2, {"+", "-", "*"})
FieldsB == {[Declared EXCEPT !.name = "b", !.type = t, !.provenance = "llm", !.domain = d, !.required = r,
                          !.references = {Value("word", 1)}] :
               t \in {"integer", "enum", "reference"}, d \in {{}, {Value("word", 1), Num(2)}}, r \in BOOLEAN}
FieldsC == {[Declared EXCEPT !.name = "c", !.provenance = "computed",
                          !.formula = IF ops = <<"none">> THEN None
                                      ELSE [operands |-> operands, operators |-> ops]] :
               ops \in Operators \cup {<<"none">>},
               operands \in {<<"a", "b">>, <<"a", "b", "a">>}}
Produced == {[value |-> v, source |-> s] :
                v \in {Num(2), Num(3), Num(4), Value("empty", 0), Value("word", 1),
                       Value("insufficient_evidence", 0)}, s \in {None, "s1", "s2"}}
RowCase ==
    /\ case = <<"row">>
    /\ \E b \in FieldsB, c \in FieldsC, pa \in Produced,
          pb \in {p \in Produced : p.source = None}, pc \in {Num(4), Num(7), Value("empty", 0)},
          offered \in {{}, {"s1"}} :
        case' = <<"row", <<Declared, b, c>>,
                  [f \in {"a", "b", "c"} |-> CASE f = "a" -> pa [] f = "b" -> pb
                                               [] f = "c" -> [value |-> pc, source |-> None]], offered>>

Criteria == [id : {"c1", "c2"}, gate : {"critical", "major", "advisory"}, weight : 0..2,
             by : {"deterministic", "llm_judge", "hybrid"}, forbidden : {{}, {"tbd", "malformed"}},
             required : {{}, {"scope"}}]
Judges == {c \in Criteria : c.weight = 1 /\ c.id = "c1"}
ScoreCase ==
    /\ case = <<"score">>
    /\ \/ \E n \in 0..20 : case' = <<"rate", n>>
       \/ \E n, k \in 0..10 : case' = <<"rates", n, k>>
       \/ \E first, second \in {c \in Criteria : c.by = "hybrid" /\ c.forbidden = {} /\ c.required = {}},
             run \in Upto(2, [id : {"c1", "c2"}, passed : BOOLEAN]),
             threshold \in {50, 85}, trajectory \in BOOLEAN :
           /\ first.id = "c1"
           /\ case' = <<"run", <<first, second>>, <<run>>, threshold, trajectory>>
       \/ \E c \in Judges, text \in SUBSET {"tbd", "scope"}, answer \in {"pass", "fail", "unreadable"} :
           case' = <<"judge", <<c>>, text, <<answer>>>>

Documents1 == {<<"sop", "_", "d", "fmea">>, <<"sop", "s">>, <<"fmea">>, <<"of">>}
TracedSteps ==
    [node : {"retrieve", "judge"}, chunks : {{}, {<<"fmea">>}, {<<"sop", "_", "d", "fmea">>, <<"of">>}},
     recalled : {None}, source : {None}, sections : {0}]
    \cup [node : {"retrieve_sections"}, chunks : {{}}, recalled : {None}, source : Documents1, sections : 0..1]
    \cup [node : {"recall_prior"}, chunks : {{}}, recalled : Documents1, source : {None}, sections : {0}]
Types1 == {<<"fmea">>, <<"sop", "_", "fmea">>, <<"of">>, <<"fmea", "_", "of">>}
RulesOn == [kind : {"document"}, of : Types1, asks : {<<>>}]
           \cup {[kind |-> "agent", of |-> "web", asks |-> <<"fmea">>]}
Queries == {t \in Upto(5, {"sop", "fmea", "of", "_"}) : Len(t) = 5 /\ \A i \in 1..5 : (t[i] = "_") <=> i % 2 = 0}
EvidenceCase ==
    /\ case = <<"evidence">>
    /\ \/ \E steps \in Upto(2, TracedSteps), required \in kSubset(0, RulesOn) \cup kSubset(1, RulesOn) \cup kSubset(2, RulesOn),
             forbidden \in kSubset(0, RulesOn) \cup kSubset(1, RulesOn) :
            case' = <<"run's trace", steps, [required |-> required, forbidden |-> forbidden]>>
       \/ \E query, asks \in Queries \cup {<<>>} : case' = <<"asked", query, asks>>

(* dependency.ts, section-validator.ts, scoring.ts, trajectory-check.ts:   *)
(* what a document waits for, what its rows lack, what its run consulted   *)
(* and how it is rated.  A plan names each missing                         *)
(* prerequisite once, after those it needs itself, and a cycle or another  *)
(* domain's document is named and not walked into; a row without a finding *)
(* is in range, is computed as its formula says and names only sources it  *)
(* was offered; a rating agrees with the criteria it counts, whatever the  *)
(* judge leaves out or repeats.                                            *)
DocumentsAreDue ==
    /\ Is("plan") => Plan!PlanHolds(case[2], case[3], "dfmea")
    /\ Is("row") => Rows!RowHolds(case[2], case[3], case[4])
    /\ Is("rate") => Rubric!StabilityHolds(case[2])
    /\ Is("rates") => Rubric!SignalHolds(case[2], case[3])
    /\ Is("run") => Rubric!ScoringHolds(case[2], case[3], case[4], case[5])
    /\ Is("judge") => Rubric!JudgingHolds(case[2], case[3], case[4])
    /\ Is("run's trace") => Evidence!TrajectoryHolds(case[2], case[3])
    /\ Is("asked") => Evidence!AskedHolds(case[2], case[3])

-----------------------------------------------------------------------------
MCCells ==
    {Text("int", 0, "plain"), Text("int", 10, "plain"), Text("int", 10, "padded"), Text("dec", 15, "plain"),
     Text("date", 2024, "plain"), Text("bool", 1, "true"), Text("bool", 0, "plain"),
     Text("word", 1, "plain"), Text("word", 1, "lower"), Text("empty", 0, "plain")}
MCAsked ==
    {Text("int", 10, "plain"), Text("dec", 15, "plain"), Text("number", 0, "plain"), Text("number", 15, "plain"),
     Text("date", 2024, "plain"), Text("truth", 1, "plain"), Text("bool", 1, "plain"),
     Text("word", 1, "plain"), Text("word", 1, "lower"), Text("word", 2, "plain")}

-----------------------------------------------------------------------------
Breakings == {"x", "word", "sentence", "paragraph"}
HeadingLines == {[level |-> l, name |-> n] : l \in 0..3, n \in {"a", "b"}} \ {[level |-> 0, name |-> "b"]}
CutCase ==
    /\ case = <<"cut">>
    /\ \/ \E text \in Upto(6, Breakings), overlap \in 0..1, size \in {4, 6} :
            case' = <<"prose", <<"x">> \o text \o <<"x">>, Opts(size, overlap)>>
       \/ \E n \in 0..9, size \in 1..4, overlap \in 0..3 : overlap < size /\ case' = <<"window", n, size, overlap>>
       \/ \E lines \in Upto(7, {"bar", "text"}), rows \in 1..3, repeat \in BOOLEAN :
            case' = <<"sheet", lines, rows, repeat>>
       \/ \E lines \in Upto(4, HeadingLines) : case' = <<"headings", lines>>

Points == [labels : {{}, {"e1"}, {"e2"}}, table : BOOLEAN]
Orders == {o \in [1..4 -> 1..4] : IsInjective(o)}
FindCase ==
    /\ case = <<"find">>
    /\ \E points \in [1..4 -> Points], order \in Orders, laneFails \in BOOLEAN :
         case' = <<"search", points, <<<<1, 2, 3, 4>>, order>>, laneFails>>

(* chunkers.ts, heading-chunker.ts, retrieve.ts: no text of a source is    *)
(* lost between two chunks, no chunk is longer than asked for, a chunk of  *)
(* rows carries its head, a section is kept under the headings it is       *)
(* written under, and a question finds what its caller would find if what  *)
(* he may not see did not exist.                                           *)
SourcesAreFound ==
    /\ Is("prose") => SemanticHolds(case[2], case[3])
    /\ Is("window") => CharactersHold(case[2], case[3], case[4])
    /\ Is("sheet") => TabularHolds(case[2], case[3], case[4])
    /\ Is("headings") => HeadingsHold(case[2], {<<"old">>})
    /\ Is("search") => /\ Found!RetrievalHolds(case[2], case[3], case[4], {"e1"})
                       /\ (\A p \in DOMAIN case[2] : case[2][p].labels # {"e1"}) =>
                             OpenTo!RetrievalHolds(case[2], case[3], case[4], {"e1"})

-----------------------------------------------------------------------------
Pieces == {"draft", "issue", "capa", "city", "risk", "report", "_"}
Aliases == <<"capa">> :> "capa" @@ <<"capa", "_", "report">> :> "capa"
           @@ <<"risk">> :> "risk" @@ <<"risk", "_", "report">> :> "risk"
Catalog == <<[type |-> "capa", keywords |-> {<<"capa">>, <<"city">>}], [type |-> "risk", keywords |-> {<<"risk">>}]>>
Definitions == {[terms |-> {<<"risk">>}, table |-> <<>>, column |-> "score"],
                [terms |-> {<<"city">>, <<"capa", "_", "risk">>}, table |-> <<"capa">>, column |-> "status"]}
Normalised(text) ==
    \A i \in DOMAIN text : text[i] = "_" => i \notin {1, Len(text)} /\ text[i + 1] # "_"
RequestCase ==
    /\ case = <<"request">>
    /\ \E text \in {t \in Upto(5, Pieces) : Normalised(t)} : case' = <<"text", text>>

-----------------------------------------------------------------------------
Line(is, key, value) == [is |-> is, key |-> key, value |-> value]
Fence == Line("fence", None, None)
Field(key, value) == Line("field", key, value)
Lines == {Fence, Line("text", None, None), Line("blank", None, None),
          Field("project", <<"summit">>), Field("project", <<"denali">>),
          Field("title", <<"risk", "_", "summit", "s">>), Field("title", <<"risk", "_", "of", "_", "denali">>),
          Field("form", <<"risk">>), Field("classification", <<"open">>), Field("classification", <<"typo">>)}
Registry == [projects |-> "summit" :> {<<"summit">>} @@ "denali" :> {<<"denali">>, <<"the", "_", "summit">>},
             collections |-> "risk" :> {<<"risk">>}]
Policy(strict) ==
    [strict |-> strict, aliases |-> <<"open">> :> "public" @@ <<"closed">> :> "restricted",
     labels |-> "public" :> {"e1"} @@ "restricted" :> {"e2"},
     defaults |-> <<[match |-> <<"data">>, class |-> "public"]>>, overrides |-> <<>>]
Grants == [roles |-> "reader" :> {"e1", "a1"} @@ "lead" :> {"e2"}, subjects |-> "s1" :> {} @@ "s2" :> {"e1"},
           domain |-> "e1" :> "engineering" @@ "e2" :> "engineering" @@ "a1" :> "accounting"]
Paths == {<<"data", "_", "x">>, <<"y">>}
Blocks == {<<Field("form", <<"risk">>)>>,
           <<Field("title", <<"risk", "_", "summit">>), Field("classification", <<"closed">>)>>,
           <<Field("form", <<"risk">>), Field("classification", <<"typo">>)>>,
           <<Field("title", <<"risk">>), Field("project", <<"denali">>), Field("classification", <<"open">>)>>}
Documents == {[path |-> p, lines |-> <<Fence>> \o b \o <<Fence>>, columns |-> c] :
                 p \in Paths, b \in Blocks, c \in {{}, {"score"}}}
ScopeCase ==
    /\ case = <<"scope">>
    /\ \/ \E lines \in Upto(4, Lines), strict \in BOOLEAN, path \in Paths :
            case' = <<"document", Policy(strict), [path |-> path, lines |-> lines, columns |-> {}]>>
       \/ \E docs \in kSubset(1, Documents) \cup kSubset(2, Documents), strict \in BOOLEAN,
             subject \in {"s1", "s2"}, role \in {"reader", "lead"}, attributed \in BOOLEAN,
             path \in Paths, class \in {"public", "restricted", "gone"} :
            case' = <<"coverage", Policy(strict), docs, Scope!ResolveLabels(Grants, subject, "engineering", role),
                      attributed, [path |-> path, class |-> class]>>

(* intent.ts, classifier.ts, capability-select.ts, subject.ts, frontmatter *)
(* and policy: a name in a request, or in a document, means one thing.  A  *)
(* request that is taken for a draft names the type that is drafted, and   *)
(* the agent it is sent to says the same; words added to a request take no *)
(* meaning away from it; a document is bound to what it says of itself,    *)
(* shown to those its class admits, and a coverage answer counts exactly   *)
(* the documents the caller may see.                                       *)
NamesBind ==
    /\ Is("text") =>
        /\ Request!DraftIsNamed(case[2], Aliases)
        /\ Request!NothingElseIsNamed(case[2], Aliases)
        /\ Request!SelectionAgrees(case[2], Aliases, Catalog)
        /\ \A n \in DOMAIN case[2] : case[2][n] = "_" =>
              Request!SayingMoreKeeps(SubSeq(case[2], 1, n - 1), SubSeq(case[2], n + 1, Len(case[2])), Aliases,
                                      <<"capa">>, {"score", "status"}, Definitions)
    /\ Is("document") => Scope!BindingHolds(case[2], Registry, case[3])
    /\ Is("coverage") =>
          Scope!CoverageHolds(case[2], Registry, case[3], "risk", case[4], case[4] \cup {"e2"}, case[5],
                              {"score"}, case[6])

-----------------------------------------------------------------------------
Init == case \in {<<area>> : area \in {"plan", "row", "score", "evidence", "table", "cut", "find", "request", "scope", "history"}} /\ InitHistory
CaseOfRules ==
    PlanCase \/ RowCase \/ ScoreCase \/ EvidenceCase \/ TableCase \/ CutCase \/ FindCase \/ RequestCase \/ ScopeCase
Next ==
    \/ CaseOfRules /\ UNCHANGED history
    \/ case = <<"history">> /\ RecordStep /\ UNCHANGED case
    \/ case = <<"history">> /\ RecordTerminal /\ UNCHANGED case
=============================================================================
