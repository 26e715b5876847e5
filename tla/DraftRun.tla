------------------------------ MODULE DraftRun ------------------------------
(***************************************************************************)
(* drafting/executor.ts: concurrent runs of a document type's recipe in    *)
(* one agent process, as the draft path of api/routes/ask.ts starts them,  *)
(* with what a run reads and writes outside itself: the rubric cache and   *)
(* the release update that swaps it, the run trace the judge's trajectory  *)
(* is assembled from, the custody events, the artifact store, the draft    *)
(* tables and the actioner's outbox.                                       *)
(*                                                                         *)
(* Runs are interleaved at every await.  Any awaited call may throw, and   *)
(* the process may die.  The custody ledger enters as what CustodyLedger   *)
(* shows of it: an append adds the event once, or fails with or without    *)
(* having added it.                                                        *)
(***************************************************************************)
EXTENDS Integers, Sequences, FiniteSets

CONSTANTS Runs,
          CorrelationOf,    \* a rerun has its own run id and keeps the correlation
          AuthorOf,
          Approvers,        \* approvers a request may name, or NoUser
          NoUser,
          Recipe,           \* sequence of steps [id, kind, section, requests]
          RequiredSources,  \* step ids that satisfy rubric.trajectory.required
          RequiredInputs,   \* rubric.requiredInputs with required: true
          Releases,         \* contents the release ref takes, in order
          Withdrawn         \* a release that no longer has this document type

Generic == {"retrieve_sections", "query_table", "recall_prior",
            "generate_section", "validate_section", "judge"}
Kinds == Generic \cup {"require_human", "gather", "check_readiness", "export", "act"}
Retrieval == {"retrieve_sections", "query_table", "recall_prior"}

Steps == DOMAIN Recipe
StepIds == {Recipe[i].id : i \in Steps}
Inputs == UNION {Recipe[i].requests : i \in Steps}

(***************************************************************************)
(* validateRecipe, before the first step: ids are unique, and every input  *)
(* a step names is the id of an earlier step.                              *)
(***************************************************************************)
ValidRecipe ==
    \A i \in Steps :
       /\ \A j \in Steps : Recipe[i].id = Recipe[j].id => i = j
       /\ \A id \in Recipe[i].inputs : \E j \in 1 .. i - 1 : Recipe[j].id = id

ASSUME RunAssumption ==
    /\ Recipe \in Seq([id : StepIds, kind : Kinds, section : STRING,
                       requests : SUBSET STRING, inputs : SUBSET StepIds])
    /\ Recipe # <<>>
    /\ ValidRecipe
    /\ Releases \in Seq(STRING)
    /\ Len(Releases) > 0
    /\ Withdrawn \in STRING

VARIABLES version,    \* index of the release in the rubric cache
          unrecorded, \* updates whose rubric_set_updated event is outstanding
          recorded,   \* updates whose event is in the ledger
          approver,   \* [Runs -> custody.approverId, NoUser when there is none]
          pc,         \* [Runs -> phase of the current step, or how the run ended]
          step,       \* [Runs -> index of the current step]
          found,      \* [Runs -> did the current retrieval return anything]
          sections,   \* [Runs -> generated and validated sections in the bag]
          gathered,   \* [Runs -> gathered inputs in the bag]
          verdict,    \* [Runs -> rubricResult.approved, once judged]
          review,     \* [Runs -> reviewRequired]
          trace,      \* retrieval rows of agent_run_steps
          events,     \* [Runs -> custody events of the run, in chain order]
          artifacts,  \* custody_artifacts
          drafts,     \* draft_sets with their draft_documents
          seen,       \* the actioner's delivered keys
          outbox      \* what the transport delivered

custodyVars == <<events, recorded, unrecorded>>
bagVars == <<found, sections, gathered, verdict>>
outsideVars == <<trace, artifacts, drafts, seen, outbox>>
vars == <<version, approver, pc, step, review, custodyVars, bagVars, outsideVars>>

Live == {"started", "handle", "delivering", "delivered", "set", "documents",
         "record", "append"}
Ended == {"halted", "not_ready", "completed", "failed", "dead"}

Init ==
    /\ version = 1
    /\ unrecorded = {} /\ recorded = {}
    /\ approver = [r \in Runs |-> NoUser]
    /\ pc = [r \in Runs |-> "new"]
    /\ step = [r \in Runs |-> 1]
    /\ found = [r \in Runs |-> FALSE]
    /\ sections = [r \in Runs |-> {}]
    /\ gathered = [r \in Runs |-> {}]
    /\ verdict = [r \in Runs |-> "none"]
    /\ review = [r \in Runs |-> FALSE]
    /\ trace = {} /\ artifacts = {} /\ drafts = {} /\ seen = {}
    /\ events = [r \in Runs |-> <<>>]
    /\ outbox = <<>>

Current(r) == Recipe[step[r]]
AtHandler(r, kind) == pc[r] = "handle" /\ Current(r).kind = kind

-----------------------------------------------------------------------------
(* The order of handler, persistence, trace row and custody event, per     *)
(* kind of step.  Definitions marked "mutant" only serve to show that the  *)
(* properties depend on the definition after them.                         *)

AfterHandlerUnsaved(kind) == IF kind = "gather" THEN "append" ELSE "record" \* mutant
AfterHandler(kind) ==
    CASE kind = "gather"        -> "append"
      [] kind = "require_human" -> "set"
      [] OTHER                  -> "record"

AfterRecordNoGate(kind) ==                        \* mutant: gate not recorded
    IF kind \in {"gather", "judge", "check_readiness"} THEN "done" ELSE "append"
AfterRecord(kind) == IF kind = "gather" THEN "done" ELSE "append"

After(kind, phase) ==
    CASE phase \in {"handle", "delivered"}         -> AfterHandler(kind)
      [] phase = "documents"                      -> "record"
      [] phase = "record"                         -> AfterRecord(kind)
      [] phase = "append" /\ kind = "gather"      -> "record"
      [] phase = "append" /\ kind # "gather"      -> "done"

(* evaluateReadiness over the gathered bundle: every required input is     *)
(* there with a value, and none breaks its min, max or pattern.            *)
NullCounts(r) ==                                  \* mutant: null is a value
    \A i \in RequiredInputs : \E g \in gathered[r] : g.input = i
Ready(r) ==
    /\ \A i \in RequiredInputs : \E g \in gathered[r] : g.input = i /\ g.value # "null"
    /\ \A g \in gathered[r] : g.value # "out_of_range"

(* What the run does when the current step is over.                        *)
OutcomeWithoutHalt(r) ==                          \* mutant: no return at the gate
    IF Current(r).kind = "check_readiness" /\ ~Ready(r) THEN "not_ready" ELSE "handle"
Outcome(r) ==
    IF Current(r).kind = "require_human" THEN "halted"
    ELSE IF Current(r).kind = "check_readiness" /\ ~Ready(r) THEN "not_ready"
    ELSE IF step[r] = Len(Recipe) THEN "completed"
    ELSE "handle"

GoTo(r, phase) == pc' = [pc EXCEPT ![r] = phase]

MoveOn(r) ==
    LET next == After(Current(r).kind, pc[r])
    IN IF next # "done" THEN GoTo(r, next) /\ UNCHANGED step
       ELSE /\ GoTo(r, Outcome(r))
            /\ step' = [step EXCEPT ![r] = IF Outcome(r) = "handle" THEN @ + 1 ELSE @]

-----------------------------------------------------------------------------
(* The request: getRubric finds a rubric, then run_started is appended.    *)

Request(r) ==
    /\ pc[r] = "new"
    /\ Releases[version] # Withdrawn
    /\ \E a \in Approvers : approver' = [approver EXCEPT ![r] = a]
    /\ GoTo(r, "started")
    /\ UNCHANGED <<version, step, review, custodyVars, bagVars, outsideVars>>

Event(r, kind, refs, docs) ==
    events' = [events EXCEPT ![r] =
                 Append(@, [kind |-> kind, refs |-> refs, docs |-> docs])]

RunStarted(r) ==
    /\ pc[r] = "started"
    /\ Event(r, "run_started", {}, {})
    /\ GoTo(r, "handle")
    /\ UNCHANGED <<version, approver, step, review, recorded, unrecorded,
                   bagVars, outsideVars>>

-----------------------------------------------------------------------------
(* Handlers of the generic steps.                                          *)

Retrieve(r) ==
    /\ pc[r] = "handle"
    /\ Current(r).kind \in Retrieval
    /\ \E hit \in IF Current(r).kind = "query_table" THEN {FALSE} ELSE BOOLEAN :
          found' = [found EXCEPT ![r] = hit]
    /\ MoveOn(r)
    /\ UNCHANGED <<version, approver, review, sections, gathered, verdict,
                   custodyVars, outsideVars>>

ReviewByLastStep(r, b) == review' = [review EXCEPT ![r] = b]   \* mutant
Escalate(r, b) == review' = [review EXCEPT ![r] = @ \/ b]

(* validateSection: gaps and errors are found in the rows there are.       *)
Defective(content) == content = "defects"

PutSection(r, content) ==
    /\ sections' = [sections EXCEPT ![r] =
                      @ \cup {[id |-> Current(r).id, section |-> Current(r).section,
                               content |-> content]}]
    /\ Escalate(r, Defective(content))

(* The model's rows are clean, have gaps or errors, or are not there: an   *)
(* answer that does not parse counts as no rows.                           *)
Generate(r) ==
    /\ AtHandler(r, "generate_section")
    /\ \E content \in {"clean", "defects", "empty"} : PutSection(r, content)
    /\ MoveOn(r)
    /\ UNCHANGED <<version, approver, found, gathered, verdict, custodyVars, outsideVars>>

(* Re-affirms the validation of the first bag entry for the section; a     *)
(* section nobody generated is validated as one without rows.              *)
Affirmed(r) ==
    LET prior == {i \in 1 .. step[r] - 1 :
                     \E s \in sections[r] : /\ s.id = Recipe[i].id
                                            /\ s.section = Current(r).section}
    IN IF prior = {} THEN "empty"
       ELSE LET first == CHOOSE i \in prior : \A j \in prior : i <= j
            IN (CHOOSE s \in sections[r] : s.id = Recipe[first].id).content

Validate(r) ==
    /\ AtHandler(r, "validate_section")
    /\ PutSection(r, Affirmed(r))
    /\ MoveOn(r)
    /\ UNCHANGED <<version, approver, found, gathered, verdict, custodyVars, outsideVars>>

(* assembleTrajectory reads the trace by correlation id.  recall_prior     *)
(* names its document type whether or not it recalled anything.            *)
TraceOf(r) == {t \in trace : t.corr = CorrelationOf[r]}

ConsultedIfAsked(rows) == {t.step : t \in rows}   \* mutant: empty hits count
Consulted(rows) ==
    {t.step : t \in {u \in rows : \/ u.kind = "recall_prior" /\ u.status = "ok"
                                  \/ u.kind = "retrieve_sections" /\ u.hit}}

TrajectoryPassed(r) ==
    /\ TraceOf(r) # {}
    /\ RequiredSources \subseteq Consulted(TraceOf(r))

(* The model's bits, weighed by scoreRubric: the critical gate and the     *)
(* threshold hold or not, and a major criterion may fail all the same.     *)
Judge(r) ==
    /\ AtHandler(r, "judge")
    /\ \E bits \in {"pass", "major_fail", "fail"} :
          LET approved == bits # "fail" /\ TrajectoryPassed(r)
          IN /\ verdict' = [verdict EXCEPT ![r] = IF approved THEN "approved" ELSE "refused"]
             /\ Escalate(r, ~approved \/ bits = "major_fail")
    /\ MoveOn(r)
    /\ UNCHANGED <<version, approver, found, sections, gathered, custodyVars, outsideVars>>

-----------------------------------------------------------------------------
(* gather, check_readiness, export and act.                                *)

Artifact(r, what) == [run |-> r, what |-> what]

(* One provider answers and its result is stored under its content's hash. *)
(* When another provider has thrown, Promise.all has rejected already, and *)
(* the artifact is stored all the same.                                    *)
StoreArtifact(r, i) ==
    /\ pc[r] \in {"handle", "failed"}
    /\ Current(r).kind = "gather"
    /\ i \in Current(r).requests
    /\ Artifact(r, i) \notin artifacts
    /\ artifacts' = artifacts \cup {Artifact(r, i)}
    /\ \E v \in {"ok", "null", "out_of_range"} :
          gathered' = [gathered EXCEPT ![r] = @ \cup {[input |-> i, value |-> v]}]
    /\ UNCHANGED <<version, approver, pc, step, review, found, sections, verdict,
                   custodyVars, trace, drafts, seen, outbox>>

FirstStored(r) ==                                 \* mutant: Promise.race
    \E i \in Current(r).requests : Artifact(r, i) \in artifacts
AllStored(r) == \A i \in Current(r).requests : Artifact(r, i) \in artifacts

GatherJoin(r) ==
    /\ AtHandler(r, "gather")
    /\ AllStored(r)
    /\ MoveOn(r)
    /\ UNCHANGED <<version, approver, review, custodyVars, bagVars, outsideVars>>

CheckReadiness(r) ==
    /\ AtHandler(r, "check_readiness")
    /\ MoveOn(r)
    /\ UNCHANGED <<version, approver, review, custodyVars, bagVars, outsideVars>>

Export(r) ==
    /\ AtHandler(r, "export")
    /\ artifacts' = artifacts \cup {Artifact(r, Current(r).id)}
    /\ MoveOn(r)
    /\ UNCHANGED <<version, approver, review, custodyVars, bagVars, trace, drafts,
                   seen, outbox>>

(* makeActioner: refused without an independent approver, a duplicate when *)
(* the key was delivered; else the transport is awaited, then the key kept. *)
Key(r) == <<CorrelationOf[r], Current(r).id>>
Gated(r) == approver[r] \in {NoUser, AuthorOf[r]}

ActAnswered(r) ==
    /\ AtHandler(r, "act")
    /\ Gated(r) \/ Key(r) \in seen
    /\ Escalate(r, Gated(r))
    /\ MoveOn(r)
    /\ UNCHANGED <<version, approver, custodyVars, bagVars, outsideVars>>

KeptBefore(r) == seen \cup {Key(r)}     \* mutant: kept before it is sent
KeptAtSend(r) == seen
ActSend(r) ==
    /\ AtHandler(r, "act")
    /\ ~Gated(r) /\ Key(r) \notin seen
    /\ seen' = KeptAtSend(r)
    /\ GoTo(r, "delivering")
    /\ UNCHANGED <<version, approver, step, review, custodyVars, bagVars, trace, artifacts,
                   drafts, outbox>>

(* The transport delivers, and may still report a failure.                 *)
Deliver(r) ==
    /\ pc[r] = "delivering"
    /\ outbox' = Append(outbox, [key |-> Key(r), run |-> r])
    /\ \E phase \in {"delivered", "failed"} : GoTo(r, phase)
    /\ UNCHANGED <<version, approver, step, review, custodyVars, bagVars, trace,
                   artifacts, drafts, seen>>

KeepKey(r) ==
    /\ pc[r] = "delivered"
    /\ seen' = seen \cup {Key(r)}
    /\ MoveOn(r)
    /\ UNCHANGED <<version, approver, review, custodyVars, bagVars, trace, artifacts,
                   drafts, outbox>>

-----------------------------------------------------------------------------
(* require_human: persistDraft reads the rubric again, inserts the set and *)
(* then one document per validated section, each in its own statement.     *)

RequireHuman(r) ==
    /\ AtHandler(r, "require_human")
    /\ MoveOn(r)
    /\ UNCHANGED <<version, approver, review, custodyVars, bagVars, outsideVars>>

PersistSet(r) ==
    /\ pc[r] = "set"
    /\ Releases[version] # Withdrawn
    /\ drafts' = drafts \cup {[run |-> r, corr |-> CorrelationOf[r],
                               author |-> AuthorOf[r], rubric |-> Releases[version],
                               verdict |-> verdict[r], docs |-> {}]}
    /\ GoTo(r, "documents")
    /\ UNCHANGED <<version, approver, step, review, custodyVars, bagVars, trace,
                   artifacts, seen, outbox>>

SectionIds(r) == {s.id : s \in sections[r]}
DraftOf(r) == CHOOSE d \in drafts : d.run = r
DocsOf(r) == IF \E d \in drafts : d.run = r THEN DraftOf(r).docs ELSE {}

PersistDocument(r) ==
    /\ pc[r] = "documents"
    /\ \E i \in Steps :
          /\ Recipe[i].id \in SectionIds(r) \ DocsOf(r)
          /\ \A j \in 1 .. i - 1 : Recipe[j].id \notin SectionIds(r) \ DocsOf(r)
          /\ drafts' = (drafts \ {DraftOf(r)}) \cup
                        {[DraftOf(r) EXCEPT !.docs = @ \cup {Recipe[i].id}]}
    /\ UNCHANGED <<version, approver, pc, step, review, custodyVars, bagVars, trace,
                   artifacts, seen, outbox>>

Persisted(r) ==
    /\ pc[r] = "documents"
    /\ SectionIds(r) \subseteq DocsOf(r)
    /\ MoveOn(r)
    /\ UNCHANGED <<version, approver, review, custodyVars, bagVars, outsideVars>>

-----------------------------------------------------------------------------
(* The trace row, the custody event, and what may go wrong.                *)

Row(r, status) ==
    [corr |-> CorrelationOf[r], run |-> r, step |-> Current(r).id,
     kind |-> Current(r).kind, status |-> status,
     hit |-> status = "ok" /\ found[r]]

(* A row that cannot be written is logged and forgotten.  Only rows of     *)
(* retrieval nodes are ever read back, so only those are kept here.        *)
WriteRow(r, status) ==
    \/ Current(r).kind \in Retrieval /\ trace' = trace \cup {Row(r, status)}
    \/ UNCHANGED trace

Record(r) ==
    /\ pc[r] = "record"
    /\ WriteRow(r, "ok")
    /\ MoveOn(r)
    /\ UNCHANGED <<version, approver, review, custodyVars, bagVars, artifacts, drafts,
                   seen, outbox>>

EventType(kind) ==
    CASE kind = "generate_section" -> "generation"
      [] kind = "judge"            -> "judge"
      [] kind = "query_table"      -> "sql_query"
      [] kind = "check_readiness"  -> "readiness_gate"
      [] kind = "gather"           -> "gather_complete"
      [] kind = "export"           -> "document_finalized"
      [] kind = "act"              -> "action_taken"
      [] kind = "require_human"    -> "human_decision"
      [] OTHER                     -> "retrieval"

Consumed(r) == {Artifact(r, g.input) : g \in gathered[r]}

Refs(r) ==
    CASE Current(r).kind = "gather" -> {Artifact(r, i) : i \in Current(r).requests}
      [] Current(r).kind = "generate_section" -> Consumed(r)
      [] Current(r).kind = "export" -> {Artifact(r, Current(r).id)}
      [] OTHER -> {}

StepEvent(r) ==
    Event(r, EventType(Current(r).kind), Refs(r),
          IF Current(r).kind = "require_human" THEN DocsOf(r) ELSE {})

AppendStep(r) ==
    /\ pc[r] = "append"
    /\ StepEvent(r)
    /\ Escalate(r, Outcome(r) = "not_ready")
    /\ MoveOn(r)
    /\ UNCHANGED <<version, approver, recorded, unrecorded, bagVars, outsideVars>>

(* The append throws, with or without the event in the ledger.             *)
AppendFails(r) ==
    /\ pc[r] \in {"started", "append"}
    /\ \/ UNCHANGED events
       \/ pc[r] = "started" /\ Event(r, "run_started", {}, {})
       \/ pc[r] = "append" /\ StepEvent(r)
    /\ GoTo(r, "failed")
    /\ UNCHANGED <<version, approver, step, review, recorded, unrecorded, bagVars,
                   outsideVars>>

(* A handler, the persistence or the transport throws: an error row.       *)
Throw(r) ==
    /\ pc[r] \in {"handle", "delivering", "set", "documents"}
    /\ WriteRow(r, "error")
    /\ GoTo(r, "failed")
    /\ UNCHANGED <<version, approver, step, review, custodyVars, bagVars, artifacts,
                   drafts, seen, outbox>>

(* POST /api/v1/rubrics/update: the release replaces the cached rubrics in *)
(* one synchronous piece, then the event is appended.                      *)
UpdateRubrics ==
    /\ version < Len(Releases)
    /\ version' = version + 1
    /\ unrecorded' = unrecorded \cup {version'}
    /\ UNCHANGED <<approver, pc, step, review, events, recorded, bagVars, outsideVars>>

RecordUpdate(v) ==
    /\ v \in unrecorded
    /\ unrecorded' = unrecorded \ {v}
    /\ recorded' \in {recorded, recorded \cup {v}}
    /\ UNCHANGED <<version, approver, pc, step, review, events, bagVars, outsideVars>>

(* The process dies and is started again.  The default store of delivered  *)
(* keys is the process's memory.                                           *)
Crash ==
    /\ \E r \in Runs : pc[r] \in Live
    /\ pc' = [r \in Runs |-> IF pc[r] \in Live THEN "dead" ELSE pc[r]]
    /\ unrecorded' = {}
    /\ seen' = {}
    /\ UNCHANGED <<version, approver, step, review, events, recorded, bagVars, trace,
                   artifacts, drafts, outbox>>

-----------------------------------------------------------------------------
Handler(r) ==
    \/ Retrieve(r) \/ Generate(r) \/ Validate(r) \/ Judge(r)
    \/ GatherJoin(r) \/ CheckReadiness(r) \/ Export(r)
    \/ ActAnswered(r) \/ ActSend(r) \/ Deliver(r) \/ KeepKey(r)
    \/ RequireHuman(r) \/ PersistSet(r) \/ PersistDocument(r) \/ Persisted(r)
    \/ \E i \in Inputs : StoreArtifact(r, i)

RunStep(r) ==
    \/ RunStarted(r) \/ Handler(r) \/ Record(r)
    \/ AppendStep(r) \/ AppendFails(r) \/ Throw(r)

Next ==
    \/ \E r \in Runs : Request(r) \/ RunStep(r)
    \/ UpdateRubrics
    \/ \E v \in unrecorded : RecordUpdate(v)
    \/ Crash

Spec == Init /\ [][Next]_vars

-----------------------------------------------------------------------------
(* Every variable keeps its type.                                          *)
Sections == [id : StepIds, section : STRING, content : {"clean", "defects", "empty"}]
Artifacts == [run : Runs, what : Inputs \cup StepIds]
EventTypes == {"run_started"} \cup {EventType(k) : k \in Kinds}
Correlations == {CorrelationOf[r] : r \in Runs}
DraftSets == [run : Runs, corr : Correlations, author : {AuthorOf[r] : r \in Runs},
              rubric : {Releases[v] : v \in DOMAIN Releases}, verdict : {"none", "approved", "refused"},
              docs : SUBSET StepIds]
RunSteps == [corr : Correlations, run : Runs, step : StepIds, kind : Retrieval,
             status : {"ok", "error"}, hit : BOOLEAN]

TypeOK ==
    /\ version \in DOMAIN Releases
    /\ unrecorded \subseteq DOMAIN Releases /\ recorded \subseteq DOMAIN Releases
    /\ approver \in [Runs -> Approvers \cup {NoUser}]
    /\ pc \in [Runs -> {"new"} \cup Live \cup Ended]
    /\ step \in [Runs -> Steps]
    /\ found \in [Runs -> BOOLEAN] /\ review \in [Runs -> BOOLEAN]
    /\ sections \in [Runs -> SUBSET Sections]
    /\ gathered \in [Runs -> SUBSET [input : Inputs,
                                      value : {"ok", "null", "out_of_range"}]]
    /\ verdict \in [Runs -> {"none", "approved", "refused"}]
    /\ events \in [Runs -> Seq([kind : EventTypes, refs : SUBSET Artifacts,
                                 docs : SUBSET StepIds])]
    /\ artifacts \subseteq Artifacts
    /\ trace \subseteq RunSteps /\ drafts \subseteq DraftSets
    /\ \A i \in DOMAIN outbox : outbox[i].run \in Runs

(* One custody event per executed step (docs/07:25), in recipe order: a    *)
(* run that goes on has recorded every step before the current one, and no *)
(* run, however it ended, has a step missing, doubled or out of order.     *)
Recorded(r) ==
    \/ pc[r] \in {"halted", "not_ready", "completed"}
    \/ pc[r] = "record" /\ Current(r).kind = "gather"

OneEventPerStep ==
    \A r \in Runs :
       /\ \A i \in DOMAIN events[r] :
             /\ i <= step[r] + 1
             /\ events[r][i].kind = IF i = 1 THEN "run_started"
                                    ELSE EventType(Recipe[i - 1].kind)
       /\ pc[r] \notin {"new", "started", "failed", "dead"} =>
             Len(events[r]) = step[r] + IF Recorded(r) THEN 1 ELSE 0

(* A human_decision event of a run names a draft that exists, whole: the   *)
(* set of that run's author and correlation with a document for every      *)
(* section in the bag.                                                     *)
DecisionNamesDraft ==
    \A r \in Runs : \A i \in DOMAIN events[r] :
       events[r][i].kind = "human_decision" =>
          \E d \in drafts : /\ d.run = r /\ d.corr = CorrelationOf[r]
                            /\ d.author = AuthorOf[r] /\ d.verdict = verdict[r]
                            /\ d.docs = SectionIds(r)
                            /\ events[r][i].docs = d.docs

(* The event of the step a row is of is in the chain of the run that wrote *)
(* the row, or is due there, or failed to come and ended that run.         *)
InChain(t) == \E i \in Steps : Recipe[i].id = t.step /\ i + 1 \in DOMAIN events[t.run]
DueInChain(t) == Current(t.run).id = t.step /\ pc[t.run] \in {"append", "failed", "dead"}

(* No approval without looking: when rows of the trace are lost, empty, of *)
(* a failed step or not there yet, the verdict is not an approval.  The    *)
(* rows are those of the correlation, so a rerun may be approved on what   *)
(* the run it repeats has read (executor.ts:249 speaks of "the very run"): *)
(* what a run has read itself is in its chain, and what the other has read *)
(* is in the other's, unless that one is at, or ended at, the very append. *)
VerdictEarned ==
    \A r \in Runs : verdict[r] = "approved" =>
       /\ TraceOf(r) # {}
       /\ \A s \in RequiredSources : \E t \in TraceOf(r) :
             /\ t.step = s /\ t.status = "ok" /\ (t.hit \/ t.kind = "recall_prior")
             /\ InChain(t) \/ (t.run # r /\ DueInChain(t))

(* The chain of a run tells the steps it took, and the draft they made.    *)
EventsTellTheRun == OneEventPerStep /\ DecisionNamesDraft

(* Whatever forced a review at one step still forces it when the run ends. *)
MustReview(r) ==
    \/ pc[r] = "not_ready"
    \/ verdict[r] = "refused"
    \/ \E s \in sections[r] : s.content = "defects"
    \/ Gated(r) /\ \E i \in DOMAIN events[r] : events[r][i].kind = "action_taken"

FailureForcesReview ==
    \A r \in Runs :
       pc[r] \in {"halted", "not_ready", "completed"} /\ MustReview(r) => review[r]

(* The thinker is fed by the gate: behind check_readiness, a generation    *)
(* event commits to an artifact for every required input, gathered by this *)
(* run with a usable value.                                                *)
GenerationIsSupplied ==
    \A r \in Runs : \A i \in DOMAIN events[r] :
       events[r][i].kind = "generation" =>
          \A n \in RequiredInputs :
             /\ Artifact(r, n) \in events[r][i].refs
             /\ [input |-> n, value |-> "ok"] \in gathered[r]

(* verifyDagReferences never reports a broken reference: every artifact an *)
(* event names was stored before the event was chained.                    *)
DagInputs(event) == event.refs
VerifyArtifact(id) == id \in artifacts     \* its body has its hash: rows are only inserted
VerifyDagReferences(r) ==
    {i \in DOMAIN events[r] : \E id \in DagInputs(events[r][i]) : ~VerifyArtifact(id)}
ReferencesResolve == \A r \in Runs : VerifyDagReferences(r) = {}

(* What a step produces is only used behind its gate, from what is stored, *)
(* and a gate that refuses forces a review.                                *)
GatesHold == GenerationIsSupplied /\ ReferencesResolve /\ FailureForcesReview

(* The key of a delivery is kept: while it is not, the run that delivered  *)
(* has yet to keep it or was told of a failure, or the process has died.   *)
Kept(d) ==
    \/ d.key \in seen
    \/ Key(d.run) = d.key /\ pc[d.run] \in {"delivered", "failed"}
    \/ \E r \in Runs : pc[r] = "dead"

(* What custody says was sent was delivered, though the key may have been  *)
(* found and not sent: an action_taken event of a run that was not refused *)
(* has a delivery under its key, also when sends overlap, fail after       *)
(* delivering, or a restart forgets the keys.  No run delivers twice under *)
(* one key, none without an approver who is not its author, and a key that *)
(* was delivered is kept.  Two runs of one correlation may both deliver:   *)
(* when their sends overlap, or the first's was reported as failed, or     *)
(* forgotten.                                                              *)
SendsAreDelivered ==
    /\ \A r \in Runs : \A i \in DOMAIN events[r] :
          events[r][i].kind = "action_taken" /\ ~Gated(r) =>
             \E n \in DOMAIN outbox :
                outbox[n].key = <<CorrelationOf[r], Recipe[i - 1].id>>
    /\ \A m, n \in DOMAIN outbox : outbox[m] = outbox[n] => m = n
    /\ \A n \in DOMAIN outbox : approver[outbox[n].run] \notin {NoUser, AuthorOf[outbox[n].run]}
    /\ \A n \in DOMAIN outbox : Kept(outbox[n])
=============================================================================
