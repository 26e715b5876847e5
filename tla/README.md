# TLA+ verification of the document agent

The repository is an agent that answers questions about a quality-management
corpus and drafts controlled documents from it. A draft is generated by a recipe
of steps, judged against a rubric, halted for a human, and dispositioned by
somebody other than its author; everything it does is chained into a custody
ledger. This directory holds TLA+ modules of that program, the TLC
configurations that model-check them on small instances, and proofs that the
TLA+ proof system checks for every instance.

`PROJECT.json` lists the components, the runs, the lines of source each
definition translates, the hazards and the theorems.

## 1. Inventory

| Part | State it keeps | Operations | Hard behaviour |
|---|---|---|---|
| Custody ledger (`custody/ledger.ts`) | `custody_events`: one hash chain per domain | `appendEvent`, `verifyChain` | several processes on one database, rollback, lost acknowledgements, crash between commit and mirror |
| Provenance sinks (`custody/sink.ts`) | the external service's envelopes | `write` after the commit | timeouts, late delivery, required and advisory sinks |
| Anchors (`custody/anchor.ts`) | `custody_anchors` | `anchorHead` | reads the head without the lock appends take |
| Artifacts, DAG references (`custody/artifacts.ts`, `dag.ts`) | `custody_artifacts`, by content hash | `putArtifact`, `recordGather`, `verifyDagReferences` | parallel producers, orphans of a failed gather |
| Recipe executor (`drafting/executor.ts`, `recipe.ts`, handlers) | the output bag of a run | eleven kinds of step | every await may throw; trace row, event and persistence come in different orders; reruns share the correlation id |
| Run trace (`data/trace-store.ts`, `agent/instrument.ts`) | `agent_run_steps` | insert, read by correlation | writes that fail are swallowed, and the judge relies on the rows |
| Rubric cache and release (`drafting/rubric-*.ts`, `api/routes/rubrics.ts`) | cached rubrics, the release ref | load, update, restore | swapped under runs that are in flight |
| Draft store (`drafting/persist.ts`) | `draft_sets`, `draft_documents` | insert at the halt | no transaction |
| Gather, readiness, export, act (`orchestrator/*`, `drafting/readiness.ts`) | artifacts, delivered keys | fan-out, gate, exporter, actioner | partial failure of the fan-out, double delivery |
| Review (`api/routes/review.ts`, `drafting/human-edit.ts`) | set status, edited rows | disposition with edits | concurrent reviewers, failure between update and event, repeated dispositions |
| Supervisor, Discovery lease (`platform/supervisor.ts`, `discovery/register.ts`) | running agents, launches in flight, the lease | ensure, touch, sweep; register, heartbeat, stop | launch races, sweep against activity, heartbeat against stop |
| DAG history (`platform/trajectory-history.ts`) | step and terminal rows | mirror, reconcile, resume | retries under one key |
| Ask graph (`agent/graph.ts`, `agent/nodes/*`) and its endpoint (`api/routes/ask.ts`) | the graph's state, the event stream to the client | understand, retrieve, plan and run SQL, answer, ground, reconcile, finalize | the client leaves while a node is at work, and the node goes on |
| Query records (`queries.ts`) | one record per query in Redis | load, change, save of the whole record | lost updates, expiry |
| Ingestion (`ingestion/*`), tables (`data/table-loader.ts`) | Qdrant points, physical tables, table registry | discover, delete, convert, supersede, create, register, write, prune | three stores and no transaction, files edited during a run, a failure or crash between any two statements |
| Retrieval (`agent/fusion.ts`, `agent/nodes/retrieve.ts`, `api/routes/data-access.ts`) | none | vector search, fusion of ranked lists, lanes | a lane that fails, points the caller may not see |
| Pure algorithms of drafting (`drafting/dependency.ts`, `section-*.ts`, `scoring.ts`, `rubric-stats.ts`, `trajectory-*.ts`) | approved prerequisites | plan, validation, scoring, statistics, what a run had to consult | cycles, precedence, boundaries, missing evidence |
| Pure algorithms of answering (`data/*`, `agent/grounding.ts`, `compose-exact.ts`, `intent.ts`, `classifier.ts`) | none | schema of a table, grounding, query, exact answer; verbs, types, capability | spelling, types inferred from text, names inside names |
| Authentication (`api/server.ts`, `api/auth/*`) | refresh tokens and each user's set of them in Redis | login, refresh, logout, the check of every request | several Redis calls and no transaction, keys and sets that run out |
| Labels (`identity/*`, `ingestion/frontmatter.ts`) | policy files | a document's labels, a caller's labels | a class nobody knows |
| Clients, configuration | connections | | |

How they interact: `ask.ts` resolves the rubric, chains `run_started` and calls
the executor; the executor calls handlers, writes trace rows, chains one event
per step through `appendEvent`, stores artifacts and, at the halt, the draft;
the judge reads the trace back; `review.ts` reads the draft, updates it and
chains what the reviewer did; `rubrics.ts` swaps the rubric cache of the same
process; every append mirrors to the sinks.

What makes each part correct, in the order of the plan: the chain is one history
per domain and nobody can tell it otherwise (ledger, sinks, anchors); what
custody and the draft tables say of a run is what the run did, and no failure
buys an approval or skips a review (executor); a status or an edited value is
explained by custody and approval is independent (review); one agent per
capability and none destroyed in use (supervisor); replay starts at a step that
succeeded (DAG history); no document disappears or survives its source
(ingestion); what is judged by is what is on disk and what is accepted can be
routed to (rubrics); one session per user, and nothing revoked comes back
(authentication); an exact answer is the rows it was asked for, and a question
finds what its caller may see (answering).

## 2. Modules

| Module | Models | Composed with |
|---|---|---|
| `CustodyChain` | hashing, head, slices, `verifyChain` as operators on sets of rows | |
| `CustodyLedger` | concurrent `appendEvent`, sinks, anchors, dossiers, crashes | extends `CustodyChain` |
| `CustodyLog` | the abstract promise: an append-only log per domain; every call is answered at most once, an "ok" only if its event is in the log | implemented by `CustodyLedger` |
| `DraftRun` | concurrent runs of a recipe with the trace, rubric cache, artifacts, draft tables, actioner | takes from `CustodyLedger` that an append adds the event once or fails with or without it |
| `ReviewDisposition` | concurrent dispositions with human edits | the same |
| `AskRun` | one request of the ask endpoint: the route and the graph's nodes as two actors, the query record, the chain, the trace | the same |
| `Ingestion` | runs over a source that changes, with the points, tables and registry they leave | |
| `RubricRules`, `RubricSet`, `RubricDrafts` | what a rubric file must be; directory, cache, alias index and a release update write by write; drafts saved, re-validated and exported meanwhile | each extends the one before |
| `AgentLease`, `AgentPlatform` | agents and their lease with Discovery over a network that loses and reorders; Supervisor and resolver on top of them | `AgentPlatform` extends `AgentLease` |
| `Sessions` | login, refresh, logout and the check of every route, call by call | |
| `DocumentPlan`, `SectionRules`, `RubricStatistics`, `TrajectoryRules` | prerequisites and plan; a section's fields and formulas; scoring and k-pass statistics; what a run had to consult | instances in `MCRules`; `DraftRun_proofs` extends the last two |
| `TableRules`, `TableQuery`, `TableAnswers` | a column from cell to schema and stored value, grounding; the query, its answer and what is said of it; a table that is loaded and asked, as a state machine of cases | each extends the one before; `MCRules` and `AskRun_proofs` extend `TableAnswers` |
| `Chunking` | cutting of documents | `MCRules` and `Ingestion_proofs` extend it |
| `Retrieval` | vector search, fusion, lanes | instance in `MCRules` |
| `Texts`, `RequestRouting`, `DocumentScope` | words in texts; intent, classification, capability, derivations; frontmatter, subject, labels, coverage | instances in `MCRules`; `Ingestion_proofs` extends `DocumentScope`, `AskRun_proofs` `RequestRouting` |
| `TrajectoryHistory` | the DAG history as a state machine of arriving writes, in any order and repeated | `MCRules` and `AgentPlatform_proofs` extend it |
| `CustodyLedger_proofs`, `DraftRun_proofs`, `ReviewDisposition_proofs`, `AskRun_proofs`, `Ingestion_proofs`, `RubricDrafts_proofs`, `AgentPlatform_proofs`, `Sessions_proofs` | theorems | each extends its module; `AgentPlatform_proofs` has also those of `AgentLease` and `TrajectoryHistory`, `RubricDrafts_proofs` of `RubricSet`, `AskRun_proofs` of the tables and of `RequestRouting`, `Ingestion_proofs` of `DocumentScope` and `Chunking`, `DraftRun_proofs` of `RubricStatistics` and `TrajectoryRules` |
| `MC...` | constants for TLC | |

The executable modules state the pure rules as operators next to their reference
definitions (`RowHolds`, `RetrievalHolds`, ...), and `MCRules` gives them inputs: its
state is one `case`, an area first and then an input of it. Two areas are state machines
of their own: `TableAnswers` builds its case there (`case` is its variable), and
`TrajectoryHistory` runs while the case is "history".

### CustodyLedger

An event's hash is modelled by the sequence of events it commits to: SHA-256 of
`prev_hash || canonical event` is injective on what it hashes, so the hash of a
row and the history behind it determine each other, and `GENESIS_HASH` is the
empty history. `AcquireLock`, `ReadHead`, `Insert`, `Commit` are the statements of
the transaction at READ COMMITTED, `seq` is one bigserial for all domains that is
not given back, `Rollback` and `CommitUnknown` are its failures, `Crash` kills a
process with its open transactions. After the commit a call opens a POST to each
sink; `Deliver` may come after the caller timed out, threw or died. `Dossier` is what
`buildCustodyDossier` puts together of a correlation: its events and the anchor that
covers them.

### DraftRun

`pc` is the phase of the current step. `After` gives the order of handler,
persistence, trace row and custody event for the kind of step, `Outcome` what
the run does next. A handler's data is abstracted to what the properties tell
apart: a retrieval found something or not, a section's rows are clean, defective
or absent, a gathered value is usable, null or out of range, the model's bits
pass, fail a major criterion or fail. `Throw` is the executor's catch clause,
`AppendFails` an append that rejects with or without its event. The trace keeps
only rows of retrieval nodes, since only those are ever read back. `UpdateRubrics`
is `POST /rubrics/update` of the same process.

### ReviewDisposition

One request is `Read`, `Check`, then `UpdateDocument` and `ChainEdit` for each
document with a delta, then `UpdateStatus` and `ChainDecision`. `Fail` is a
rejected await or the death of the process (a request keeps nothing outside its
own locals, so a crash is the failure of each of its requests). The documents
come back in no particular order, and the set is the first one's. `Persist` is a
run that stores more documents meanwhile, a rerun's under the same correlation.

### AskRun

The route and the graph are two actors. The route starts the query, iterates the
graph's stream and answers the client; the graph's node runs on its own, for the
signal of a client that left ends the stream and not the node (`Disconnect`,
`LeaveStream`; the node is then abandoned, and its saves, events and trace row
still come). Each node is load of the record, its calls, its saves, its custody
events, its trace row, in the order of the file; `Throw` is the catch of
`instrument`, `Rethrown` what it does next. A record is loaded, changed and saved
whole, so every actor holds a copy, and `Lose` is its expiry. A plan is told apart
by whether it is the first one or the corrective one, whether it abstained on a term and
whether its filters are grounded (`PlansOf`), a chunk by
whether it is prose or a pointer to a table and whether the caller may see it, an
answer by what it was made from. `GateLength` bounds the tables one decision of the
gate names and `LostRows` the trace rows that could not be written.

### Ingestion

A document's content stands for its hash, its text (one chunk) and the tables in
it, so a content determines `SheetsOf`. `listed` is the snapshot taken at
discovery, and `Edit` changes `source` at any time: `Convert` reads the file
again, under the hash of the snapshot. Stage 4 is one action per statement that
changes a store: delete by path; per table select, drop, mark, create, register,
blurb; the chunks. `FileFails` is the catch clause of the loop, at any of them,
`Crash` the death of the process or a throw outside the loop, and the alternative
of `PrunePoints` the refusal that prune only logs. `touched`, `pruned` and
`purged` are history. `MaxRuns`, `MaxEdits` and `MaxMishaps` bound runs, edits and
failures. A table is known by its sheet's name and its index among the table-like
sheets, and the second version of the workbook moves the index. Section maps are
left out: no configuration in the repository selects the structured chunker, and
the module that would write them is not there under the name it is imported by.

### RubricSet, RubricDrafts

A body stands for the bytes of a file. The update is synchronous, so nothing of the
agent runs between its steps, but the process may die between two writes and another
agent started in the same directory writes the same files (`overlapped` records it).
`at` is the write, the prune of withdrawn files, or the restore: of a release that could not
be written (`restore`), or that the check refused (`revert`), whose restore is tried again
by the catch around it. `RestoreFails` is a restore that throws; `drifted` records that
the cache and the directory may differ, since another agent wrote or a restore
failed. There is one directory, as when `QMS_RUBRICS_DIR` is not set. git is external: a release ref is the directory it holds. In `RubricDrafts` a
request validates against the cache and writes its row in a later statement.

### AgentLease, AgentPlatform

A request to Discovery is a message in `net`; it may be lost, overtaken or answered
late. A card is named by the version of the rubric set, which determines its
fingerprint. `slipped` is history: a card of that agent was lost or overtaken. The
Supervisor runs on one thread, so what it does between two awaits is one action;
`call` is where an `ensureRunning` call stands (`ResolveFails`: Discovery did not answer,
or not ok), `inflight` its map of launches,
`running` its list, `sweep` the loop that awaits each stop. An operator may start an
agent of his own, which is not the Supervisor's (`owned`).

### Sessions

Every call to Redis, to the user table or to the entitlement provider is a step, and any
may fail, which ends the request with what was done left in place. A key runs out at
any time; a set not before the tokens its expiry was set for. `crossed` is history: the
users two of whose requests overlapped, or whose set ran out under one. For those
`storeRefreshToken` and `revokeAllUserTokens` interleave and two tokens may be alive,
since the code takes no lock and uses no transaction. `allowed` notes what was true
of the user at some moment of the request.

### The pure modules

A value, a text or a document is told apart by what the rules tell apart: a cell by
what it reads as, which one and how it is spelled; a text by its pieces of words, so
that one word can lie inside another; a point by its labels and whether it belongs to a
table; a query by the order in which its vector ranks the points. Fractions are kept
as numerator and denominator, and square roots compared by their squares. The references are written
another way than the code: a formula is the sum of its signed products read from its
last operator, a plan is compared with reachability in the graph, the answer of an
exact question with the rows that meet it, a search with the search in a store that
holds only what the caller may see. `EnforceLabels` of `Retrieval` and `AskRun` is
`QMS_ENFORCE_LABELS`; without it every point is found.

## 3. Runs

| Run | Question | Bounds |
|---|---|---|
| `custody_chain` | is each domain's ledger one verifiable history under overlapping calls and failures, do its parts (hashes, anchors, dossiers, slices) attest what they seem to, does it implement `CustodyLog` | four calls by two agents in two domains and two correlations, one anchor. Two writers of one domain with a third behind them is what a fork, a gap or a misplaced head needs |
| `custody_mirror` | does the external record agree with the ledger, does every call end | two calls, a required and an advisory sink |
| `draft_production` | do custody, tables and verdict agree with what two runs of a production recipe did | a run and its rerun; retrieve, generate, judge, halt; a release that withdraws the document type; the runs are symmetric |
| `draft_topology` | gate, artifacts and egress | two runs, whose approver may be nobody independent; gather of two inputs, gate, generate, validate, export, act |
| `review` | does custody explain statuses and edits of concurrent dispositions | three reviewers (approve, reject, rerun), two sets, two documents, a computed and a retrieved field; two of them submit the same value or different ones for one field |
| `ask` | do the chain, the record, the trace and the client agree on how a request went, is a question never answered around a filter that failed grounding, does every request end | one request, two structured tables and a passage the caller may not read, labels enforced; a gate naming up to two tables, in any order and also twice; the client may leave and the record expire at any point |
| `ingest` | does what a search finds lead to the one table of its sheet, does a run that ends repair what earlier ones left, does prune take only what is gone | two paths, two versions of a workbook, two runs, two edits, two failures or crashes. Two of each is what a stale version, a moved path and a second failure during the repair need |
| `rubrics` | does the agent judge by what is on disk, does a refusal put back what it found, is what is accepted unambiguous, can what is exported be released | two files, seven releases (keep, withdraw, replace, collide, duplicate an id, duplicate a type, do not parse), one update, one write by another agent, crashes and failing restores at any point, one draft request under way |
| `rules` | do the pure rules agree with reference definitions | some eight hundred thousand inputs in ten areas: three document types with up to two prerequisites each, rows of three fields, columns of three cells with up to one note, two traced steps against two rules, texts of five pieces, documents of four to seven lines, four points in any order of relevance with labels enforced or not, three history writes of two agents in any order. Each area has the shapes its code branches on; the domain bound, the slack and the lane sizes are scaled down |
| `lease` | is a stale card always explained, does a lost listing heal | two agents, four losses, starts, stops and kills together, two releases |
| `platform` | is nothing the Supervisor began forgotten, is nothing destroyed that was used | two calls of one capability, two agents of one manifest that the Supervisor may launch, requests to Discovery in any order and not answered, one tick, no release. Nothing is lost, killed or started by an operator here (`MaxLost` is 0): the `lease` run has that, and the theorems of section 4 hold for any number. The clock needs two values: used before or within the TTL |
| `sessions` | one session per user, and nothing revoked comes back | two requests at once, three tokens, one user. Users share nothing, so one is enough; the third token is what a second rotation under a stale one needs |

Fairness is assumed in three runs. In `custody_mirror`, statements that were sent
are executed, a POST is over within its 5 s abort, a settled promise resumes its
call; nothing is assumed of failures, crashes, deliveries or anchors. In `ask`,
each call of a node or of the route is answered or fails (`fetch` gives up on a
silent peer) and a settled promise resumes whoever awaits it; nothing is assumed of
the client, who may stay or leave, or of the record. In `lease`, the heartbeat timer
fires (`setInterval`) and a request that is not lost arrives; losses are bounded.
Every other property is one of safety. Deadlock is not checked where a run, a call or a
request ends and nothing is left to do; it is checked in `platform`, which goes on
for ever.

Each property has at least one mutant, a definition marked "mutant" next to the one it
replaces, that shows a bug in the code would be seen.

## 4. Proofs

Every safety invariant and action property that a run checks is also proved, for any
values of the constants, except three of the pure rules (`DocumentsAreDue`,
`SourcesAreFound`, `NamesBind`), of which parts are proved. Each proof has
the same shape: an inductive invariant made of named parts, one lemma or step per action
and part, and theorems that draw the checked properties from it.

What is assumed is what the modules `ASSUME`: that ids of different things differ, that
the constants have their types, that a recipe is one the loader accepts
(`ValidRecipe`), that no content hash is a table's id (`IngestionAssumption`), that `None`
is none of the values it stands beside (`NullAssumption`, `TableAssumption`,
`HistoryAssumption`), that the slack of a chunk is a natural number
(`ChunkingAssumption`). TLC evaluates each of these in the run of the
module. Two theorems, `GatesHoldAlways` and `ForbiddenIsNeverApproved`, have a hypothesis
of their own, as has `SelectionIsOfWhatIsDrafted` (below).

Two definitions are recursive functions: the total of a column (`SumTo`) and the rounds of
`ChunkBySemantic`. The theorems of the library on recursion take operators, which the
provers cannot instantiate. That there is such a function, and what it yields at every
place, is proved from the least place where it would fail (`WFMin` on the naturals).

### CustodyLedger

`CustodyLedger_proofs`, for any sets of calls, agents, domains, correlations and sinks:

* `TypeCorrect`: the type invariant.
* `DomainVerifiesAlways`: `verifyChain` over a domain never reports a break.
* `AppendOnlyAlways`: rows are only added, in seq order within a domain.
* `MirrorAgreesAlways`, from `MirrorIsInLedgerAlways` and `ReturnedIsRecordedAlways`.
* `PartsAttestAlways`: a hash commits to its whole history, a signed anchor is of a
  row that stays, dossier and slice agree with the whole.
* `LedgerImplementsLog`: every step of `CustodyLedger` is a step of `CustodyLog` or
  a stutter, under the mapping of the heads to logs.

`DomainVerifies` is not inductive: it says nothing of calls inside their
transaction. The invariant `ChainInvariant` adds that a call inside its
transaction holds its domain's lock, that what such a call read is still the
head of the committed rows, that the row it inserted has a seq above every
committed row of its domain and below the sequence, and that each committed row's
predecessor is the hash of the row before it. `LatestUnique` and its companions
do the set reasoning about "the row before". `MirrorInvariant` ties a POST's
state to the call's phase. `PartsInvariant` says that the rows of a domain are finite,
that any of them have an oldest and a newest, that a hash is the sequence of the
events up to its row, and that hashes grow with seq; `HistoryContinues` shows that a row
naming the head keeps this. Hashes are modelled as the sequence they commit to, so
collisions are assumed away. `AnchorInvariant` says what was signed is a committed row.
The refinement needs all of them: a commit appends exactly one event to one log.

### ReviewDisposition

`ReviewDisposition_proofs` proves from `ReviewAssumption`, for any number of
requests, sets and documents and any submitted edits, every invariant of the
`review` run:

* `DispositionTypes`: `TypeOK`. `PhaseInv` adds where a request stands: nothing is
  decided, edited or chained before its check, and a document it updated and has
  not chained is none it already chained.
* `DecisionsExplainedAlways`: `StatusIsExplained`. `DecisionInv` adds that what
  the check established of its target stays true, and that a status has left
  `pending_review` before its decision is chained and never goes back.
* `EditsAreKeptAlways`, from `EditsChainedAlways` and `OriginalsPreservedAlways`.
  Neither is inductive, for a reviewer's update writes back
  stale values of other fields. `ProvenanceInv` says the same of every row a
  request has *read* as of the stored rows: a value that is not the original has
  a request that wrote the document whose delta leads to it, and one whose delta
  starts from the original; and a request's delta never changes once it wrote.
* `DecisionsSummariseEditsAlways`: `DecisionSummarisesEdits`, by `SummaryInv`: a
  request's ledger has one edit event for each applied document until it chains
  its decision.

### DraftRun

`DraftRun_proofs`, for any valid recipe, any number of runs at once, and any releases,
restarts, providers and failures:

* `DraftTypeCorrect`, `EventsTellTheRunAlways`, `VerdictEarnedAlways`,
  `SendsAreDeliveredAlways`: those properties.
* `ReferencesAndReviews`: what an event refers to is stored, and whatever must force a
  review has, for every recipe.
* `GatesHoldAlways`: `GatesHold`, of which the first part says that a generation had all
  required inputs. The code does not force this: it holds of a recipe with
  `GatedRecipe`, where a `check_readiness` comes before each `generate_section` if any
  input is required, as in the two recipes of the runs. (The two rubrics of the repository
  require no inputs.)

`IInv` adds to the properties where a run can be in a step of each kind (`Placed`),
that a run has one draft, with the verdict and documents that belong to where the run
is (`Drafted`), that a `human_decision` is a run's last event (`Decided`), that each row
of the trace is of a step whose event is in its run's chain, or due there, or what the run
ended at (`RowsAreChained`, by which an approval's evidence is somebody's history), that what
must force a review has done so at once and not only at the end (`ReviewForced`), that
what is gathered is stored before the step's event is due (`Stored`), that every input
has a usable value behind a gate that was passed (`PastGate`), and that the transport
was called for the step a run is in only in the phases after that call
(`Delivered`). The last is what makes an idempotency key, `<<correlation, step>>`, name
one delivery even though a rerun has the same correlation. `FirstOf`, the least element
of a set of naturals, is used for the first trace row of a step.

On how a draft is judged (`RubricStatistics`, `TrajectoryRules`):

* `ApprovedIsJudged`: `ScoringHolds`, for any rubric and any number of runs with any
  verdicts, missing and repeated ones too. That a critical criterion passed at least as
  often as the gate is an injection of the runs into the verdicts that passed.
* `ForbiddenIsNeverApproved`: `JudgingHolds`, of a rubric whose ids differ. Of two
  criteria with one id the last verdict counts for both, and a forbidden text could pass the
  first; `validateRubric` rejects such a rubric (`DuplicateIds` of `RubricRules`).
* `PassingIsProven`: `PassedIsProven`, of any trace and rules: a run that passes has a step
  that brought what it had to consult. A rule's words are looked for anywhere in a path
  (`Includes`) and the property asks for each inside a word of it: a word has no break, so
  where it is found lies in one word (`LiesInAWord`, `WordsAreFoundInWords`).
* `ConsultingMoreIsNoLess`: `MoreIsNoLess`, of any trace and rules.
* `AskedIsJudged`: `AskedHolds`, of any two texts, whose words are finitely many.

### AskRun

`AskRun_proofs`, for any chunks, tables, plans and labels: `AskTypeCorrect`,
`NeverAnsweredAroundAlways`, `RecordsAgreeAlways` and `FailedIsFinalAlways`. The
route and the graph's node write the same record from copies they read earlier, so `IInv`
speaks of the stored record and of both copies alike: `Marked` (an answered one is
complete, a failed one is written only by the route and last), `Answered` (an answer is of
the node that is at work, and after an issue the notice is the only such node),
`Grounded` (what is executed or kept is grounded), `Retrieved` (the chunks of the state
are those in the chain and in the record), `Completed` and `CompletionCloses` (a
completion in the chain is its last event, with the answer of the record), `Closed` (the
record stays what the completion bound, or is that marked as failed with the client told of
an error), and `Traced`.
`Placed` says which node can be at which point, and that the route gives up only when no
node is at work, unless the client has gone.

On the tables that are asked: `AnswersAreTheRowsAlways` proves `AnswersAreTheRows` of
`TableAnswers` for any cells, names, notes and bounds. It is drawn from theorems on the
operators, for columns of any length:

* `QueryIsExact`: the query selects the rows the condition means, of a value the column
  holds as written (`Plain`). That excludes fractions of an integer column, which the code
  truncates toward zero (section 5).
* `GateIsSound`: the grounding gate refuses only what no row answers.
* `PublishedIsFound`: what a column's profile publishes passes the gate and finds its rows.
* `FindingsAreTrue`: a quality finding is true of the rows.
* `AnswersAreTheNumbers`: a composed total is the sum of its parts (`SumTo`), also of counts
  of a column, which skip its empty cells; an extreme is a row's.
* `LegendIsKept`: names of columns and notes of the legend.

On what a request asks for (`RequestRouting`), of any text, and any finite alias index whose
aliases are not empty (`buildAliasIndex` skips those that are):

* `DraftIsWhatWasNamed`: `DraftIsNamed`. The code looks for a name with a break on both
  sides, in the text with one on both sides; that this finds the whole words and nothing else
  is `MentionsIsNames`.
* `MoreWordsKeepTheMeaning`: `SayingMoreKeeps`, from `NamesStay` (what is named is still
  named when more is said) and `Outcomes` (the three results of `classify`).
* `SelectionIsOfWhatIsDrafted`: `SelectionAgrees`, given that the verbs `selectCapability`
  knows are among those of `intent.ts`, as they are.

### Ingestion

`Ingestion_proofs`, for any documents, contents and sheets and any number of
runs, edits and failures: `IngestionTypeCorrect`, `FoundIsCurrentAlways`,
`OnlyTheGoneArePrunedAlways` and `FinishedRunMirrorsSourceAlways`. The first three rest on
`IInv`: what is selected to be superseded is active and is all that is active under the
sheet's key (`Registered`, `Superseding`), a blurb has the row of its table, and in a turn
the file's blurbs are only of sheets that are done (`Pointed`), and the prune notes what it
drops before it marks it (`PruneNotes`). `FinishedRunMirrorsSource` needs what a run has
established so far: `TurnsDone` says of each settled file whose turn is over that its text
and one table per sheet are there, and that its points lead to these and no other
(`FileRead`, `SettledMirrored`, `Led`), of the file in its turn the same for the sheets done
(`TablesMade`, `BlurbsLed`), and of the prune that nothing of a gone
document is left unless the store refused (`RunEnded`).

On what a document is bound to and how it is cut, for any input:

* `DocumentsBindByName`: a document is bound to a project only when it names that one and no
  other. `CoverageIsExact`: who sees more loses no member of a collection, coverage called
  complete is the same for whoever sees more, and an override moves no other document.
* `CutsLoseNothing`: `SemanticHolds` for any text, size and overlap: if the least size is
  larger than overlap and slack, the cutting ends within as many rounds as there are
  characters and loses none. `CutSoFar` is the invariant of the rounds: the next chunk starts
  inside the last and within its least size of its end (`Progress`), from which each round
  gains a character. Without that condition the code need not end: the next start may be
  the last one.
* `WindowsLoseNothing`: `CharactersHold` for any length, size and overlap.

### RubricSet, RubricDrafts

`RubricDrafts_proofs`, for any directories, releases and submitted drafts, with updates,
deaths of the process and another agent writing the same files:
`ServesTheDirectoryAlways`, `RefusalRestoresAlways`, `AcceptedIsUnambiguousAlways` and
`ExportIsReleasableAlways`. `SetInv` adds `Applied`, what of the directory is the release's
already, or the backup's again, in each stage of an update, and `Loaded`: the alias
index is of the cache in the middle of an update too, and what is cached loads whole wherever
it lies (`Loadable`). `ValidSetIsUnambiguous` is the argument why the validation of each
rubric next to the others lets the index be built, and `AllAreLoaded` why a directory of an
exported draft and the set it was checked against leaves none out.

### AgentLease, AgentPlatform

`AgentPlatform_proofs` proves `StaleCardExplainedAlways` (of `AgentLease`) for any agents,
releases and losses. The property speaks of what is listed; the invariant
`OldCardsAreFollowed` says the same of what is under way, and `NoCardAhead` that no card is
of a version to come, so that a newer card overtaking an older one is seen as such.

It proves `NothingIsForgottenAlways` and `DestroyedOnlyIfIdleAlways` for any agents,
calls, capabilities and times, from `LeaseAssumption` and `PlatformAssumption`.
`OneLauncher` makes the entry of a capability and the call that launches name each other,
`StopsAreFinal` adds that an agent whose stop is awaited is not up as the Supervisor's, and
`ClocksAreKept` that the clock the sweep reads is never behind the last use. An agent that is
back under its old guid while its stop is awaited is not `owned` there (section 5).

Of `TrajectoryHistory`, for any agents, numbers and order of arrival, repeated writes
too: `HistoryIsReadAlways` (the first write of each number stays, and the two readers make of
the rows what was sent) and `HistoryMovesOnAlways` (a row is
never changed or lost, whatever arrives).

### Sessions

`Sessions_proofs` proves `RevocationHoldsAlways` and `OneSessionAlways` from
`SessionsAssumption`, for any users, requests and tokens. `SpentStaysSpent` needs
`MadeOnce` (what was ever stored, handed out or given up was made, so that a key that is set
is of a new token) and `Spent` (what a request is about to give up is gone by the time it
makes its new token or has emptied the set); `ServedIsAllowed` needs `Noted`; all need
`Ways`, where a request of each kind may be. `OneSession` needs `SessionOf`: of a user whose
requests never crossed, one request at most changes the session, and what is alive or on its
way to the client is accounted for at each of its steps.

### Model-checked only

Liveness (`EveryCallEnds`, `RequestEnds`, `ListingHeals`) is beyond the prover. Of the
pure rules, these are only checked on bounded inputs:

* `DocumentsAreDue`, of plans, section rows and rates: plans and the meaning of a formula are
  recursive operators (the code recurses there), with which the prover loses its
  arithmetic; rows and square roots are folds, and the provers know nothing of what a fold
  yields.
* `SourcesAreFound`, but for cutting by language and by size: rows, headings and retrieval
  select parts of sequences (`SelectSeq`) and fold.
* `NamesBind`, of the nouns left over in a request (`NothingElseIsNamed`): what is left when
  its aliases are erased is a fold.

## 5. Where code and words differ

Read off the code while modelling it. The models follow the code; a property says what
does hold.

Custody and drafts:

* `ledger.ts:258-261` expects an honest slice to verify. `verifyChain({correlationId})`
  trusts only the first row's predecessor, so two runs that alternate in a domain each
  verify as broken; `SliceVerdict` says exactly when the answer is right.
* `executor.ts:249-253` speaks of the very run, but the trajectory is read by
  correlation id, so a rerun is approved on rows of the run it repeats; see `VerdictEarned`.
* A draft is stored under the rubric cached at the halt, not the one it was judged by
  (`persist.ts:43`, against `rubrics.ts:96-98`).
* The actioner checks its key, awaits the transport and then keeps the key, so two runs
  of a correlation, a delivery reported as failed or a restart send twice
  (`actioner.ts:70-76`); `SendsAreDelivered` is what does hold.
* A section without rows has no gap and no error and forces no review
  (`section-validator.ts:289`).
* A review's map of edited fields is replaced by each round of edits (`review.ts:201`).
  The chained row of a disposition names the author as `user_id`; the approver is only
  in the mirror's envelope (`review.ts:176-184`, `ledger.ts:167-180`), although
  `review.ts:17` says the custody event holds the approver.
* The walk of `dependency.ts:211-226` keys what it has emitted without the domain.
* A step that consults prior decisions counts as consulted though nothing was recalled
  (`trajectory-assemble.ts:83-91`), and a rule about agents always fails, as no node
  records agent calls. The gate of a boolean input takes only "true".
* A "single" section with several rows exports only the first (`exporter.ts:62`).
* `trace-store.ts:40` numbers rows by a subselect of the maximum, which concurrent
  writers of a run may repeat; LLM calls are attached by node name (`runs.ts:130`).

Rubrics and platform:

* `scoring.ts:47-55` says that a malformed pattern must not silently pass; a forbidden
  pattern that does not compile matches nothing, and so passes. `validateRubric`
  reports such a pattern, but what is on disk is loaded without it. `JudgingHolds` is about
  patterns that compile.
* The loader reads the directory of `QMS_RUBRICS_DIR` (`rubric-loader.ts:18`); a release
  writes, and a refusal restores, `rubrics` (`rubric-release.ts:80`). With the variable
  set an update replaces files nobody loads.
* `rubric-release.ts:204-212` puts the directory back "exactly as the snapshot found it";
  when a write of the restore throws, what it had not reached stays, and the cache is that of
  before the update or, after the check, of the refused release (`rubric-release.ts:147-181`).
* `rubric-loader.ts:96` skips a file it cannot parse, so a release is not all or
  nothing as `rubric-release.ts:16-19` has it: `AcceptedIsUnambiguous` says what is.
* `ensureRunning` awaits the resolver before it consults its map of launches, so a caller
  who is told that nothing is live when another's launch has just ended launches again
  (`supervisor.ts:14`, `85-97`). The sweep deletes an entry when the stop it awaits
  resolves: an agent back under its old guid by then runs on and is forgotten
  (`supervisor.ts:125-126`).
* A retried step under its seq keeps the row that came first, an error included
  (`trajectory-history.ts:73`). A heartbeat in flight when an agent deregisters may list
  it again (`register.ts:130`).
* Overlapping requests of one user, and a set that runs out under a request, may leave
  two sessions (`crossed` in `Sessions`).

Answers:

* After a 400 of the data API the query is planned again, and what the second plan
  abstained on is dropped (`sql-retrieve.ts:131-163`). A result is kept before its
  custody event, so an answer may rest on one that was never chained
  (`sql-retrieve.ts:231`). A node that goes on after the client left writes its copy of
  the record over the route's "failed"; a draft-mode record stays "created".
* A fraction compared with an integer column is truncated (`query-builder.ts:216`);
  grounding ignores case while SQL `=` does not; AVG, MIN and MAX of no rows are told as
  0 (`compose-exact.ts:104`); a listing under LIMIT is told as the number that matches
  (`sql-render.ts:116`); all-digit part numbers become integers
  (`table-schema.ts:11-14`); two headers may normalise to one name.
* `selectCapability` and the residue look for substrings, and `subject.ts` takes the
  first alias, not the longest.

Ingestion:

* A docx table is stored with a NULL sheet name and looked up under the empty string, so
  each ingestion of the document adds an active table (`table-loader.ts:197`). The index
  in a table's key moves when a sheet is inserted, so the old table of a later sheet
  stays active, and a sheet removed from a live workbook is never superseded.
* Two files of equal content share their points, and the labels of the last one win
  (`qdrant-writer.ts:104`). A failed table extraction takes the declared classification
  with it (`converters.ts:49`, `pipeline.ts:112`). `pipeline.ts:190` imports a module
  whose file has another name.
* The semantic chunker does not advance when `minSize` is at most `overlap` plus its slack,
  nor the one by characters when the overlap is the size; text below a table's last row
  is dropped by the tabular one; two sections of one heading path violate the key at
  `schema.ts:504-506`. No configuration in the repository does the first two.

## 6. Not modelled

Prompt and answer text, conversion libraries and rendering beyond what a property needs.
The model's and the services' answers are choices of outcome. Password hashing, JWT
signatures and the anchor's cryptography are taken as what they promise. Configuration,
connection set-up and the thin HTTP clients (`services.ts`, `db/*`, `data/*-client.ts`)
hold no state of their own: their failures are the failing steps of the modules that
call them. The entry `partly` of a component in `PROJECT.json` names what of it is left
out. Smoke tests and scripts are read as evidence of what is promised.

## 7. Plan

Done: the custody modules and their refinement, `DraftRun`, `ReviewDisposition`,
`AskRun`, `Ingestion`, the rubric modules, lease and Supervisor, `Sessions`, the pure
rules, and the theorems of section 4. What is left, in order:

1. Of the pure rules, what section 4 leaves to TLC and a fold does not rule out: headings,
   fusion and lanes, the k-pass intervals, the nouns left over in a request.
2. Properties of the action kind beside those of the runs: that a chained event is never
   changed (`DraftRun`, `AskRun`), that a status of a review moves only forward.
3. The lease and the draft's `act` step composed, once an agent's egress depends on it.
