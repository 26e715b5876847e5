--------------------------- MODULE AskRun_proofs ----------------------------
(***************************************************************************)
(* For any chunks, tables and labels, and any plan, failure, loss or       *)
(* disconnection: chain, record, trace and client agree (RecordsAgree),    *)
(* no run answers around a term that could not be mapped                   *)
(* (NeverAnsweredAround), and a failed record is not written again         *)
(* (FailedIsFinal).  Of the exact answer itself, for any table of any      *)
(* length, headers, notes and condition: AnswersAreTheRows.  And of the    *)
(* classification before it, for any request and alias index: what is      *)
(* drafted is what was named, however much more is said.                   *)
(***************************************************************************)
EXTENDS AskRun, TableAnswers, RequestRouting,
        SequenceTheorems, FiniteSetTheorems, WellFoundedInduction, TLAPS

AtWork == at \notin {"idle", "over", "threw"}
Planning == {"plan", "execute", "replan", "retry", "persist", "evidence"}

(* Where the route and the node can be, and what they hold there.          *)
Placed ==
    /\ at = "idle" => node = "understand"
    /\ at = "status" => node \in {"retrieve", "draft", "reconcile"}
    /\ at \in {"search", "retrieval"} => node = "retrieve"
    /\ at \in Planning => node = "sql_retrieve" /\ todo # <<>>
    /\ at \in Planning \ {"plan"} => plan \in Plans
    /\ at = "partial" => node = "draft"
    /\ at = "answer" => node \in Answering
    /\ at \in {"status", "search", "retrieval", "persist", "partial", "answer"} => copy # None
    /\ ~AtWork \/ at = "begin" => copy = None
    /\ handler \in {"begin", "create"} => at = "idle"
    /\ handler \in {"reload", "complete"} => at = "over" /\ node = "finalize"
    /\ handler \in {"complete", "set_error"} => mine # None
    /\ told = "complete" => handler = "ended" /\ at = "over" /\ node = "finalize"
    /\ ~aborted /\ handler \in {"mark", "set_error", "ended"} => ~AtWork

(* A record has an answer when it is complete, and the failed one is the   *)
(* last that the route writes.                                             *)
Marked ==
    /\ \A rec \in {record, copy, mine} \ {None} : rec.status = "complete" => rec.answer # None
    /\ \A rec \in {record, copy} \ {None} : rec.status = "failed" => handler = "ended"
    /\ mine # None => mine.status # "failed"

(* The answer is of the node that is there to answer, and after an issue   *)
(* the notice is the only such node.                                       *)
Answered ==
    /\ state.issues # {} => \/ node \in {"grounding_notice", "finalize"}
                            \/ node = "sql_retrieve" /\ at = "over"
    /\ node # "sql_retrieve" \/ at \in {"begin", "over", "threw"} => update.issues = {}
    /\ \A rec \in {record, copy, mine} \ {None} :
         rec.answer # None =>
            \/ node \in Answering /\ rec.answer = node
            \/ node = "finalize" /\ (state.issues # {} => rec.answer = "grounding_notice")

(* What is executed and kept is grounded, and no abstention of the first   *)
(* plan.                                                                   *)
Sound(p) == p.grounded /\ p.abstained # "first"
Grounded ==
    /\ at \in Planning \ {"plan"} => Sound(plan)
    /\ \A t \in Tables : update.sql[t] # None => Sound(update.sql[t])
    /\ \A t \in Tables : state.sql[t] # None => Sound(state.sql[t])

(* The chunks of the state are those of the record and of the chain.       *)
InChain(chunks) == \E j \in DOMAIN chain : chain[j].type = "retrieval" /\ chain[j].chunks = chunks
BeforeRetrieved == node = "understand" \/ (node = "retrieve" /\ at # "over")
Streaming == handler \in {"stream", "reload", "complete"}
Retrieved ==
    /\ EnforceLabels => state.chunks \subseteq Readable /\ update.chunks \subseteq Readable
    /\ BeforeRetrieved => state.chunks = {}
    /\ node # "retrieve" \/ at \in {"begin", "over", "threw"} => update.chunks = {}
    /\ Streaming /\ ~BeforeRetrieved =>
         InChain(state.chunks) /\ \A rec \in {record, copy} \ {None} : rec.chunks = state.chunks
    /\ Streaming /\ node = "retrieve" /\ at \in {"retrieval", "return"} =>
         \A rec \in {record, copy} \ {None} : rec.chunks = update.chunks
    /\ node = "retrieve" /\ at = "return" => InChain(update.chunks)

(* What finalize saw is what the route reports, once.                      *)
Completed ==
    /\ Streaming /\ node = "finalize" /\ at \in {"return", "over"} /\ record # None =>
         record.status = "complete"
    /\ handler = "complete" =>
         /\ record \in {mine, None} /\ mine.status = "complete" /\ mine.chunks = state.chunks
    /\ \A i \in DOMAIN chain : chain[i].type = "run_completed" =>
         /\ handler \in {"mark", "set_error", "ended"} /\ at = "over" /\ node = "finalize"
    /\ told = "complete" =>
         /\ chain # <<>> /\ chain[Len(chain)] = RunCompleted(mine)
         /\ mine # None /\ mine.status = "complete" /\ record \in {mine, None}

(* What a completion binds is what the route has loaded, and the record is *)
(* that, or the same marked as failed.                                     *)
Closed ==
    /\ handler \in {"mark", "set_error"} => told = "error"
    /\ \A i \in DOMAIN chain : chain[i].type = "run_completed" =>
         /\ told # None /\ mine # None /\ mine.status = "complete"
         /\ chain[i].answer = mine.answer /\ chain[i].chunks = mine.chunks
         /\ \/ record \in {mine, None}
            \/ record = [mine EXCEPT !.status = "failed"] /\ told = "error"

(* The rows of the trace are of nodes before the present one.              *)
Traced ==
    /\ \A i \in DOMAIN trace :
         /\ Depth(trace[i].node) <= Depth(node)
         /\ at \notin {"over", "threw"} => Depth(trace[i].node) < Depth(node)
         /\ Depth(trace[i].node) = Depth(node) => trace[i].node = node
         /\ at # "threw" => trace[i].status = "ok"
         /\ node = "reconcile" /\ Depth(trace[i].node) = 4 => trace[i].node = "draft"
    /\ TraceIsAPath

IInv == /\ TypeOK /\ Placed /\ Marked /\ Answered /\ Grounded /\ Retrieved
        /\ Completed /\ Closed /\ CompletionCloses /\ Traced

-----------------------------------------------------------------------------
(* What the setters of a record make of it is a record.                    *)
Statuses == {"created", "retrieving", "drafting", "reconciling", "complete", "failed"}
LEMMA RecordSetters ==
    ASSUME NEW rec \in Records
    PROVE  /\ \A s \in Statuses : [rec EXCEPT !.status = s] \in Records
           /\ \A c \in SUBSET Chunks : [rec EXCEPT !.chunks = c] \in Records
           /\ \A t \in Tables : [rec EXCEPT !.queries = Append(@, t)] \in Records
           /\ \A k \in Answering : [rec EXCEPT !.answer = k, !.status = "complete"] \in Records
<1>1. ASSUME NEW s \in Statuses PROVE [rec EXCEPT !.status = s] \in Records
  BY DEF Records, Statuses
<1>2. ASSUME NEW c \in SUBSET Chunks PROVE [rec EXCEPT !.chunks = c] \in Records
  BY DEF Records
<1>3. ASSUME NEW t \in Tables PROVE [rec EXCEPT !.queries = Append(@, t)] \in Records
  <2>1. Append(rec.queries, t) \in Seq(Tables)
    BY DEF Records
  <2> QED
    BY <2>1 DEF Records
<1>4. ASSUME NEW k \in Answering PROVE [rec EXCEPT !.answer = k, !.status = "complete"] \in Records
  BY DEF Records, Kinds
<1> QED
  BY <1>1, <1>2, <1>3, <1>4

LEMMA NewIsRecord == NewRecord \in Records
BY DEF NewRecord, Records, Kinds

LEMMA TodoLeft ==
    ASSUME todo \in Seq(Tables), todo # <<>>
    PROVE  Head(todo) \in Tables /\ Tail(todo) \in Seq(Tables)
OBVIOUS

(* What the planning of a query, and its execution, make of the update:    *)
(* the chunks stay, and a new result is of the query that was planned.     *)
LEMMA UpdateGrows ==
    ASSUME TypeOK, Placed, PlanQuery \/ Replan \/ Execute
    PROVE  /\ node = "sql_retrieve" /\ at \in Planning /\ at' \in Planning \cup {"return"}
           /\ todo' \in Seq(Tables) /\ plan' \in Plans \cup {None}
           /\ update' \in States /\ update'.chunks = update.chunks
           /\ \A t \in Tables :
                \/ update'.sql[t] = update.sql[t]
                \/ at \in Planning \ {"plan"} /\ update'.sql[t] = plan
           /\ at' \in Planning \ {"plan"} =>
                Sound(plan') \/ (at \in Planning \ {"plan"} /\ plan' = plan)
           /\ UNCHANGED <<copy, record, node, state, chain, trace, handler>>
<1> DEFINE t0 == Head(todo)
<1>1. /\ node = "sql_retrieve" /\ at \in Planning /\ t0 \in Tables /\ Tail(todo) \in Seq(Tables)
      /\ todo \in Seq(Tables) /\ plan \in Plans \cup {None}
      /\ update \in States /\ UNCHANGED <<copy, record, node, state, chain, trace, handler>>
  BY TodoLeft DEF PlanQuery, Replan, Execute, Placed, Planning, TypeOK, UnchangedByNode,
                  routeVars
<1> HIDE DEF t0
<1>2. ASSUME GroundingIssue
      PROVE  /\ NextTable
             /\ update' \in States /\ update'.chunks = update.chunks /\ update'.sql = update.sql
  BY <1>1, <1>2 DEF States, GroundingIssue, t0
<1>3. ASSUME plan \in Plans, update' = [update EXCEPT !.sql[t0] = plan]
      PROVE  /\ update' \in States /\ update'.chunks = update.chunks
             /\ \A t \in Tables : update'.sql[t] = update.sql[t] \/ update'.sql[t] = plan
  <2>1. update.sql \in Results /\ [update.sql EXCEPT ![t0] = plan] \in Results
    BY <1>1, <1>3 DEF States, Results
  <2>2. update' = [update EXCEPT !.sql = [update.sql EXCEPT ![t0] = plan]]
    BY <1>3
  <2>3. \A t \in Tables :
           [update.sql EXCEPT ![t0] = plan][t] \in {update.sql[t], plan}
    BY <1>1, <2>1 DEF Results
  <2> HIDE DEF Results
  <2> QED
    BY <1>1, <2>1, <2>2, <2>3 DEF States
<1>4. ASSUME NextTable
      PROVE  todo' \in Seq(Tables) /\ plan' = None /\ at' \in {"plan", "return"}
  BY <1>1, <1>4 DEF NextTable, Go
<1>5. CASE PlanQuery
  <2>1. \/ NextTable /\ UNCHANGED update
        \/ /\ plan' \in Plans /\ Sound(plan')
           /\ at' = "execute" /\ UNCHANGED <<todo, update>>
        \/ GroundingIssue
    BY <1>5 DEF PlanQuery, Go, PlansOf, Sound
  <2>2. todo' \in Seq(Tables) /\ plan' \in Plans \cup {None} /\ at' \in Planning \cup {"return"}
    BY <1>1, <1>2, <1>4, <2>1 DEF Planning
  <2>3. update' \in States /\ update'.chunks = update.chunks /\ update'.sql = update.sql
    BY <1>1, <1>2, <2>1
  <2>4. at' \in Planning \ {"plan"} => Sound(plan')
    BY <1>2, <1>4, <2>1 DEF Planning
  <2> QED
    BY <1>1, <2>2, <2>3, <2>4
<1>6. CASE Replan
  <2>1. \/ NextTable /\ UNCHANGED update
        \/ /\ plan' \in Plans /\ Sound(plan')
           /\ at' = "retry" /\ UNCHANGED <<todo, update>>
        \/ GroundingIssue
    BY <1>6 DEF Replan, Go, PlansOf, Sound
  <2>2. todo' \in Seq(Tables) /\ plan' \in Plans \cup {None} /\ at' \in Planning \cup {"return"}
    BY <1>1, <1>2, <1>4, <2>1 DEF Planning
  <2>3. update' \in States /\ update'.chunks = update.chunks /\ update'.sql = update.sql
    BY <1>1, <1>2, <2>1
  <2>4. at' \in Planning \ {"plan"} => Sound(plan')
    BY <1>2, <1>4, <2>1 DEF Planning
  <2> QED
    BY <1>1, <2>2, <2>3, <2>4
<1>7. CASE Execute
  <2>1. plan \in Plans /\ at \in Planning \ {"plan"}
    BY <1>7 DEF Execute, Placed, Planning
  <2>2. \/ NextTable /\ UNCHANGED update
        \/ /\ update' = [update EXCEPT !.sql[t0] = plan]
           /\ at' \in {"evidence", "persist"} /\ UNCHANGED <<todo, plan>>
    BY <1>7 DEF Execute, Go, t0
  <2>3. todo' \in Seq(Tables) /\ plan' \in Plans \cup {None} /\ at' \in Planning \cup {"return"}
    BY <1>1, <1>4, <2>1, <2>2 DEF Planning
  <2>4. update' \in States /\ update'.chunks = update.chunks
    BY <1>1, <1>3, <2>1, <2>2
  <2>5. \A t \in Tables : update'.sql[t] = update.sql[t] \/ update'.sql[t] = plan
    BY <1>3, <2>1, <2>2
  <2>6. at' \in Planning \ {"plan"} => plan' = plan
    BY <1>4, <2>2 DEF Planning
  <2> QED
    BY <1>1, <2>1, <2>3, <2>4, <2>5, <2>6
<1> QED
  BY <1>5, <1>6, <1>7

(* What merging an update gives.                                           *)
LEMMA Merged ==
    ASSUME NEW s \in States, NEW u \in States
    PROVE  /\ Merge(s, u) \in States
           /\ Merge(s, u).chunks = s.chunks \cup u.chunks
           /\ Merge(s, u).issues = IF u.issues = {} THEN s.issues ELSE u.issues
           /\ \A t \in Tables : Merge(s, u).sql[t] \in {s.sql[t], u.sql[t]}
<1>1. [t \in Tables |-> IF u.sql[t] = None THEN s.sql[t] ELSE u.sql[t]] \in Results
  BY DEF States, Results
<1> QED
  BY <1>1 DEF States, Merge

LEMMA NothingIsState ==
    /\ Nothing \in States /\ Nothing.chunks = {} /\ Nothing.issues = {}
    /\ \A t \in Tables : Nothing.sql[t] = None
BY DEF Nothing, States, Results, NoResults

(* A chain to which an event was appended, or was not.                     *)
EventRecords == [type : {"run_started", "retrieval", "sql_query", "run_completed"},
                 chunks : SUBSET Chunks, table : Tables \cup {None}, answer : Kinds]
LEMMA ChainGrows ==
    ASSUME chain \in Seq(EventRecords), NEW e \in EventRecords, NEW ok \in BOOLEAN,
           Chained(e, ok)
    PROVE  /\ chain' \in Seq(EventRecords)
           /\ Len(chain') \in {Len(chain), Len(chain) + 1}
           /\ \A i \in 1 .. Len(chain) : chain'[i] = chain[i]
           /\ \A i \in DOMAIN chain' :
                i \in 1 .. Len(chain) \/ (i = Len(chain) + 1 /\ chain'[i] = e)
           /\ ok => Len(chain') = Len(chain) + 1 /\ chain'[Len(chain')] = e
BY DEF Chained

LEMMA ChainKept ==
    ASSUME chain \in Seq(EventRecords), NEW e \in EventRecords, NEW ok \in BOOLEAN, Chained(e, ok),
           NEW c, InChain(c)
    PROVE  InChain(c)'
<1>1. PICK j \in DOMAIN chain : chain[j].type = "retrieval" /\ chain[j].chunks = c
  BY DEF InChain
<1>2. j \in DOMAIN chain' /\ chain'[j] = chain[j]
  BY DEF Chained
<1> QED
  BY <1>1, <1>2 DEF InChain

(* The events that are chained.                                            *)
LEMMA EventsAreEvents ==
    ASSUME TypeOK
    PROVE  /\ chain \in Seq(EventRecords)
           /\ RunStarted \in EventRecords /\ RunStarted.type = "run_started"
           /\ \A c \in SUBSET Chunks : /\ Event("retrieval", c, None, None) \in EventRecords
                                       /\ Event("retrieval", c, None, None).type = "retrieval"
                                       /\ Event("retrieval", c, None, None).chunks = c
           /\ \A t \in Tables : /\ Event("sql_query", {}, t, None) \in EventRecords
                                /\ Event("sql_query", {}, t, None).type = "sql_query"
           /\ \A rec \in Records : /\ RunCompleted(rec) \in EventRecords
                                   /\ RunCompleted(rec).type = "run_completed"
                                   /\ RunCompleted(rec).chunks = rec.chunks
                                   /\ RunCompleted(rec).answer = rec.answer
<1>1. chain \in Seq(EventRecords)
  BY DEF TypeOK, EventRecords
<1>2. /\ RunStarted \in EventRecords /\ RunStarted.type = "run_started"
  BY DEF RunStarted, Event, EventRecords, Kinds
<1>3. ASSUME NEW c \in SUBSET Chunks
      PROVE  /\ Event("retrieval", c, None, None) \in EventRecords
             /\ Event("retrieval", c, None, None).type = "retrieval"
             /\ Event("retrieval", c, None, None).chunks = c
  BY DEF Event, EventRecords, Kinds
<1>4. ASSUME NEW t \in Tables
      PROVE  /\ Event("sql_query", {}, t, None) \in EventRecords
             /\ Event("sql_query", {}, t, None).type = "sql_query"
  BY DEF Event, EventRecords, Kinds
<1>5. ASSUME NEW rec \in Records
      PROVE  /\ RunCompleted(rec) \in EventRecords
             /\ RunCompleted(rec).type = "run_completed"
             /\ RunCompleted(rec).chunks = rec.chunks
             /\ RunCompleted(rec).answer = rec.answer
  BY DEF RunCompleted, Event, EventRecords, Records
<1> QED
  BY <1>1, <1>2, <1>3, <1>4, <1>5

-----------------------------------------------------------------------------
(* Every step keeps the types.                                             *)
LEMMA TypeStep ==
    ASSUME TypeOK, Placed, [Next]_vars PROVE TypeOK'
<1> USE AskAssumption DEF TypeOK, Placed, AtWork, Planning, Answering, OptionalRecord,
        routeVars, nodeVars, storeVars
<1>1. CASE Start
  <2>1. PICK ok \in BOOLEAN : Chained(RunStarted, ok)
    BY <1>1 DEF Start
  <2>2. RunStarted \in EventRecords /\ chain \in Seq(EventRecords)
    BY <1>1, EventsAreEvents, TodoLeft DEF Start
  <2>3. chain' \in Seq(EventRecords)
    BY <2>1, <2>2, ChainGrows
  <2> QED
    BY <1>1, <2>3 DEF Start, Fail, EventRecords
<1>2. CASE Create
  <2>1. record' \in {record, NewRecord}
    BY <1>2 DEF Create, Put
  <2> QED
    BY <1>2, <2>1, NewIsRecord DEF Create, Fail
<1>3. CASE GiveUp
  BY <1>3 DEF GiveUp, LeaveStream, Fail
<1>4. CASE Reload
  BY <1>4 DEF Reload, Fail
<1>5. CASE Complete
  <2>1. PICK ok \in BOOLEAN : Chained(RunCompleted(mine), ok)
    BY <1>5 DEF Complete
  <2>2. RunCompleted(mine) \in EventRecords /\ chain \in Seq(EventRecords)
    BY <1>5, EventsAreEvents, TodoLeft DEF Complete
  <2>3. chain' \in Seq(EventRecords)
    BY <2>1, <2>2, ChainGrows
  <2> QED
    BY <1>5, <2>3 DEF Complete, Fail, EventRecords
<1>6. CASE Mark
  BY <1>6 DEF Mark
<1>7. CASE SetError
  <2>1. [mine EXCEPT !.status = "failed"] \in Records
    BY <1>7, RecordSetters DEF SetError, Statuses
  <2>2. record' \in {record, [mine EXCEPT !.status = "failed"]}
    BY <1>7 DEF SetError, Put
  <2> QED
    BY <1>7, <2>1, <2>2 DEF SetError
<1>8. CASE Understand
  BY <1>8 DEF Understand, In, Go, UnchangedByNode
<1>9. CASE Load
  BY <1>9 DEF Load, In, Go, AfterLoad, Nodes, UnchangedByNode
<1>10. CASE SetStatus
  <2>1. copy' = [copy EXCEPT !.status = StatusOf(node)] /\ copy \in Records
    BY <1>10 DEF SetStatus, Save
  <2>2. StatusOf(node) \in Statuses
    BY <1>10 DEF SetStatus, StatusOf, StatusName, Statuses
  <2>3. copy' \in Records
    BY <2>1, <2>2, RecordSetters
  <2>4. record' \in {record, copy'}
    BY <1>10 DEF SetStatus, Save, Put
  <2>5. at' \in {"search", "partial", "answer", "throw"}
    BY <1>10 DEF SetStatus, Save, Go
  <2> QED
    BY <1>10, <2>3, <2>4, <2>5 DEF SetStatus, UnchangedByNode
<1>11. CASE NodeThrows
  BY <1>11 DEF NodeThrows, Go, UnchangedByNode
<1>12. CASE Search
  <2>1. PICK c \in SUBSET Chunks : /\ update' = [update EXCEPT !.chunks = c]
    BY <1>12 DEF Search, Canary
  <2>2. PICK d \in SUBSET Chunks : copy' = [copy EXCEPT !.chunks = d]
    BY <1>12 DEF Search, Save, Recorded, Canary
  <2>3. update' \in States
    BY <2>1 DEF States
  <2>4. copy \in Records
    BY <1>12 DEF Search, In
  <2>5. copy' \in Records
    BY <2>2, <2>4, RecordSetters
  <2>6. record' \in {record, copy'} /\ at' \in {"retrieval", "throw"}
    BY <1>12 DEF Search, Save, Put, Go
  <2> QED
    BY <1>12, <2>3, <2>5, <2>6 DEF Search, UnchangedByNode
<1>13. CASE ChainRetrieval
  <2>1. PICK ok \in BOOLEAN : Chained(Event("retrieval", update.chunks, None, None), ok)
    BY <1>13 DEF ChainRetrieval
  <2>2. Event("retrieval", update.chunks, None, None) \in EventRecords /\ chain \in Seq(EventRecords)
    BY <1>13, EventsAreEvents, TodoLeft DEF ChainRetrieval, States
  <2>3. chain' \in Seq(EventRecords)
    BY <2>1, <2>2, ChainGrows
  <2> QED
    BY <1>13, <2>3 DEF ChainRetrieval, Go, UnchangedByNode, EventRecords
<1>14. CASE Gate
  <2>1. TablesFound \subseteq Tables
    BY DEF TablesFound, Tables
  <2>2. todo' \in Seq(Tables)
    <3>1. CASE todo' = todo
      BY <3>1
    <3>2. CASE todo' \in Selections(TablesFound)
      <4>1. PICK n \in 0 .. GateLength : todo' \in [1 .. n -> TablesFound]
        BY <3>2 DEF Selections
      <4>2. todo' \in [1 .. n -> Tables] /\ n \in Nat
        BY <2>1, <4>1
      <4> QED
        BY <4>2, SeqDef
    <3> QED
      BY <1>14, <3>1, <3>2 DEF Gate
  <2>3. copy' \in OptionalRecord /\ at' \in {"return", "throw", "plan"}
    BY <1>14 DEF Gate, Go
  <2> QED
    BY <1>14, <2>2, <2>3 DEF Gate, UnchangedByNode
<1>15. CASE PlanQuery
  <2>1. /\ todo' \in Seq(Tables) /\ plan' \in Plans \cup {None} /\ update' \in States
        /\ at' \in Planning \cup {"return"}
    <3> HIDE DEF TypeOK, Placed
    <3> QED
      BY <1>15, UpdateGrows
  <2> QED
    BY <1>15, <2>1 DEF PlanQuery, UnchangedByNode
<1>16. CASE Rejected
  BY <1>16 DEF Rejected, ReplanAfter, Go, UnchangedByNode
<1>17. CASE Replan
  <2>1. /\ todo' \in Seq(Tables) /\ plan' \in Plans \cup {None} /\ update' \in States
        /\ at' \in Planning \cup {"return"}
    <3> HIDE DEF TypeOK, Placed
    <3> QED
      BY <1>17, UpdateGrows
  <2> QED
    BY <1>17, <2>1 DEF Replan, UnchangedByNode
<1>18. CASE Execute
  <2>1. /\ todo' \in Seq(Tables) /\ plan' \in Plans \cup {None} /\ update' \in States
        /\ at' \in Planning \cup {"return"}
    <3> HIDE DEF TypeOK, Placed
    <3> QED
      BY <1>18, UpdateGrows
  <2> QED
    BY <1>18, <2>1 DEF Execute, UnchangedByNode
<1>19. CASE Persist
  <2>1. copy \in Records /\ Head(todo) \in Tables /\ Tail(todo) \in Seq(Tables)
    BY <1>19, TodoLeft DEF Persist
  <2>2. copy' = [copy EXCEPT !.queries = Append(@, Head(todo))]
    BY <1>19 DEF Persist
  <2>3. copy' \in Records
    BY <2>1, <2>2, RecordSetters
  <2>4. record' \in {record, copy'}
    BY <1>19 DEF Persist, Put
  <2>5. /\ todo' \in Seq(Tables) /\ plan' \in Plans \cup {None}
        /\ at' \in {"evidence", "plan", "return"}
    BY <1>19, <2>1 DEF Persist, NextTable, Go
  <2> QED
    BY <1>19, <2>3, <2>4, <2>5 DEF Persist, UnchangedByNode
<1>20. CASE Evidence
  <2>4. at = "evidence" /\ todo # <<>> /\ Tail(todo) \in Seq(Tables)
    BY <1>20, TodoLeft DEF Evidence
  <2>1. PICK ok \in BOOLEAN : Chained(Event("sql_query", {}, Head(todo), None), ok)
    BY <1>20 DEF Evidence
  <2>2. Event("sql_query", {}, Head(todo), None) \in EventRecords /\ chain \in Seq(EventRecords)
    BY <2>4, EventsAreEvents, TodoLeft
  <2>3. chain' \in Seq(EventRecords)
    BY <2>1, <2>2, ChainGrows
  <2> QED
    BY <1>20, <2>3, <2>4 DEF Evidence, NextTable, Go, UnchangedByNode, EventRecords
<1>21. CASE Partial
  BY <1>21 DEF Partial, In, Save, Put, Go, UnchangedByNode
<1>22. CASE Answer
  <2>1. copy' = [copy EXCEPT !.answer = node, !.status = "complete"] /\ copy \in Records
    BY <1>22 DEF Answer, In, Save
  <2>2. copy' \in Records
    BY <1>22, <2>1, RecordSetters DEF Answer, In
  <2>3. record' \in {record, copy'} /\ at' \in {"return", "throw"}
    BY <1>22 DEF Answer, Save, Put, Go
  <2> QED
    BY <1>22, <2>2, <2>3 DEF Answer, UnchangedByNode
<1>23. CASE Return
  <2>1. trace' \in Seq([node : Nodes, status : {"ok", "error"}])
    <3> DEFINE rows == [node : Nodes, status : {"ok", "error"}]
               new == [node |-> node, status |-> "ok"]
    <3>1. new \in rows /\ trace \in Seq(rows)
      OBVIOUS
    <3>2. trace' \in {trace, Append(trace, new)}
      BY <1>23 DEF Return, Row
    <3> HIDE DEF rows, new
    <3>3. trace' \in Seq(rows)
      BY <3>1, <3>2
    <3> QED
      BY <3>3 DEF rows
  <2>2. state' \in States /\ update' \in States
    BY <1>23, Merged, NothingIsState DEF Return, Forget
  <2>3. <<>> \in Seq(Tables)
    OBVIOUS
  <2>4. at' = "over" /\ copy' = None /\ plan' = None /\ todo' = <<>>
    BY <1>23 DEF Return, Forget, Go, Rethrown
  <2> QED
    BY <1>23, <2>1, <2>2, <2>3, <2>4 DEF Return
<1>24. CASE Throw
  <2>1. trace' \in Seq([node : Nodes, status : {"ok", "error"}])
    <3> DEFINE rows == [node : Nodes, status : {"ok", "error"}]
               new == [node |-> node, status |-> "error"]
    <3>1. new \in rows /\ trace \in Seq(rows)
      OBVIOUS
    <3>2. trace' \in {trace, Append(trace, new)}
      BY <1>24 DEF Throw, Row
    <3> HIDE DEF rows, new
    <3>3. trace' \in Seq(rows)
      BY <3>1, <3>2
    <3> QED
      BY <3>3 DEF rows
  <2>2. state' \in States /\ update' \in States
    BY <1>24, Merged, NothingIsState DEF Throw, Forget
  <2>3. <<>> \in Seq(Tables)
    OBVIOUS
  <2>4. at' = "threw" /\ copy' = None /\ plan' = None /\ todo' = <<>>
    BY <1>24 DEF Throw, Forget, Go, Rethrown
  <2> QED
    BY <1>24, <2>1, <2>2, <2>3, <2>4 DEF Throw
<1>25. CASE GraphStep
  <2>1. node' \in Nodes /\ at' \in {"begin", "over"} /\ handler' \in {"stream", "reload"}
    BY <1>25 DEF GraphStep, Enter, Go, Following, RouteAfterSql, Nodes
  <2>2. UNCHANGED <<copy, todo, plan, update>>
    BY <1>25 DEF GraphStep, Enter
  <2> QED
    BY <1>25, <2>1, <2>2 DEF GraphStep
<1>26. CASE Disconnect
  BY <1>26 DEF Disconnect
<1>27. CASE Lose
  BY <1>27 DEF Lose
<1>28. CASE UNCHANGED vars
  BY <1>28 DEF vars
<1> HIDE DEF TypeOK, Placed, AtWork, Planning, Answering, OptionalRecord, routeVars,
        nodeVars, storeVars
<1> QED
  BY <1>1, <1>2, <1>3, <1>4, <1>5, <1>6, <1>7, <1>8, <1>9, <1>10, <1>11, <1>12, <1>13,
     <1>14, <1>15, <1>16, <1>17, <1>18, <1>19, <1>20, <1>21, <1>22, <1>23, <1>24, <1>25,
     <1>26, <1>27, <1>28
     DEF Next, RouteStep, NodeStep

(* Every step leaves route and node in places they can be in.              *)
LEMMA PlacedStep ==
    ASSUME IInv, [Next]_vars PROVE Placed'
<1> TypeOK /\ Placed
  BY DEF IInv
<1> USE AskAssumption DEF TypeOK, Placed, AtWork, Planning, Answering, routeVars, nodeVars,
        storeVars
<1>1. CASE Start
  BY <1>1 DEF Start, Chained, Fail
<1>2. CASE Create
  BY <1>2 DEF Create, Put, Fail
<1>3. CASE GiveUp
  BY <1>3 DEF GiveUp, LeaveStream, Fail
<1>4. CASE Reload
  BY <1>4 DEF Reload, Fail
<1>5. CASE Complete
  BY <1>5 DEF Complete, Chained, TellWhen, Fail
<1>6. CASE Mark
  BY <1>6 DEF Mark
<1>7. CASE SetError
  BY <1>7 DEF SetError, Put
<1>8. CASE Understand
  BY <1>8 DEF Understand, In, Go, UnchangedByNode
<1>9. CASE Load
  BY <1>9 DEF Load, In, Go, AfterLoad, Nodes, UnchangedByNode
<1>10. CASE SetStatus
  <2>1. copy' \in Records
    <3>1. copy' = [copy EXCEPT !.status = StatusOf(node)] /\ copy \in Records
      BY <1>10 DEF SetStatus, Save, OptionalRecord
    <3>2. StatusOf(node) \in Statuses
      BY <1>10 DEF SetStatus, StatusOf, StatusName, Statuses
    <3> QED
      BY <3>1, <3>2, RecordSetters
  <2>2. CASE node = "retrieve"
    BY <1>10, <2>1, <2>2 DEF SetStatus, Save, Go, UnchangedByNode
  <2>3. CASE node = "draft"
    BY <1>10, <2>1, <2>3 DEF SetStatus, Save, Go, UnchangedByNode
  <2>4. CASE node = "reconcile"
    BY <1>10, <2>1, <2>4 DEF SetStatus, Save, Go, UnchangedByNode
  <2> QED
    BY <1>10, <2>2, <2>3, <2>4 DEF SetStatus
<1>11. CASE NodeThrows
  BY <1>11 DEF NodeThrows, Go, UnchangedByNode
<1>12. CASE Search
  <2>1. PICK c \in SUBSET Chunks : copy' = [copy EXCEPT !.chunks = c]
    BY <1>12 DEF Search, Save, Recorded, Canary
  <2>2. copy' \in Records
    <3>1. copy \in Records
      BY <1>12 DEF Search, In, OptionalRecord
    <3> QED
      BY <2>1, <3>1, RecordSetters
  <2>3. /\ at' \in {"retrieval", "throw"} /\ node = "retrieve" /\ AtWork
        /\ UNCHANGED <<node, todo, plan, handler, mine, told, aborted>>
    BY <1>12 DEF Search, In, Save, Go, UnchangedByNode
  <2> QED
    BY <2>2, <2>3
<1>13. CASE ChainRetrieval
  BY <1>13 DEF ChainRetrieval, In, Chained, Go, UnchangedByNode
<1>14. CASE Gate
  BY <1>14 DEF Gate, In, Go, UnchangedByNode
<1>15. CASE PlanQuery
  BY <1>15 DEF PlanQuery, PlansOf, NextTable, GroundingIssue, Go, UnchangedByNode
<1>16. CASE Rejected
  BY <1>16 DEF Rejected, ReplanAfter, Go, UnchangedByNode
<1>17. CASE Replan
  BY <1>17 DEF Replan, PlansOf, NextTable, GroundingIssue, Go, UnchangedByNode
<1>18. CASE Execute
  BY <1>18 DEF Execute, NextTable, Go, UnchangedByNode
<1>19. CASE Persist
  BY <1>19 DEF Persist, NextTable, Put, Go, UnchangedByNode
<1>20. CASE Evidence
  BY <1>20 DEF Evidence, NextTable, Chained, Go, UnchangedByNode
<1>21. CASE Partial
  BY <1>21 DEF Partial, In, Save, Put, Go, UnchangedByNode
<1>22. CASE Answer
  BY <1>22 DEF Answer, In, Save, Put, Go, UnchangedByNode
<1>23. CASE Return
  BY <1>23 DEF Return, Forget, Go, Row
<1>24. CASE Throw
  BY <1>24 DEF Throw, Forget, Go, Rethrown, Row
<1>25. CASE GraphStep
  BY <1>25 DEF GraphStep, Enter, Go, Following, RouteAfterSql
<1>26. CASE Disconnect
  BY <1>26 DEF Disconnect
<1>27. CASE Lose
  BY <1>27 DEF Lose
<1>28. CASE UNCHANGED vars
  BY <1>28 DEF vars
<1> HIDE DEF TypeOK, Placed, AtWork, Planning, Answering, routeVars, nodeVars, storeVars
<1> QED
  BY <1>1, <1>2, <1>3, <1>4, <1>5, <1>6, <1>7, <1>8, <1>9, <1>10, <1>11, <1>12, <1>13,
     <1>14, <1>15, <1>16, <1>17, <1>18, <1>19, <1>20, <1>21, <1>22, <1>23, <1>24, <1>25,
     <1>26, <1>27, <1>28
     DEF Next, RouteStep, NodeStep

(* Every step keeps what the status of a record says.                      *)
LEMMA MarkedStep ==
    ASSUME IInv, [Next]_vars PROVE Marked'
<1> TypeOK /\ Placed /\ Marked
  BY DEF IInv
<1> USE AskAssumption DEF TypeOK, Placed, Marked, AtWork, Planning, Answering, Records,
        OptionalRecord, routeVars, nodeVars, storeVars
<1>1. CASE Start
  BY <1>1 DEF Start, Chained, Fail
<1>2. CASE Create
  BY <1>2 DEF Create, Put, NewRecord, Fail
<1>3. CASE GiveUp
  BY <1>3 DEF GiveUp, LeaveStream, Fail
<1>4. CASE Reload
  BY <1>4 DEF Reload, Fail
<1>5. CASE Complete
  BY <1>5 DEF Complete, Chained, TellWhen, Fail
<1>6. CASE Mark
  BY <1>6 DEF Mark
<1>7. CASE SetError
  BY <1>7 DEF SetError, Put
<1>8. CASE Understand
  BY <1>8 DEF Understand, In, Go, UnchangedByNode
<1>9. CASE Load
  BY <1>9 DEF Load, In, Go, AfterLoad, Nodes, UnchangedByNode
<1>10. CASE SetStatus
  BY <1>10 DEF SetStatus, Save, Put, StatusOf, StatusName, Go, UnchangedByNode
<1>11. CASE NodeThrows
  BY <1>11 DEF NodeThrows, Go, UnchangedByNode
<1>12. CASE Search
  BY <1>12 DEF Search, In, Canary, Recorded, Save, Put, Go, UnchangedByNode
<1>13. CASE ChainRetrieval
  BY <1>13 DEF ChainRetrieval, In, Chained, Go, UnchangedByNode
<1>14. CASE Gate
  BY <1>14 DEF Gate, In, Go, UnchangedByNode
<1>15. CASE PlanQuery
  BY <1>15 DEF PlanQuery, NextTable, GroundingIssue, Go, UnchangedByNode
<1>16. CASE Rejected
  BY <1>16 DEF Rejected, ReplanAfter, Go, UnchangedByNode
<1>17. CASE Replan
  BY <1>17 DEF Replan, NextTable, GroundingIssue, Go, UnchangedByNode
<1>18. CASE Execute
  BY <1>18 DEF Execute, NextTable, Go, UnchangedByNode
<1>19. CASE Persist
  BY <1>19 DEF Persist, NextTable, Put, Go, UnchangedByNode
<1>20. CASE Evidence
  BY <1>20 DEF Evidence, NextTable, Chained, Go, UnchangedByNode
<1>21. CASE Partial
  BY <1>21 DEF Partial, In, Save, Put, Go, UnchangedByNode
<1>22. CASE Answer
  <2>1. /\ node \in Answering /\ copy'.answer = node /\ copy'.status = "complete"
        /\ record' \in {record, copy'} /\ UNCHANGED <<mine, handler>>
    BY <1>22 DEF Answer, In, Save, Put, Go, UnchangedByNode
  <2>2. node # None
    BY <2>1
  <2> HIDE DEF TypeOK, Placed, Records
  <2> QED
    BY <2>1, <2>2
<1>23. CASE Return
  BY <1>23 DEF Return, Forget, Go, Row
<1>24. CASE Throw
  BY <1>24 DEF Throw, Forget, Go, Rethrown, Row
<1>25. CASE GraphStep
  BY <1>25 DEF GraphStep, Enter, Go, Following, RouteAfterSql
<1>26. CASE Disconnect
  BY <1>26 DEF Disconnect
<1>27. CASE Lose
  BY <1>27 DEF Lose
<1>28. CASE UNCHANGED vars
  BY <1>28 DEF vars
<1> HIDE DEF TypeOK, Placed, Marked, AtWork, Planning, Answering, Records, OptionalRecord,
        routeVars, nodeVars, storeVars
<1> QED
  BY <1>1, <1>2, <1>3, <1>4, <1>5, <1>6, <1>7, <1>8, <1>9, <1>10, <1>11, <1>12, <1>13,
     <1>14, <1>15, <1>16, <1>17, <1>18, <1>19, <1>20, <1>21, <1>22, <1>23, <1>24, <1>25,
     <1>26, <1>27, <1>28
     DEF Next, RouteStep, NodeStep

(* Every step keeps whose answer a record has.                             *)
LEMMA AnsweredStep ==
    ASSUME IInv, [Next]_vars PROVE Answered'
<1> TypeOK /\ Placed /\ Answered
  BY DEF IInv
<1> USE AskAssumption DEF TypeOK, Placed, Answered, AtWork, Planning, Answering, Records,
        OptionalRecord, routeVars, nodeVars, storeVars
<1>1. CASE Start
  BY <1>1 DEF Start, Chained, Fail
<1>2. CASE Create
  BY <1>2 DEF Create, Put, NewRecord, Fail
<1>3. CASE GiveUp
  BY <1>3 DEF GiveUp, LeaveStream, Fail
<1>4. CASE Reload
  BY <1>4 DEF Reload, Fail
<1>5. CASE Complete
  BY <1>5 DEF Complete, Chained, TellWhen, Fail
<1>6. CASE Mark
  BY <1>6 DEF Mark
<1>7. CASE SetError
  BY <1>7 DEF SetError, Put
<1>8. CASE Understand
  BY <1>8 DEF Understand, In, Go, UnchangedByNode
<1>9. CASE Load
  BY <1>9 DEF Load, In, Go, AfterLoad, Nodes, UnchangedByNode
<1>10. CASE SetStatus
  BY <1>10 DEF SetStatus, Save, Put, StatusOf, StatusName, Go, UnchangedByNode
<1>11. CASE NodeThrows
  BY <1>11 DEF NodeThrows, Go, UnchangedByNode
<1>12. CASE Search
  BY <1>12 DEF Search, In, Canary, Recorded, Save, Put, Go, UnchangedByNode
<1>13. CASE ChainRetrieval
  BY <1>13 DEF ChainRetrieval, In, Chained, Go, UnchangedByNode
<1>14. CASE Gate
  BY <1>14 DEF Gate, In, Go, UnchangedByNode
<1>15. CASE PlanQuery
  BY <1>15 DEF PlanQuery, NextTable, GroundingIssue, Go, UnchangedByNode
<1>16. CASE Rejected
  BY <1>16 DEF Rejected, ReplanAfter, Go, UnchangedByNode
<1>17. CASE Replan
  BY <1>17 DEF Replan, NextTable, GroundingIssue, Go, UnchangedByNode
<1>18. CASE Execute
  BY <1>18 DEF Execute, NextTable, Go, UnchangedByNode
<1>19. CASE Persist
  <2>1. /\ copy # None /\ copy'.answer = copy.answer /\ record' \in {record, copy'}
        /\ UNCHANGED <<node, state, mine, update>> /\ node = "sql_retrieve"
        /\ at = "persist" /\ at' \in {"evidence", "plan", "return"}
    BY <1>19 DEF Persist, NextTable, Put, Go, UnchangedByNode
  <2> HIDE DEF TypeOK, Placed, Records
  <2>2. \A rec \in {record, copy, mine} \ {None} : rec.answer = None
    BY <2>1
  <2>3. \A rec \in {record', copy', mine'} \ {None} : rec.answer = None
    BY <2>1, <2>2
  <2>4. state.issues = {}
    BY <2>1
  <2> QED
    BY <2>1, <2>3, <2>4
<1>20. CASE Evidence
  BY <1>20 DEF Evidence, NextTable, Chained, Go, UnchangedByNode
<1>21. CASE Partial
  BY <1>21 DEF Partial, In, Save, Put, Go, UnchangedByNode
<1>22. CASE Answer
  <2>1. /\ node \in Answering /\ copy'.answer = node /\ record' \in {record, copy'}
        /\ UNCHANGED <<node, state, mine, update>> /\ at' \in {"return", "throw"}
    BY <1>22 DEF Answer, In, Save, Put, Go, UnchangedByNode
  <2>2. state.issues # {} => node = "grounding_notice"
    BY <2>1
  <2>3. update.issues = {}
    BY <2>1
  <2>4. \A rec \in {record, mine} \ {None} : rec.answer # None => rec.answer = node
    BY <2>1
  <2> HIDE DEF Answered, TypeOK, Placed, Records
  <2>5. \A rec \in {record', copy', mine'} \ {None} : rec.answer # None => rec.answer = node
    BY <2>1, <2>4
  <2> QED
    BY <2>1, <2>2, <2>3, <2>5 DEF Answered
<1>23. CASE Return
  <2>1. /\ UNCHANGED <<node, record, mine>> /\ at' = "over" /\ copy' = None /\ update' = Nothing
        /\ state' = Merge(state, update) /\ at = "return"
    BY <1>23 DEF Return, Forget, Go
  <2>2. state'.issues = IF update.issues = {} THEN state.issues ELSE update.issues
    BY <2>1, Merged
  <2>3. update'.issues = {}
    BY <2>1, NothingIsState
  <2> QED
    BY <2>1, <2>2, <2>3
<1>24. CASE Throw
  <2>1. /\ UNCHANGED <<node, record, mine, state>> /\ at' = "threw" /\ copy' = None /\ update' = Nothing
    BY <1>24 DEF Throw, Forget, Go, Rethrown
  <2> QED
    BY <1>24, <2>1, NothingIsState DEF Throw
<1>25. CASE GraphStep
  BY <1>25 DEF GraphStep, Enter, Go, Following, RouteAfterSql
<1>26. CASE Disconnect
  BY <1>26 DEF Disconnect
<1>27. CASE Lose
  BY <1>27 DEF Lose
<1>28. CASE UNCHANGED vars
  BY <1>28 DEF vars
<1> HIDE DEF TypeOK, Placed, Answered, AtWork, Planning, Answering, Records,
        OptionalRecord, routeVars, nodeVars, storeVars
<1> QED
  BY <1>1, <1>2, <1>3, <1>4, <1>5, <1>6, <1>7, <1>8, <1>9, <1>10, <1>11, <1>12, <1>13,
     <1>14, <1>15, <1>16, <1>17, <1>18, <1>19, <1>20, <1>21, <1>22, <1>23, <1>24, <1>25,
     <1>26, <1>27, <1>28
     DEF Next, RouteStep, NodeStep

(* Every step keeps the queries grounded.                                  *)
LEMMA GroundedStep ==
    ASSUME IInv, [Next]_vars PROVE Grounded'
<1> TypeOK /\ Placed /\ Grounded
  BY DEF IInv
<1> USE AskAssumption DEF TypeOK, Placed, Grounded, AtWork, Planning, Answering, routeVars,
        nodeVars, storeVars
<1>1. CASE Start
  BY <1>1 DEF Start, Chained, Fail
<1>2. CASE Create
  BY <1>2 DEF Create, Put, Fail
<1>3. CASE GiveUp
  BY <1>3 DEF GiveUp, LeaveStream, Fail
<1>4. CASE Reload
  BY <1>4 DEF Reload, Fail
<1>5. CASE Complete
  BY <1>5 DEF Complete, Chained, TellWhen, Fail
<1>6. CASE Mark
  BY <1>6 DEF Mark
<1>7. CASE SetError
  BY <1>7 DEF SetError, Put
<1>8. CASE Understand
  BY <1>8 DEF Understand, In, Go, UnchangedByNode
<1>9. CASE Load
  BY <1>9 DEF Load, In, Go, AfterLoad, Nodes, UnchangedByNode
<1>10. CASE SetStatus
  BY <1>10 DEF SetStatus, Save, Put, StatusOf, StatusName, Go, UnchangedByNode
<1>11. CASE NodeThrows
  BY <1>11 DEF NodeThrows, Go, UnchangedByNode
<1>12. CASE Search
  BY <1>12 DEF Search, In, Canary, Recorded, Save, Put, Go, UnchangedByNode
<1>13. CASE ChainRetrieval
  BY <1>13 DEF ChainRetrieval, In, Chained, Go, UnchangedByNode
<1>14. CASE Gate
  BY <1>14 DEF Gate, In, Go, UnchangedByNode
<1>15. CASE PlanQuery
  <2> HIDE DEF TypeOK, Placed
  <2>1. \A t \in Tables :
           \/ update'.sql[t] = update.sql[t]
           \/ at \in Planning \ {"plan"} /\ update'.sql[t] = plan
    BY <1>15, UpdateGrows
  <2>2. at' \in Planning \ {"plan"} =>
           Sound(plan') \/ (at \in Planning \ {"plan"} /\ plan' = plan)
    BY <1>15, UpdateGrows
  <2>3. state' = state
    BY <1>15, UpdateGrows
  <2> HIDE DEF Planning
  <2> QED
    BY <2>1, <2>2, <2>3
<1>16. CASE Rejected
  BY <1>16 DEF Rejected, ReplanAfter, Go, UnchangedByNode
<1>17. CASE Replan
  <2> HIDE DEF TypeOK, Placed
  <2>1. \A t \in Tables :
           \/ update'.sql[t] = update.sql[t]
           \/ at \in Planning \ {"plan"} /\ update'.sql[t] = plan
    BY <1>17, UpdateGrows
  <2>2. at' \in Planning \ {"plan"} =>
           Sound(plan') \/ (at \in Planning \ {"plan"} /\ plan' = plan)
    BY <1>17, UpdateGrows
  <2>3. state' = state
    BY <1>17, UpdateGrows
  <2> HIDE DEF Planning
  <2> QED
    BY <2>1, <2>2, <2>3
<1>18. CASE Execute
  <2> HIDE DEF TypeOK, Placed
  <2>1. \A t \in Tables :
           \/ update'.sql[t] = update.sql[t]
           \/ at \in Planning \ {"plan"} /\ update'.sql[t] = plan
    BY <1>18, UpdateGrows
  <2>2. at' \in Planning \ {"plan"} =>
           Sound(plan') \/ (at \in Planning \ {"plan"} /\ plan' = plan)
    BY <1>18, UpdateGrows
  <2>3. state' = state
    BY <1>18, UpdateGrows
  <2> HIDE DEF Planning
  <2> QED
    BY <2>1, <2>2, <2>3
<1>19. CASE Persist
  BY <1>19 DEF Persist, NextTable, Put, Go, UnchangedByNode
<1>20. CASE Evidence
  BY <1>20 DEF Evidence, NextTable, Chained, Go, UnchangedByNode
<1>21. CASE Partial
  BY <1>21 DEF Partial, In, Save, Put, Go, UnchangedByNode
<1>22. CASE Answer
  BY <1>22 DEF Answer, In, Save, Put, Go, UnchangedByNode
<1>23. CASE Return
  <2>1. at' = "over" /\ update' = Nothing /\ state' = Merge(state, update)
    BY <1>23 DEF Return, Forget, Go
  <2>2. \A t \in Tables : state'.sql[t] \in {state.sql[t], update.sql[t]} /\ update'.sql[t] = None
    BY <2>1, Merged, NothingIsState
  <2> QED
    BY <2>1, <2>2
<1>24. CASE Throw
  <2>1. at' = "threw" /\ update' = Nothing /\ state' = state
    BY <1>24 DEF Throw, Forget, Go, Rethrown
  <2>2. \A t \in Tables : update'.sql[t] = None
    BY <2>1, NothingIsState
  <2> QED
    BY <2>1, <2>2
<1>25. CASE GraphStep
  BY <1>25 DEF GraphStep, Enter, Go, Following, RouteAfterSql
<1>26. CASE Disconnect
  BY <1>26 DEF Disconnect
<1>27. CASE Lose
  BY <1>27 DEF Lose
<1>28. CASE UNCHANGED vars
  BY <1>28 DEF vars
<1> HIDE DEF TypeOK, Placed, Grounded, AtWork, Planning, Answering, routeVars, nodeVars,
        storeVars
<1> QED
  BY <1>1, <1>2, <1>3, <1>4, <1>5, <1>6, <1>7, <1>8, <1>9, <1>10, <1>11, <1>12, <1>13,
     <1>14, <1>15, <1>16, <1>17, <1>18, <1>19, <1>20, <1>21, <1>22, <1>23, <1>24, <1>25,
     <1>26, <1>27, <1>28
     DEF Next, RouteStep, NodeStep

(* Every step keeps the chunks of state, record and chain the same.        *)
LEMMA RetrievedStep ==
    ASSUME IInv, [Next]_vars PROVE Retrieved'
<1> TypeOK /\ Placed /\ Retrieved
  BY DEF IInv
<1> USE AskAssumption DEF TypeOK, Placed, Retrieved, BeforeRetrieved, Streaming, InChain,
        AtWork, Planning, Answering, Records, OptionalRecord, routeVars, nodeVars,
        storeVars
<1>1. CASE Start
  BY <1>1 DEF Start, Chained, Fail
<1>2. CASE Create
  BY <1>2 DEF Create, Put, Fail
<1>3. CASE GiveUp
  BY <1>3 DEF GiveUp, LeaveStream, Fail
<1>4. CASE Reload
  BY <1>4 DEF Reload, Fail
<1>5. CASE Complete
  BY <1>5 DEF Complete, Chained, TellWhen, Fail
<1>6. CASE Mark
  BY <1>6 DEF Mark
<1>7. CASE SetError
  BY <1>7 DEF SetError, Put
<1>8. CASE Understand
  BY <1>8 DEF Understand, In, Go, UnchangedByNode
<1>9. CASE Load
  BY <1>9 DEF Load, In, Go, AfterLoad, Nodes, UnchangedByNode
<1>10. CASE SetStatus
  BY <1>10 DEF SetStatus, Save, Put, StatusOf, StatusName, Go, UnchangedByNode
<1>11. CASE NodeThrows
  BY <1>11 DEF NodeThrows, Go, UnchangedByNode
<1>12. CASE Search
  <2>1. PICK found \in SUBSET Chunks : /\ update' = [update EXCEPT !.chunks = Canary(found)]
                                       /\ Save([copy EXCEPT !.chunks = Canary(found)], "retrieval")
    BY <1>12 DEF Search, Recorded
  <2>2. /\ node = "retrieve" /\ at = "search" /\ UNCHANGED <<node, state, chain, handler>>
        /\ copy # None
    BY <1>12 DEF Search, In, UnchangedByNode
  <2>3. EnforceLabels => Canary(found) \subseteq Readable
    BY DEF Canary
  <2>4. update'.chunks = Canary(found)
    BY <2>1 DEF States
  <2>5. /\ copy'.chunks = Canary(found) /\ record' \in {record, copy'}
        /\ at' = "retrieval" => record' = copy'
        /\ at' \in {"retrieval", "throw"}
    BY <2>1, <2>2 DEF Save, Put, Go
  <2> HIDE DEF Records, TypeOK, Placed
  <2> QED
    BY <2>2, <2>3, <2>4, <2>5
<1>13. CASE ChainRetrieval
  <2>1. /\ node = "retrieve" /\ at = "retrieval" /\ at' \in {"return", "throw"}
        /\ UNCHANGED <<node, update, state, copy, record, handler>>
    BY <1>13 DEF ChainRetrieval, In, Go, UnchangedByNode
  <2>2. PICK ok \in BOOLEAN :
           Chained(Event("retrieval", update.chunks, None, None), ok) /\ (at' = "return" => ok)
    BY <1>13 DEF ChainRetrieval, Go
  <2>3. update.chunks \in SUBSET Chunks
    BY DEF States
  <2> DEFINE e == Event("retrieval", update.chunks, None, None)
  <2>4. e \in EventRecords /\ e.type = "retrieval" /\ e.chunks = update.chunks
        /\ chain \in Seq(EventRecords)
    BY <2>3, EventsAreEvents
  <2> HIDE DEF e
  <2>5. Chained(e, ok)
    BY <2>2 DEF e
  <2>6. ok => InChain(update.chunks)'
    <3> SUFFICES ASSUME ok PROVE \E j \in DOMAIN chain' : /\ chain'[j].type = "retrieval"
                                                          /\ chain'[j].chunks = update.chunks
      BY <2>1
    <3>1. chain' = Append(chain, e)
      BY <2>5 DEF Chained
    <3>2. Len(chain) + 1 \in DOMAIN chain' /\ chain'[Len(chain) + 1] = e
      BY <2>4, <3>1
    <3> QED
      BY <2>4, <3>2
  <2> QED
    BY <2>1, <2>2, <2>6
<1>14. CASE Gate
  BY <1>14 DEF Gate, In, Go, UnchangedByNode
<1>15. CASE PlanQuery
  <2> HIDE DEF TypeOK, Placed
  <2>1. update'.chunks = update.chunks /\ node = "sql_retrieve" /\ at' # "over" /\ at # "over"
    BY <1>15, UpdateGrows
  <2>2. UNCHANGED <<copy, record, node, state, chain, handler>>
    BY <1>15, UpdateGrows
  <2> QED
    BY <2>1, <2>2
<1>16. CASE Rejected
  BY <1>16 DEF Rejected, ReplanAfter, Go, UnchangedByNode
<1>17. CASE Replan
  <2> HIDE DEF TypeOK, Placed
  <2>1. update'.chunks = update.chunks /\ node = "sql_retrieve" /\ at' # "over" /\ at # "over"
    BY <1>17, UpdateGrows
  <2>2. UNCHANGED <<copy, record, node, state, chain, handler>>
    BY <1>17, UpdateGrows
  <2> QED
    BY <2>1, <2>2
<1>18. CASE Execute
  <2> HIDE DEF TypeOK, Placed
  <2>1. update'.chunks = update.chunks /\ node = "sql_retrieve" /\ at' # "over" /\ at # "over"
    BY <1>18, UpdateGrows
  <2>2. UNCHANGED <<copy, record, node, state, chain, handler>>
    BY <1>18, UpdateGrows
  <2> QED
    BY <2>1, <2>2
<1>19. CASE Persist
  BY <1>19 DEF Persist, NextTable, Put, Go, UnchangedByNode
<1>20. CASE Evidence
  <2>1. /\ node = "sql_retrieve" /\ at' \in {"return", "plan"} /\ at = "evidence"
        /\ UNCHANGED <<node, update, state, copy, record, handler>>
    BY <1>20 DEF Evidence, NextTable, Go, UnchangedByNode
  <2>2. PICK ok \in BOOLEAN : Chained(Event("sql_query", {}, Head(todo), None), ok)
    BY <1>20 DEF Evidence
  <2>3. Head(todo) \in Tables
    BY <2>1, TodoLeft
  <2> DEFINE e == Event("sql_query", {}, Head(todo), None)
  <2>4. e \in EventRecords /\ chain \in Seq(EventRecords)
    BY <2>3, EventsAreEvents
  <2> HIDE DEF e, InChain
  <2>5. InChain(state.chunks) => InChain(state.chunks)'
    BY <2>1, <2>2, <2>4, ChainKept DEF e
  <2> QED
    BY <2>1, <2>5
<1>21. CASE Partial
  BY <1>21 DEF Partial, In, Save, Put, Go, UnchangedByNode
<1>22. CASE Answer
  <2>1. /\ node \in Answering /\ copy'.chunks = copy.chunks /\ record' \in {record, copy'}
        /\ copy # None
        /\ UNCHANGED <<node, state, chain, handler, update>> /\ at' \in {"return", "throw"}
    BY <1>22 DEF Answer, In, Save, Put, Go, UnchangedByNode
  <2>2. Streaming => \A rec \in {record, copy} \ {None} : rec.chunks = state.chunks
    BY <2>1
  <2>3. Streaming => \A rec \in {record', copy'} \ {None} : rec.chunks = state.chunks
    BY <2>1, <2>2
  <2>4. ~BeforeRetrieved /\ update.chunks = {} /\ (EnforceLabels => state.chunks \subseteq Readable)
    BY <2>1
  <2>5. Streaming => InChain(state.chunks)
    BY <2>4
  <2> HIDE DEF TypeOK, Placed, Records, Retrieved, InChain
  <2>6. InChain(state.chunks)' <=> InChain(state.chunks)
    BY <2>1 DEF InChain
  <2> QED
    BY <2>1, <2>3, <2>4, <2>5, <2>6 DEF Retrieved
<1>23. CASE Return
  <2>1. /\ UNCHANGED <<node, record, chain, handler>> /\ at' = "over" /\ copy' = None /\ update' = Nothing
        /\ state' = Merge(state, update) /\ at = "return"
    BY <1>23 DEF Return, Forget, Go
  <2>2. state'.chunks = state.chunks \cup update.chunks /\ update'.chunks = {}
    BY <2>1, Merged, NothingIsState
  <2>3. node = "retrieve" => state'.chunks = update.chunks
    BY <2>1, <2>2
  <2>4. node # "retrieve" => state'.chunks = state.chunks
    BY <2>1, <2>2
  <2> QED
    BY <2>1, <2>2, <2>3, <2>4
<1>24. CASE Throw
  <2>1. /\ UNCHANGED <<node, record, state, chain, handler>> /\ at' = "threw" /\ copy' = None
        /\ update' = Nothing /\ at = "throw"
    BY <1>24 DEF Throw, Forget, Go, Rethrown
  <2>2. update'.chunks = {}
    BY <2>1, NothingIsState
  <2> QED
    BY <2>1, <2>2
<1>25. CASE GraphStep
  <2>1. /\ handler = "stream" /\ UNCHANGED <<state, record, chain, update>>
        /\ copy' = None /\ copy = None
        /\ handler' \in {"stream", "reload"}
    BY <1>25 DEF GraphStep, Enter
  <2>2. \/ node' = "understand" /\ at' = "begin" /\ node = "understand"
        \/ node = "understand" /\ node' = "retrieve" /\ at' = "begin"
        \/ /\ node # "understand" /\ at = "over" /\ node' \notin {"understand", "retrieve"}
           /\ at' \in {"begin", "over"}
    BY <1>25 DEF GraphStep, Enter, Go, Following, RouteAfterSql, Nodes
  <2>3. update.chunks = {}
    BY <1>25 DEF GraphStep
  <2> HIDE DEF TypeOK, Placed, Records
  <2> QED
    BY <2>1, <2>2, <2>3
<1>26. CASE Disconnect
  BY <1>26 DEF Disconnect
<1>27. CASE Lose
  BY <1>27 DEF Lose
<1>28. CASE UNCHANGED vars
  BY <1>28 DEF vars
<1> HIDE DEF TypeOK, Placed, Retrieved, BeforeRetrieved, Streaming, InChain, AtWork,
        Planning, Answering, Records, OptionalRecord, routeVars, nodeVars, storeVars
<1> QED
  BY <1>1, <1>2, <1>3, <1>4, <1>5, <1>6, <1>7, <1>8, <1>9, <1>10, <1>11, <1>12, <1>13,
     <1>14, <1>15, <1>16, <1>17, <1>18, <1>19, <1>20, <1>21, <1>22, <1>23, <1>24, <1>25,
     <1>26, <1>27, <1>28
     DEF Next, RouteStep, NodeStep

(* Every step keeps what finalize saw.                                     *)
LEMMA CompletedStep ==
    ASSUME IInv, [Next]_vars PROVE Completed'
<1> TypeOK /\ Placed /\ Marked /\ Completed /\ Retrieved
  BY DEF IInv
<1> USE AskAssumption DEF TypeOK, Placed, Marked, Completed, Streaming, AtWork, Planning,
        Answering, Records, OptionalRecord, routeVars, nodeVars, storeVars
<1>1. CASE Start
  <2>1. PICK ok \in BOOLEAN : Chained(RunStarted, ok)
    BY <1>1 DEF Start
  <2> DEFINE e == RunStarted
  <2>2. e \in EventRecords /\ e.type # "run_completed" /\ chain \in Seq(EventRecords)
    BY <1>1, EventsAreEvents, TodoLeft DEF Start
  <2> HIDE DEF e
  <2>3. \A i \in DOMAIN chain' :
           (i \in DOMAIN chain /\ chain'[i] = chain[i]) \/ chain'[i] = e
    BY <2>1, <2>2, ChainGrows DEF e
  <2>4. /\ UNCHANGED <<node, record, mine>> /\ told' # "complete" /\ handler' # "complete"
        /\ ~(node = "finalize" /\ at' \in {"return", "over"})
    BY <1>1 DEF Start, Fail
  <2>5. \A i \in DOMAIN chain : chain[i].type # "run_completed"
    BY <1>1 DEF Start, Fail, Completed
  <2> QED
    BY <2>2, <2>3, <2>4, <2>5 DEF Completed, Streaming
<1>2. CASE Create
  BY <1>2 DEF Create, Put, Fail
<1>3. CASE GiveUp
  BY <1>3 DEF GiveUp, LeaveStream, Fail
<1>4. CASE Reload
  <2>1. /\ node = "finalize" /\ at = "over" /\ Streaming
        /\ UNCHANGED <<node, at, record, chain, state>> /\ handler' \in {"complete", "mark"}
        /\ handler' = "complete" => record # None /\ mine' = record
        /\ told' # "complete"
    BY <1>4 DEF Reload, Fail
  <2>2. record # None => record.status = "complete" /\ record.chunks = state.chunks
    BY <2>1 DEF Retrieved, BeforeRetrieved, Completed
  <2>3. \A i \in DOMAIN chain : chain[i].type # "run_completed"
    BY <1>4 DEF Completed, Reload
  <2> QED
    BY <2>1, <2>2, <2>3 DEF Completed, Streaming
<1>5. CASE Complete
  BY <1>5 DEF Complete, Chained, TellWhen, Fail
<1>6. CASE Mark
  BY <1>6 DEF Mark
<1>7. CASE SetError
  BY <1>7 DEF SetError, Put
<1>8. CASE Understand
  BY <1>8 DEF Understand, In, Go, UnchangedByNode
<1>9. CASE Load
  BY <1>9 DEF Load, In, Go, AfterLoad, Nodes, UnchangedByNode
<1>10. CASE SetStatus
  BY <1>10 DEF SetStatus, Save, Put, StatusOf, StatusName, Go, UnchangedByNode
<1>11. CASE NodeThrows
  BY <1>11 DEF NodeThrows, Go, UnchangedByNode
<1>12. CASE Search
  BY <1>12 DEF Search, In, Canary, Recorded, Save, Put, Go, UnchangedByNode
<1>13. CASE ChainRetrieval
  <2>1. PICK ok \in BOOLEAN : Chained(Event("retrieval", update.chunks, None, None), ok)
    BY <1>13 DEF ChainRetrieval
  <2> DEFINE e == Event("retrieval", update.chunks, None, None)
  <2>2. e \in EventRecords /\ e.type # "run_completed" /\ chain \in Seq(EventRecords)
    BY <1>13, EventsAreEvents, TodoLeft DEF ChainRetrieval, States
  <2> HIDE DEF e
  <2>3. \A i \in DOMAIN chain' :
           (i \in DOMAIN chain /\ chain'[i] = chain[i]) \/ chain'[i] = e
    BY <2>1, <2>2, ChainGrows DEF e
  <2>4. /\ UNCHANGED <<node, record, mine>> /\ told' # "complete" /\ handler' # "complete"
        /\ ~(node = "finalize" /\ at' \in {"return", "over"})
    BY <1>13 DEF ChainRetrieval, In, Go, UnchangedByNode
  <2>5. \A i \in DOMAIN chain : chain[i].type # "run_completed"
    BY <1>13 DEF ChainRetrieval, In, Go, UnchangedByNode, Completed
  <2> QED
    BY <2>2, <2>3, <2>4, <2>5 DEF Completed, Streaming
<1>14. CASE Gate
  BY <1>14 DEF Gate, In, Go, UnchangedByNode
<1>15. CASE PlanQuery
  BY <1>15 DEF PlanQuery, NextTable, GroundingIssue, Go, UnchangedByNode
<1>16. CASE Rejected
  BY <1>16 DEF Rejected, ReplanAfter, Go, UnchangedByNode
<1>17. CASE Replan
  BY <1>17 DEF Replan, NextTable, GroundingIssue, Go, UnchangedByNode
<1>18. CASE Execute
  BY <1>18 DEF Execute, NextTable, Go, UnchangedByNode
<1>19. CASE Persist
  BY <1>19 DEF Persist, NextTable, Put, Go, UnchangedByNode
<1>20. CASE Evidence
  <2>1. PICK ok \in BOOLEAN : Chained(Event("sql_query", {}, Head(todo), None), ok)
    BY <1>20 DEF Evidence
  <2> DEFINE e == Event("sql_query", {}, Head(todo), None)
  <2>2. e \in EventRecords /\ e.type # "run_completed" /\ chain \in Seq(EventRecords)
    BY <1>20, EventsAreEvents, TodoLeft DEF Evidence, Planning
  <2> HIDE DEF e
  <2>3. \A i \in DOMAIN chain' :
           (i \in DOMAIN chain /\ chain'[i] = chain[i]) \/ chain'[i] = e
    BY <2>1, <2>2, ChainGrows DEF e
  <2>4. /\ UNCHANGED <<node, record, mine>> /\ told' # "complete" /\ handler' # "complete"
        /\ ~(node = "finalize" /\ at' \in {"return", "over"})
    BY <1>20 DEF Evidence, NextTable, Go, UnchangedByNode
  <2>5. \A i \in DOMAIN chain : chain[i].type # "run_completed"
    BY <1>20 DEF Evidence, NextTable, Go, UnchangedByNode, Completed
  <2> QED
    BY <2>2, <2>3, <2>4, <2>5 DEF Completed, Streaming
<1>21. CASE Partial
  BY <1>21 DEF Partial, In, Save, Put, Go, UnchangedByNode
<1>22. CASE Answer
  BY <1>22 DEF Answer, In, Save, Put, Go, UnchangedByNode
<1>23. CASE Return
  BY <1>23 DEF Return, Forget, Go, Row
<1>24. CASE Throw
  BY <1>24 DEF Throw, Forget, Go, Rethrown, Row
<1>25. CASE GraphStep
  BY <1>25 DEF GraphStep, Enter, Go, Following, RouteAfterSql
<1>26. CASE Disconnect
  BY <1>26 DEF Disconnect
<1>27. CASE Lose
  BY <1>27 DEF Lose
<1>28. CASE UNCHANGED vars
  BY <1>28 DEF vars
<1> HIDE DEF TypeOK, Placed, Marked, Completed, Streaming, AtWork, Planning, Answering,
        Records, OptionalRecord, routeVars, nodeVars, storeVars
<1> QED
  BY <1>1, <1>2, <1>3, <1>4, <1>5, <1>6, <1>7, <1>8, <1>9, <1>10, <1>11, <1>12, <1>13,
     <1>14, <1>15, <1>16, <1>17, <1>18, <1>19, <1>20, <1>21, <1>22, <1>23, <1>24, <1>25,
     <1>26, <1>27, <1>28
     DEF Next, RouteStep, NodeStep

(* A node at work chains no completion.                                    *)
LEMMA NodeIsNotOver ==
    ASSUME IInv, NodeStep
    PROVE  /\ at # "over" /\ (at' = "over" => chain' = chain)
           /\ UNCHANGED <<handler, told, mine>>
<1> TypeOK /\ Placed
  BY DEF IInv
<1> USE DEF routeVars
<1>1. CASE Understand \/ Load
  BY <1>1 DEF Understand, Load, In, Go, UnchangedByNode
<1>2. CASE SetStatus \/ NodeThrows
  BY <1>2 DEF SetStatus, NodeThrows, Save, Go, UnchangedByNode
<1>3. CASE Search \/ ChainRetrieval
  BY <1>3 DEF Search, ChainRetrieval, In, Save, Go, UnchangedByNode
<1>4. CASE Gate
  BY <1>4 DEF Gate, In, Go, UnchangedByNode
<1>5. CASE PlanQuery \/ Replan
  BY <1>5 DEF PlanQuery, Replan, NextTable, GroundingIssue, Go, UnchangedByNode
<1>6. CASE Rejected \/ Execute
  BY <1>6 DEF Rejected, ReplanAfter, Execute, NextTable, Go, UnchangedByNode
<1>7. CASE Persist \/ Evidence
  BY <1>7 DEF Persist, Evidence, NextTable, Go, UnchangedByNode
<1>8. CASE Partial \/ Answer
  BY <1>8 DEF Partial, Answer, In, Save, Go, UnchangedByNode
<1>9. CASE Return \/ Throw
  BY <1>9 DEF Return, Throw
<1> HIDE DEF routeVars
<1> QED
  BY <1>1, <1>2, <1>3, <1>4, <1>5, <1>6, <1>7, <1>8, <1>9 DEF NodeStep

(* Every step leaves the record what the completion binds.                 *)
LEMMA ClosedStep ==
    ASSUME IInv, [Next]_vars PROVE Closed'
<1> TypeOK /\ Placed /\ Marked /\ Completed /\ Closed
  BY DEF IInv
<1>0. /\ \A i \in DOMAIN chain : chain[i].type = "run_completed" =>
            handler \in {"mark", "set_error", "ended"} /\ at = "over"
      /\ \A i \in DOMAIN chain' : chain'[i].type = "run_completed" => at' = "over"
  BY CompletedStep DEF Completed
<1>1. CASE NodeStep
  BY <1>0, <1>1, NodeIsNotOver DEF Closed
<1>2. CASE GraphStep
  BY <1>0, <1>2 DEF GraphStep, Closed
<1>3. CASE Disconnect \/ UNCHANGED vars
  BY <1>3 DEF Disconnect, vars, routeVars, storeVars, Closed
<1>4. CASE Lose
  BY <1>4 DEF Lose, routeVars, Closed
<1>5. CASE Start
  <2>1. at' = "idle" /\ handler' \notin {"mark", "set_error"}
    BY <1>5 DEF Start, Fail, nodeVars, Placed
  <2> QED
    BY <1>0, <2>1 DEF Closed
<1>6. CASE Create \/ GiveUp \/ Reload
  <2>1. /\ handler \notin {"mark", "set_error", "ended"} /\ chain' = chain
        /\ handler' \in {"mark", "set_error"} => told' = "error"
    BY <1>6 DEF Create, GiveUp, Reload, Fail
  <2> QED
    BY <1>0, <2>1 DEF Closed
<1>7. CASE Complete
  <2>1. PICK ok \in BOOLEAN : Chained(RunCompleted(mine), ok)
    BY <1>7 DEF Complete
  <2>2. /\ handler = "complete" /\ UNCHANGED <<mine, record>>
        /\ told' \in {"complete", "error"}
        /\ handler' \in {"mark", "set_error"} => told' = "error"
    BY <1>7 DEF Complete, Fail, storeVars
  <2>3. /\ mine \in Records /\ mine # None /\ mine.status = "complete" /\ record \in {mine, None}
    BY <2>2 DEF Placed, Completed, TypeOK, OptionalRecord
  <2> DEFINE e == RunCompleted(mine)
  <2>4. /\ e \in EventRecords /\ e.chunks = mine.chunks /\ e.answer = mine.answer
        /\ chain \in Seq(EventRecords)
    BY <2>3, EventsAreEvents
  <2> HIDE DEF e
  <2>5. \A i \in DOMAIN chain' : (i \in DOMAIN chain /\ chain'[i] = chain[i]) \/ chain'[i] = e
    BY <2>1, <2>4, ChainGrows DEF e
  <2>6. ASSUME NEW i \in DOMAIN chain', chain'[i].type = "run_completed" PROVE chain'[i] = e
    BY <1>0, <2>2, <2>5, <2>6
  <2>7. told' # None
    BY <2>2, AskAssumption
  <2> QED
    BY <2>2, <2>3, <2>4, <2>6, <2>7 DEF Closed
<1>8. CASE Mark
  <2>1. /\ handler = "mark" /\ UNCHANGED <<told, record, chain>> /\ told = "error"
        /\ mine' \in {mine, record} /\ (mine' # mine => record # None)
    BY <1>8 DEF Mark, storeVars, Closed
  <2>2. record # None => record.status # "failed"
    BY <2>1 DEF Marked
  <2>3. mine \in Records \cup {None}
    BY DEF TypeOK, OptionalRecord
  <2>4. ASSUME NEW i \in DOMAIN chain, chain[i].type = "run_completed"
        PROVE  /\ mine # None /\ mine.status = "complete" /\ mine' = mine /\ record \in {mine, None}
               /\ chain[i].answer = mine.answer /\ chain[i].chunks = mine.chunks
    <3>1. [mine EXCEPT !.status = "failed"].status = "failed"
      BY <2>3, <2>4 DEF Closed, Records
    <3> QED
      BY <2>1, <2>2, <2>4, <3>1, AskAssumption DEF Closed, Records
  <2> QED
    BY <2>1, <2>4 DEF Closed
<1>9. CASE SetError
  <2>1. /\ handler = "set_error" /\ UNCHANGED <<told, mine, chain>> /\ told = "error"
        /\ handler' = "ended" /\ record' \in {record, [mine EXCEPT !.status = "failed"]}
    BY <1>9 DEF SetError, Put, Closed
  <2> QED
    BY <2>1 DEF Closed
<1> QED
  BY <1>1, <1>2, <1>3, <1>4, <1>5, <1>6, <1>7, <1>8, <1>9 DEF Next, RouteStep

(* Every step leaves the completion the last event, and explained.         *)
LEMMA ClosesStep ==
    ASSUME IInv, [Next]_vars PROVE CompletionCloses'
<1> TypeOK /\ Placed /\ Marked /\ Completed /\ Retrieved /\ CompletionCloses
  BY DEF IInv
<1> USE AskAssumption DEF TypeOK, Placed, AtWork, Planning, OptionalRecord, routeVars,
        nodeVars, storeVars
<1>1. CASE Start
  <2>1. PICK ok \in BOOLEAN : Chained(RunStarted, ok)
    BY <1>1 DEF Start
  <2> DEFINE e == RunStarted
  <2>2. e \in EventRecords /\ e.type # "run_completed" /\ chain \in Seq(EventRecords)
    BY <1>1, EventsAreEvents, TodoLeft DEF Start
  <2> HIDE DEF e
  <2>3. \A i \in DOMAIN chain' :
           (i \in DOMAIN chain /\ chain'[i] = chain[i]) \/ chain'[i] = e
    BY <2>1, <2>2, ChainGrows DEF e
  <2>5. \A i \in DOMAIN chain : chain[i].type # "run_completed"
    BY <1>1 DEF Start, Fail, Completed
  <2> QED
    BY <2>2, <2>3, <2>5 DEF CompletionCloses
<1>2. CASE Create
  BY <1>2 DEF Create, Put, Fail, CompletionCloses
<1>3. CASE GiveUp
  BY <1>3 DEF GiveUp, LeaveStream, Fail, CompletionCloses
<1>4. CASE Reload
  BY <1>4 DEF Reload, Fail, CompletionCloses
<1>5. CASE Complete
  <2>1. PICK ok \in BOOLEAN : Chained(RunCompleted(mine), ok)
    BY <1>5 DEF Complete
  <2>2. /\ handler = "complete" /\ mine \in Records /\ mine.chunks = state.chunks
        /\ mine.status = "complete" /\ node = "finalize"
    BY <1>5 DEF Complete, Completed
  <2>3. mine.answer # None /\ (EnforceLabels => mine.chunks \subseteq Readable) /\ InChain(mine.chunks)
    BY <2>2 DEF Marked, Retrieved, BeforeRetrieved, Streaming
  <2> DEFINE e == RunCompleted(mine)
  <2>4. /\ e \in EventRecords /\ e.chunks = mine.chunks /\ e.answer = mine.answer
        /\ chain \in Seq(EventRecords)
    BY <2>2, EventsAreEvents
  <2> HIDE DEF e
  <2>5. \A i \in DOMAIN chain : chain[i].type # "run_completed"
    BY <2>2 DEF Completed
  <2>6. PICK j \in DOMAIN chain : chain[j].type = "retrieval" /\ chain[j].chunks = mine.chunks
    BY <2>3 DEF InChain
  <2>7. CASE chain' = chain
    BY <2>5, <2>7 DEF CompletionCloses
  <2>8. CASE chain' = Append(chain, e)
    <3>1. /\ Len(chain') = Len(chain) + 1 /\ chain'[Len(chain) + 1] = e
          /\ \A i \in DOMAIN chain : i \in DOMAIN chain' /\ chain'[i] = chain[i]
          /\ DOMAIN chain' = 1 .. Len(chain) + 1 /\ DOMAIN chain = 1 .. Len(chain) /\ Len(chain) \in Nat
      BY <2>4, <2>8
    <3>2. ASSUME NEW i \in DOMAIN chain', chain'[i].type = "run_completed"
          PROVE  i = Len(chain) + 1
      BY <2>5, <3>1, <3>2
    <3>3. j \in 1 .. Len(chain) /\ chain'[j].type = "retrieval" /\ chain'[j].chunks = e.chunks
      BY <2>4, <2>6, <3>1
    <3>4. ASSUME NEW i \in DOMAIN chain', chain'[i].type = "run_completed"
          PROVE  /\ i = Len(chain') /\ chain'[i] = e
                 /\ \E k \in 1 .. (i - 1) : chain'[k].type = "retrieval" /\ chain'[k].chunks = chain'[i].chunks
      <4>1. i = Len(chain) + 1
        BY <3>2, <3>4
      <4>2. chain'[i] = e /\ i = Len(chain')
        BY <3>1, <4>1
      <4>3. j \in 1 .. (i - 1)
        BY <3>1, <3>3, <4>1
      <4> QED
        BY <3>3, <4>2, <4>3
    <3> QED
      BY <2>3, <2>4, <3>4 DEF CompletionCloses
  <2> QED
    BY <2>1, <2>7, <2>8 DEF Chained, e
<1>6. CASE Mark
  BY <1>6 DEF Mark, CompletionCloses
<1>7. CASE SetError
  BY <1>7 DEF SetError, Put, CompletionCloses
<1>8. CASE Understand
  BY <1>8 DEF Understand, In, Go, UnchangedByNode, CompletionCloses
<1>9. CASE Load
  BY <1>9 DEF Load, In, Go, AfterLoad, Nodes, UnchangedByNode, CompletionCloses
<1>10. CASE SetStatus
  BY <1>10 DEF SetStatus, Save, Put, StatusOf, StatusName, Go, UnchangedByNode, CompletionCloses
<1>11. CASE NodeThrows
  BY <1>11 DEF NodeThrows, Go, UnchangedByNode, CompletionCloses
<1>12. CASE Search
  BY <1>12 DEF Search, In, Canary, Recorded, Save, Put, Go, UnchangedByNode, CompletionCloses
<1>13. CASE ChainRetrieval
  <2>1. PICK ok \in BOOLEAN : Chained(Event("retrieval", update.chunks, None, None), ok)
    BY <1>13 DEF ChainRetrieval
  <2> DEFINE e == Event("retrieval", update.chunks, None, None)
  <2>2. e \in EventRecords /\ e.type # "run_completed" /\ chain \in Seq(EventRecords)
    BY <1>13, EventsAreEvents, TodoLeft DEF ChainRetrieval, States
  <2> HIDE DEF e
  <2>3. \A i \in DOMAIN chain' :
           (i \in DOMAIN chain /\ chain'[i] = chain[i]) \/ chain'[i] = e
    BY <2>1, <2>2, ChainGrows DEF e
  <2>5. \A i \in DOMAIN chain : chain[i].type # "run_completed"
    BY <1>13 DEF ChainRetrieval, In, Go, UnchangedByNode, Completed
  <2> QED
    BY <2>2, <2>3, <2>5 DEF CompletionCloses
<1>14. CASE Gate
  BY <1>14 DEF Gate, In, Go, UnchangedByNode, CompletionCloses
<1>15. CASE PlanQuery
  BY <1>15 DEF PlanQuery, NextTable, GroundingIssue, Go, UnchangedByNode, CompletionCloses
<1>16. CASE Rejected
  BY <1>16 DEF Rejected, ReplanAfter, Go, UnchangedByNode, CompletionCloses
<1>17. CASE Replan
  BY <1>17 DEF Replan, NextTable, GroundingIssue, Go, UnchangedByNode, CompletionCloses
<1>18. CASE Execute
  BY <1>18 DEF Execute, NextTable, Go, UnchangedByNode, CompletionCloses
<1>19. CASE Persist
  BY <1>19 DEF Persist, NextTable, Put, Go, UnchangedByNode, CompletionCloses
<1>20. CASE Evidence
  <2>1. PICK ok \in BOOLEAN : Chained(Event("sql_query", {}, Head(todo), None), ok)
    BY <1>20 DEF Evidence
  <2> DEFINE e == Event("sql_query", {}, Head(todo), None)
  <2>2. e \in EventRecords /\ e.type # "run_completed" /\ chain \in Seq(EventRecords)
    BY <1>20, EventsAreEvents, TodoLeft DEF Evidence, Planning
  <2> HIDE DEF e
  <2>3. \A i \in DOMAIN chain' :
           (i \in DOMAIN chain /\ chain'[i] = chain[i]) \/ chain'[i] = e
    BY <2>1, <2>2, ChainGrows DEF e
  <2>5. \A i \in DOMAIN chain : chain[i].type # "run_completed"
    BY <1>20 DEF Evidence, NextTable, Go, UnchangedByNode, Completed
  <2> QED
    BY <2>2, <2>3, <2>5 DEF CompletionCloses
<1>21. CASE Partial
  BY <1>21 DEF Partial, In, Save, Put, Go, UnchangedByNode, CompletionCloses
<1>22. CASE Answer
  BY <1>22 DEF Answer, In, Save, Put, Go, UnchangedByNode, CompletionCloses
<1>23. CASE Return
  BY <1>23 DEF Return, Forget, Go, Row, CompletionCloses
<1>24. CASE Throw
  BY <1>24 DEF Throw, Forget, Go, Rethrown, Row, CompletionCloses
<1>25. CASE GraphStep
  BY <1>25 DEF GraphStep, Enter, Go, Following, RouteAfterSql, CompletionCloses
<1>26. CASE Disconnect
  BY <1>26 DEF Disconnect, CompletionCloses
<1>27. CASE Lose
  BY <1>27 DEF Lose, CompletionCloses
<1>28. CASE UNCHANGED vars
  BY <1>28 DEF vars, CompletionCloses
<1> HIDE DEF TypeOK, Placed, AtWork, Planning, OptionalRecord, routeVars, nodeVars, storeVars
<1> QED
  BY <1>1, <1>2, <1>3, <1>4, <1>5, <1>6, <1>7, <1>8, <1>9, <1>10, <1>11, <1>12, <1>13,
     <1>14, <1>15, <1>16, <1>17, <1>18, <1>19, <1>20, <1>21, <1>22, <1>23, <1>24, <1>25,
     <1>26, <1>27, <1>28
     DEF Next, RouteStep, NodeStep

(* The order of the nodes.                                                 *)
LEMMA Depths ==
    /\ Depth("understand") = 1 /\ Depth("retrieve") = 2 /\ Depth("sql_retrieve") = 3
    /\ Depth("grounding_notice") = 4 /\ Depth("direct_answer") = 4 /\ Depth("draft") = 4
    /\ Depth("reconcile") = 5 /\ Depth("finalize") = 6
BY DEF Depth

LEMMA DepthIsNat == \A n \in Nodes : Depth(n) \in Nat
BY Depths DEF Nodes

LEMMA TraceRows == TypeOK => \A i \in DOMAIN trace : trace[i].node \in Nodes
<1> SUFFICES ASSUME TypeOK, NEW i \in DOMAIN trace PROVE trace[i].node \in Nodes
  OBVIOUS
<1> DEFINE rows == [node : Nodes, status : {"ok", "error"}]
<1>1. trace \in Seq(rows)
  BY DEF TypeOK
<1>2. \A row \in rows : row.node \in Nodes
  OBVIOUS
<1> HIDE DEF rows
<1>3. trace[i] \in rows
  BY <1>1, ElementOfSeq
<1> QED
  BY <1>2, <1>3

(* Every step leaves the trace a path to the present node.                 *)
LEMMA TracedStep ==
    ASSUME IInv, [Next]_vars PROVE Traced'
<1> TypeOK /\ Placed /\ Traced
  BY DEF IInv
<1> USE AskAssumption DEF TypeOK, Placed, AtWork, Planning, Answering, routeVars, nodeVars,
        storeVars
<1>1. CASE Start
  BY <1>1 DEF Start, Chained, Fail, Traced, TraceIsAPath
<1>2. CASE Create
  BY <1>2 DEF Create, Put, Fail, Traced, TraceIsAPath
<1>3. CASE GiveUp
  BY <1>3 DEF GiveUp, LeaveStream, Fail, Traced, TraceIsAPath
<1>4. CASE Reload
  BY <1>4 DEF Reload, Fail, Traced, TraceIsAPath
<1>5. CASE Complete
  BY <1>5 DEF Complete, Chained, TellWhen, Fail, Traced, TraceIsAPath
<1>6. CASE Mark
  BY <1>6 DEF Mark, Traced, TraceIsAPath
<1>7. CASE SetError
  BY <1>7 DEF SetError, Put, Traced, TraceIsAPath
<1>8. CASE Understand
  BY <1>8 DEF Understand, In, Go, UnchangedByNode, Traced, TraceIsAPath
<1>9. CASE Load
  BY <1>9 DEF Load, In, Go, AfterLoad, Nodes, UnchangedByNode, Traced, TraceIsAPath
<1>10. CASE SetStatus
  BY <1>10 DEF SetStatus, Save, Put, StatusOf, StatusName, Go, UnchangedByNode, Traced,
     TraceIsAPath
<1>11. CASE NodeThrows
  BY <1>11 DEF NodeThrows, Go, UnchangedByNode, Traced, TraceIsAPath
<1>12. CASE Search
  BY <1>12 DEF Search, In, Canary, Recorded, Save, Put, Go, UnchangedByNode, Traced,
     TraceIsAPath
<1>13. CASE ChainRetrieval
  BY <1>13 DEF ChainRetrieval, In, Chained, Go, UnchangedByNode, Traced, TraceIsAPath
<1>14. CASE Gate
  BY <1>14 DEF Gate, In, Go, UnchangedByNode, Traced, TraceIsAPath
<1>15. CASE PlanQuery
  BY <1>15 DEF PlanQuery, NextTable, GroundingIssue, Go, UnchangedByNode, Traced, TraceIsAPath
<1>16. CASE Rejected
  BY <1>16 DEF Rejected, ReplanAfter, Go, UnchangedByNode, Traced, TraceIsAPath
<1>17. CASE Replan
  BY <1>17 DEF Replan, NextTable, GroundingIssue, Go, UnchangedByNode, Traced, TraceIsAPath
<1>18. CASE Execute
  BY <1>18 DEF Execute, NextTable, Go, UnchangedByNode, Traced, TraceIsAPath
<1>19. CASE Persist
  BY <1>19 DEF Persist, NextTable, Put, Go, UnchangedByNode, Traced, TraceIsAPath
<1>20. CASE Evidence
  BY <1>20 DEF Evidence, NextTable, Chained, Go, UnchangedByNode, Traced, TraceIsAPath
<1>21. CASE Partial
  BY <1>21 DEF Partial, In, Save, Put, Go, UnchangedByNode, Traced, TraceIsAPath
<1>22. CASE Answer
  BY <1>22 DEF Answer, In, Save, Put, Go, UnchangedByNode, Traced, TraceIsAPath
<1>23. CASE Return
  <2>1. /\ UNCHANGED node /\ at = "return" /\ at' = "over"
        /\ trace' \in {trace, Append(trace, [node |-> node, status |-> "ok"])}
    BY <1>23 DEF Return, Forget, Go, Row, Rethrown
  <2>2. trace \in Seq([node : Nodes, status : {"ok", "error"}]) /\ node \in Nodes
    OBVIOUS
  <2> DEFINE new == [node |-> node, status |-> "ok"]
  <2>3. new.node = node /\ new.status = "ok" /\ new \in [node : Nodes, status : {"ok", "error"}]
    BY <2>2
  <2> HIDE DEF new, TypeOK
  <2>9. \A i \in DOMAIN trace : trace[i].node \in Nodes
    BY TraceRows
  <2>4. /\ \A i \in DOMAIN trace' :
             \/ i \in DOMAIN trace /\ trace'[i] = trace[i]
             \/ trace'[i] = new /\ \A j \in DOMAIN trace' : j <= i
        /\ \A i \in DOMAIN trace' : i \in Int
    <3> DEFINE rows == [node : Nodes, status : {"ok", "error"}]
    <3>1. trace \in Seq(rows) /\ new \in rows /\ trace' \in {trace, Append(trace, new)}
      BY <2>1, <2>2, <2>3 DEF new
    <3> HIDE DEF rows
    <3> QED
      BY <3>1
  <2>5. \A i \in DOMAIN trace :
           /\ trace[i].node \in Nodes /\ Depth(trace[i].node) \in Nat
           /\ Depth(trace[i].node) < Depth(node) /\ trace[i].status = "ok"
           /\ node = "reconcile" /\ Depth(trace[i].node) = 4 => trace[i].node = "draft"
    BY <2>1, <2>2, <2>9, DepthIsNat DEF Traced
  <2>6. TraceIsAPath'
    <3> SUFFICES ASSUME NEW i \in DOMAIN trace', NEW j \in DOMAIN trace', i < j
                 PROVE  /\ trace'[i].status = "ok"
                        /\ Depth(trace'[i].node) < Depth(trace'[j].node)
                        /\ trace'[j].node = "reconcile" /\ Depth(trace'[i].node) = 4
                              => trace'[i].node = "draft"
      BY DEF TraceIsAPath
    <3>1. i \in DOMAIN trace /\ trace'[i] = trace[i]
      BY <2>4
    <3>2. CASE j \in DOMAIN trace /\ trace'[j] = trace[j]
      BY <3>1, <3>2 DEF Traced, TraceIsAPath
    <3>3. CASE trace'[j] = new
      BY <2>3, <2>5, <3>1, <3>3
    <3> QED
      BY <2>4, <3>2, <3>3
  <2>7. Depth(node) \in Nat /\ (node = "reconcile" => Depth(node) # 4)
    BY <2>2, DepthIsNat, Depths
  <2> QED
    BY <2>1, <2>3, <2>4, <2>5, <2>6, <2>7 DEF Traced
<1>24. CASE Throw
  <2>1. /\ UNCHANGED node /\ at = "throw" /\ at' = "threw"
        /\ trace' \in {trace, Append(trace, [node |-> node, status |-> "error"])}
    BY <1>24 DEF Throw, Forget, Go, Row, Rethrown
  <2>2. trace \in Seq([node : Nodes, status : {"ok", "error"}]) /\ node \in Nodes
    OBVIOUS
  <2> DEFINE new == [node |-> node, status |-> "error"]
  <2>3. new.node = node /\ new.status = "error" /\ new \in [node : Nodes, status : {"ok", "error"}]
    BY <2>2
  <2> HIDE DEF new, TypeOK
  <2>9. \A i \in DOMAIN trace : trace[i].node \in Nodes
    BY TraceRows
  <2>4. /\ \A i \in DOMAIN trace' :
             \/ i \in DOMAIN trace /\ trace'[i] = trace[i]
             \/ trace'[i] = new /\ \A j \in DOMAIN trace' : j <= i
        /\ \A i \in DOMAIN trace' : i \in Int
    <3> DEFINE rows == [node : Nodes, status : {"ok", "error"}]
    <3>1. trace \in Seq(rows) /\ new \in rows /\ trace' \in {trace, Append(trace, new)}
      BY <2>1, <2>2, <2>3 DEF new
    <3> HIDE DEF rows
    <3> QED
      BY <3>1
  <2>5. \A i \in DOMAIN trace :
           /\ trace[i].node \in Nodes /\ Depth(trace[i].node) \in Nat
           /\ Depth(trace[i].node) < Depth(node) /\ trace[i].status = "ok"
           /\ node = "reconcile" /\ Depth(trace[i].node) = 4 => trace[i].node = "draft"
    BY <2>1, <2>2, <2>9, DepthIsNat DEF Traced
  <2>6. TraceIsAPath'
    <3> SUFFICES ASSUME NEW i \in DOMAIN trace', NEW j \in DOMAIN trace', i < j
                 PROVE  /\ trace'[i].status = "ok"
                        /\ Depth(trace'[i].node) < Depth(trace'[j].node)
                        /\ trace'[j].node = "reconcile" /\ Depth(trace'[i].node) = 4
                              => trace'[i].node = "draft"
      BY DEF TraceIsAPath
    <3>1. i \in DOMAIN trace /\ trace'[i] = trace[i]
      BY <2>4
    <3>2. CASE j \in DOMAIN trace /\ trace'[j] = trace[j]
      BY <3>1, <3>2 DEF Traced, TraceIsAPath
    <3>3. CASE trace'[j] = new
      BY <2>3, <2>5, <3>1, <3>3
    <3> QED
      BY <2>4, <3>2, <3>3
  <2>7. Depth(node) \in Nat /\ (node = "reconcile" => Depth(node) # 4)
    BY <2>2, DepthIsNat, Depths
  <2> QED
    BY <2>1, <2>3, <2>4, <2>5, <2>6, <2>7 DEF Traced
<1>25. CASE GraphStep
  <2>1. trace' = trace /\ node \in Nodes
    BY <1>25 DEF GraphStep
  <2>2. at' # "threw" /\ at # "threw"
    BY <1>25 DEF GraphStep, Enter, Go
  <2>3. CASE node' = node /\ at = "over"
    <3>1. at' = "over"
      BY <1>25, <2>3 DEF GraphStep, Enter, Go, Following, RouteAfterSql, Nodes
    <3> QED
      BY <2>1, <2>2, <2>3, <3>1 DEF Traced, TraceIsAPath
  <2>4. CASE at = "idle"
    <3>1. node' = node
      BY <1>25, <2>4 DEF GraphStep, Enter
    <3> QED
      BY <2>1, <2>2, <2>4, <3>1 DEF Traced, TraceIsAPath
  <2>5. CASE node' # node /\ at = "over"
    <3>1. node' \in Nodes /\ Depth(node) < Depth(node') /\ (node' = "reconcile" => node = "draft")
      BY <1>25, <2>5, Depths DEF GraphStep, Enter, Following, RouteAfterSql, Nodes
    <3>2. \A i \in DOMAIN trace : trace[i].node \in Nodes
      <4> HIDE DEF TypeOK
      <4> QED
        BY TraceRows
    <3>3. \A i \in DOMAIN trace :
             /\ Depth(trace[i].node) <= Depth(node)
             /\ Depth(trace[i].node) = Depth(node) => trace[i].node = node
             /\ trace[i].status = "ok"
      BY <2>2 DEF Traced
    <3>4. node = "draft" => Depth(node) = 4
      BY Depths
    <3>5. \A i \in DOMAIN trace :
             /\ Depth(trace[i].node) < Depth(node')
             /\ node' = "reconcile" /\ Depth(trace[i].node) = 4 => trace[i].node = "draft"
      BY <2>1, <3>1, <3>2, <3>3, <3>4, DepthIsNat
    <3>6. \A i \in DOMAIN trace : Depth(trace[i].node) \in Nat /\ Depth(node') \in Nat
      BY <3>1, <3>2, DepthIsNat
    <3> QED
      BY <2>1, <2>2, <3>3, <3>5, <3>6 DEF Traced, TraceIsAPath
  <2> QED
    BY <1>25, <2>3, <2>4, <2>5 DEF GraphStep
<1>26. CASE Disconnect
  BY <1>26 DEF Disconnect, Traced, TraceIsAPath
<1>27. CASE Lose
  BY <1>27 DEF Lose, Traced, TraceIsAPath
<1>28. CASE UNCHANGED vars
  BY <1>28 DEF vars, Traced, TraceIsAPath
<1> HIDE DEF TypeOK, Placed, AtWork, Planning, Answering, routeVars, nodeVars, storeVars
<1> QED
  BY <1>1, <1>2, <1>3, <1>4, <1>5, <1>6, <1>7, <1>8, <1>9, <1>10, <1>11, <1>12, <1>13,
     <1>14, <1>15, <1>16, <1>17, <1>18, <1>19, <1>20, <1>21, <1>22, <1>23, <1>24, <1>25,
     <1>26, <1>27, <1>28
     DEF Next, RouteStep, NodeStep

-----------------------------------------------------------------------------
(* A request that has not begun satisfies the invariant.                   *)
LEMMA InitInv == Init => IInv
<1> SUFFICES ASSUME Init PROVE IInv
  OBVIOUS
<1> USE AskAssumption, NothingIsState DEF Init
<1>1. TypeOK
  <2>1. /\ <<>> \in Seq(Tables) /\ <<>> \in Seq(EventRecords)
        /\ <<>> \in Seq([node : Nodes, status : {"ok", "error"}])
    OBVIOUS
  <2> QED
    BY <2>1 DEF TypeOK, EventRecords, OptionalRecord, Nodes
<1>2. Placed
  BY DEF Placed, AtWork, Planning
<1>3. Marked
  BY DEF Marked
<1>4. Answered
  BY DEF Answered
<1>5. Grounded
  BY DEF Grounded, Planning
<1>6. Retrieved
  BY DEF Retrieved, Streaming, BeforeRetrieved
<1>7. Completed /\ Closed /\ CompletionCloses
  BY DEF Completed, Closed, CompletionCloses, Streaming
<1>8. Traced
  BY DEF Traced, TraceIsAPath
<1> QED
  BY <1>1, <1>2, <1>3, <1>4, <1>5, <1>6, <1>7, <1>8 DEF IInv

(* Every step keeps the invariant.                                         *)
LEMMA InvStep == IInv /\ [Next]_vars => IInv'
<1> SUFFICES ASSUME IInv, [Next]_vars PROVE IInv'
  OBVIOUS
<1>1. TypeOK /\ Placed
  BY DEF IInv
<1> QED
  BY <1>1, TypeStep, PlacedStep, MarkedStep, AnsweredStep, GroundedStep, RetrievedStep,
     CompletedStep, ClosedStep, ClosesStep, TracedStep DEF IInv

(* The invariant of a request holds throughout.                            *)
THEOREM AskInvariant == Spec => []IInv
<1> QED
  BY InitInv, InvStep, PTL DEF Spec

(* Route, node, record, chain and trace keep their types.                  *)
THEOREM AskTypeCorrect == Spec => []TypeOK
<1>1. IInv => TypeOK
  BY DEF IInv
<1> QED
  BY <1>1, AskInvariant, PTL

(* graph.ts 35: no answer but the notice around a grounding issue, no      *)
(* filter outside its domain was executed, and no query that leaves a term *)
(* out but as a second plan.                                               *)
THEOREM NeverAnsweredAroundAlways == Spec => []NeverAnsweredAround
<1>1. IInv => NeverAnsweredAround
  <2> SUFFICES ASSUME IInv PROVE NeverAnsweredAround
    OBVIOUS
  <2>1. ASSUME state.issues # {}, NEW rec \in {record, copy, mine} \ {None}
        PROVE  rec.answer \in {None, "grounding_notice"}
    BY <2>1 DEF IInv, Answered, Answering
  <2>2. \A t \in Queried(state.sql) : state.sql[t].grounded /\ state.sql[t].abstained # "first"
    BY DEF IInv, Grounded, Queried, Sound
  <2> QED
    BY <2>1, <2>2 DEF NeverAnsweredAround
<1> QED
  BY <1>1, AskInvariant, PTL

(* ask.ts 262-265: the chain ends with the completion, which names its     *)
(* grounds; a client that was told so has the answer; whatever it was told *)
(* the record holds what the completion binds; the trace is a path.        *)
THEOREM RecordsAgreeAlways == Spec => []RecordsAgree
<1>1. IInv => RecordsAgree
  <2> SUFFICES ASSUME IInv PROVE RecordsAgree
    OBVIOUS
  <2>1. ToldIsRecorded
    BY DEF IInv, Completed, ToldIsRecorded
  <2>2. ClosedIsRecorded
    <3> SUFFICES ASSUME NEW i \in DOMAIN chain, chain[i].type = "run_completed"
                 PROVE  /\ told # None
                        /\ record # None =>
                             /\ record.answer = chain[i].answer /\ record.chunks = chain[i].chunks
                             /\ record.status = "complete" \/ (record.status = "failed" /\ told = "error")
      BY DEF ClosedIsRecorded
    <3>1. mine \in Records
      BY DEF IInv, Closed, TypeOK, OptionalRecord
    <3> QED
      BY <3>1 DEF IInv, Closed, Records
  <2> QED
    BY <2>1, <2>2 DEF IInv, Traced, RecordsAgree
<1> QED
  BY <1>1, AskInvariant, PTL

(* ask.ts 310: while the client is there, a failed record is not written.  *)
THEOREM FailedIsFinalAlways == Spec => FailedIsFinal
<1> DEFINE Kept == record # None /\ record.status = "failed" /\ ~aborted => record' \in {record, None}
<1>1. IInv /\ [Next]_vars => Kept
  <2> SUFFICES ASSUME IInv, [Next]_vars, record # None, record.status = "failed", ~aborted
               PROVE  record' \in {record, None}
    OBVIOUS
  <2>1. handler = "ended"
    BY DEF IInv, Marked
  <2>2. at \in {"idle", "over", "threw"}
    BY <2>1 DEF IInv, Placed, AtWork
  <2>3. CASE RouteStep
    BY <2>1, <2>3 DEF RouteStep, Start, Create, GiveUp, Reload, Complete, Mark, SetError
  <2>4. CASE NodeStep
    BY <2>2, <2>4 DEF NodeStep, Understand, Load, SetStatus, NodeThrows, Search,
       ChainRetrieval, Gate,
                      PlanQuery, Rejected, ReplanAfter, Replan, Execute, Persist, Evidence, Partial,
                      Answer, Return, Throw, In, storeVars, IInv, Placed, AtWork, Answering
  <2>5. CASE GraphStep \/ Disconnect \/ Lose \/ UNCHANGED vars
    BY <2>5 DEF GraphStep, Disconnect, Lose, storeVars, vars
  <2> QED
    BY <2>3, <2>4, <2>5 DEF Next
<1>2. Spec => [][Kept]_vars
  BY <1>1, AskInvariant, PTL DEF Spec
<1> QED
  BY <1>2 DEF FailedIsFinal, Kept

-----------------------------------------------------------------------------
(* The exact answer over a table (TableRules, TableQuery).                 *)

TypesOfColumns == {"integer", "numeric", "date", "boolean", "text"}

(* The type of a column is one of the five, and every cell that is there   *)
(* fits it.                                                                *)
LEMMA EveryCellFits ==
    ASSUME NEW cells \in Seq(Texts)
    PROVE  /\ InferType(cells) \in TypesOfColumns
           /\ \A i \in Present(cells) : Fits(cells[i], InferType(cells))
<1> DEFINE all(type) == Present(cells) # {} /\ \A i \in Present(cells) : Fits(cells[i], type)
<1>1. InferType(cells) = CASE all("integer") -> "integer"
                           [] ~all("integer") /\ all("numeric") -> "numeric"
                           [] ~all("numeric") /\ all("date") -> "date"
                           [] ~all("numeric") /\ ~all("date") /\ all("boolean") -> "boolean"
                           [] OTHER -> "text"
  BY DEF InferType
<1>2. all("integer") => all("numeric")
  BY DEF Fits
<1>3. all("numeric") => ~all("date") /\ ~all("boolean")
  BY DEF Fits
<1>4. all("date") => ~all("boolean")
  BY DEF Fits
<1>5. \A c : Fits(c, "text")
  BY DEF Fits
<1>6. \A type : all(type) => \A i \in Present(cells) : Fits(cells[i], type)
  OBVIOUS
<1> HIDE DEF all
<1>7. CASE all("integer")
  BY <1>1, <1>2, <1>3, <1>6, <1>7 DEF TypesOfColumns
<1>8. CASE ~all("integer") /\ all("numeric")
  BY <1>1, <1>3, <1>6, <1>8 DEF TypesOfColumns
<1>9. CASE ~all("numeric") /\ all("date")
  BY <1>1, <1>2, <1>4, <1>6, <1>9 DEF TypesOfColumns
<1>10. CASE ~all("numeric") /\ ~all("date") /\ all("boolean")
  BY <1>1, <1>2, <1>6, <1>10 DEF TypesOfColumns
<1>11. CASE ~all("numeric") /\ ~all("date") /\ ~all("boolean")
  BY <1>1, <1>2, <1>5, <1>11 DEF TypesOfColumns
<1> QED
  BY <1>7, <1>8, <1>9, <1>10, <1>11

(* The numbers of finitely many cells have a bound (induction on the       *)
(* length, by the least counterexample).                                   *)
LEMMA NumbersHaveABound ==
    ASSUME NEW f, NEW n \in Nat, \A i \in 1..n : f[i].n \in Int
    PROVE  \E b \in Int : \A i \in 1..n : f[i].n <= b
<1> DEFINE bounded(m) == \E b \in Int : \A i \in 1..m : f[i].n <= b
           Bad == {m \in 0..n : ~bounded(m)}
           R == OpToRel(<, Nat)
<1>1. IsWellFoundedOn(R, Nat)
  BY NatLessThanWellFounded
<1>2. \A i, j \in Nat : i < j => <<i, j>> \in R
  BY DEF OpToRel
<1>3. \A m \in 0..n : m \in Nat /\ m <= n
  OBVIOUS
<1>4. bounded(0)
  OBVIOUS
<1>5. ASSUME NEW m \in 0..n, m # 0, bounded(m - 1) PROVE bounded(m)
  <2>1. PICK b \in Int : \A i \in 1..(m - 1) : f[i].n <= b
    BY <1>5
  <2>2. m \in 1..n /\ f[m].n \in Int /\ \A i \in 1..m : i = m \/ i \in 1..(m - 1)
    BY <1>3, <1>5
  <2>3. \A i \in 1..m : f[i].n \in Int
    BY <1>3
  <2>4. CASE f[m].n <= b
    <3>1. ASSUME NEW i \in 1..m PROVE f[i].n <= b
      <4>1. CASE i = m
        BY <2>4, <4>1
      <4>2. CASE i \in 1..(m - 1)
        BY <2>1, <4>2
      <4> QED
        BY <2>2, <4>1, <4>2
    <3> QED
      BY <2>1, <3>1
  <2>5. CASE b <= f[m].n
    <3>1. ASSUME NEW i \in 1..m PROVE f[i].n <= f[m].n
      <4>1. CASE i = m
        BY <2>2, <4>1
      <4>2. CASE i \in 1..(m - 1)
        BY <2>1, <2>2, <2>3, <2>5, <4>2
      <4> QED
        BY <2>2, <4>1, <4>2
    <3> QED
      BY <2>2, <3>1
  <2> QED
    BY <2>1, <2>2, <2>4, <2>5
<1> HIDE DEF bounded, R
<1>6. Bad = {}
  <2> SUFFICES ASSUME Bad # {} PROVE FALSE
    OBVIOUS
  <2>1. Bad \subseteq Nat
    BY <1>3
  <2>2. PICK m \in Bad : \A k \in Bad : ~(<<k, m>> \in R)
    BY <1>1, <2>1, WFMin
  <2>3. m \in 0..n /\ ~bounded(m) /\ m \in Nat
    BY <1>3
  <2>4. m # 0
    BY <1>4, <2>3
  <2>5. ~bounded(m - 1) /\ m - 1 \in 0..n
    BY <1>3, <1>5, <2>3, <2>4
  <2>6. m - 1 \in Bad /\ <<m - 1, m>> \in R
    BY <1>2, <1>3, <2>3, <2>5
  <2> QED
    BY <2>2, <2>6
<1>7. bounded(n)
  BY <1>6
<1> QED
  BY <1>7 DEF bounded

(* So has any non-empty set of their negatives: a least and a greatest.    *)
LEMMA LeastNumber ==
    ASSUME NEW S, S # {}, NEW b \in Int, \A v \in S : v.n \in Int /\ b <= v.n
    PROVE  Least(S) \in S /\ \A v \in S : Least(S).n <= v.n
<1> DEFINE D == {v.n - b : v \in S}
           R == OpToRel(<, Nat)
<1>1. IsWellFoundedOn(R, Nat)
  BY NatLessThanWellFounded
<1>2. \A i, j \in Nat : i < j => <<i, j>> \in R
  BY DEF OpToRel
<1>3. D \subseteq Nat /\ D # {}
  OBVIOUS
<1> HIDE DEF R
<1>4. PICK d \in D : \A e \in D : ~(<<e, d>> \in R)
  BY <1>1, <1>3, WFMin
<1>5. PICK v \in S : d = v.n - b
  BY <1>4
<1>6. \A w \in S : v.n <= w.n
  <2> SUFFICES ASSUME NEW w \in S, w.n < v.n PROVE FALSE
    OBVIOUS
  <2>1. w.n - b \in D /\ w.n - b < d
    BY <1>5
  <2> QED
    BY <1>2, <1>3, <1>4, <2>1
<1> QED
  BY <1>5, <1>6 DEF Least

LEMMA GreatestNumber ==
    ASSUME NEW S, S # {}, NEW b \in Int, \A v \in S : v.n \in Int /\ v.n <= b
    PROVE  Greatest(S) \in S /\ \A v \in S : v.n <= Greatest(S).n
<1> DEFINE D == {b - v.n : v \in S}
           R == OpToRel(<, Nat)
<1>1. IsWellFoundedOn(R, Nat)
  BY NatLessThanWellFounded
<1>2. \A i, j \in Nat : i < j => <<i, j>> \in R
  BY DEF OpToRel
<1>3. D \subseteq Nat /\ D # {}
  OBVIOUS
<1> HIDE DEF R
<1>4. PICK d \in D : \A e \in D : ~(<<e, d>> \in R)
  BY <1>1, <1>3, WFMin
<1>5. PICK v \in S : d = b - v.n
  BY <1>4
<1>6. \A w \in S : w.n <= v.n
  <2> SUFFICES ASSUME NEW w \in S, v.n < w.n PROVE FALSE
    OBVIOUS
  <2>1. b - w.n \in D /\ b - w.n < d
    BY <1>5
  <2> QED
    BY <1>2, <1>3, <1>4, <2>1
<1> QED
  BY <1>5, <1>6 DEF Greatest

(* What a condition is compared with, as the column holds it.              *)
LEMMA WholeOfTens ==
    ASSUME NEW n \in Int, n % 10 = 0 PROVE Whole(n) = n
<1>1. CASE n >= 0
  <2>1. n = 10 * (n \div 10) + (n % 10)
    OBVIOUS
  <2> QED
    BY <1>1, <2>1 DEF Whole
<1>2. CASE n < 0
  <2>1. PICK m \in Int : m = -n
    OBVIOUS
  <2>2. m % 10 = 0 /\ m = 10 * (m \div 10) + (m % 10)
    BY <2>1
  <2>3. Whole(n) = -(10 * (m \div 10))
    BY <1>2, <2>1 DEF Whole
  <2> QED
    BY <2>1, <2>2, <2>3
<1> QED
  BY <1>1, <1>2

LEMMA PlainIsBuilt ==
    ASSUME NEW type \in TypesOfColumns, NEW v \in Texts, Plain(v, type)
    PROVE  FilterValue(v, type) # Invalid
<1>1. CASE Ordered(type)
  <2>1. v.is \in {"int", "dec", "number"}
    BY <1>1 DEF Plain, Ordered
  <2>2. FilterValue(v, type) = Number(Whole(v.n)) \/ FilterValue(v, type) = Number(v.n)
    BY <1>1, <2>1 DEF FilterValue, Ordered
  <2> QED
    BY <2>2 DEF Number, Text, Invalid
<1>2. CASE type = "boolean"
  <2>1. \A b : Truth(b) # Invalid
    BY DEF Truth, Text, Invalid
  <2>2. PICK b : FilterValue(v, type) = Truth(b)
    BY <1>2 DEF FilterValue, Ordered
  <2> QED
    BY <2>1, <2>2
<1>3. CASE type \in {"date", "text"}
  BY <1>3 DEF FilterValue, Ordered, Texts, Readings, Invalid, Text
<1> QED
  BY <1>1, <1>2, <1>3 DEF TypesOfColumns, Ordered

LEMMA HeldAsWritten ==
    ASSUME NEW type \in TypesOfColumns, NEW c \in Texts, Fits(c, type), c.is # "empty",
           NEW v \in Texts, v.is # "empty", Plain(v, type), Plain(Coerce(c, type), type)
    PROVE  /\ Coerce(c, type) = FilterValue(v, type) <=> GroundingForm(v, type) = GroundingForm(Coerce(c, type), type)
           /\ Ordered(type) => FilterValue(v, type).n = v.n /\ Coerce(c, type).n = c.n
<1>1. CASE type = "integer"
  <2>1. v.is \in {"int", "number"} /\ v.n % 10 = 0 /\ v.n \in Int /\ c.n \in Int
    BY <1>1 DEF Plain, Texts
  <2>2. Whole(v.n) = v.n
    BY <2>1, WholeOfTens
  <2>3. FilterValue(v, type) = Number(v.n)
    BY <1>1, <2>1, <2>2 DEF FilterValue, Ordered
  <2>4. Coerce(c, type) = Number(c.n)
    BY <1>1 DEF Coerce, Ordered
  <2>5. GroundingForm(v, type) = v.n /\ GroundingForm(Number(c.n), type) = c.n
    BY <1>1, <2>1 DEF GroundingForm, Ordered, NumberOf, Number, Text
  <2> QED
    BY <1>1, <2>1, <2>3, <2>4, <2>5 DEF Number, Text, Ordered
<1>2. CASE type = "numeric"
  <2>1. v.is \in {"int", "dec", "number"} /\ v.n \in Int /\ c.n \in Int
    BY <1>2 DEF Plain, Texts
  <2>2. FilterValue(v, type) = Number(v.n)
    BY <1>2, <2>1 DEF FilterValue, Ordered
  <2>3. Coerce(c, type) = Number(c.n)
    BY <1>2 DEF Coerce, Ordered
  <2>4. GroundingForm(v, type) = v.n /\ GroundingForm(Number(c.n), type) = c.n
    BY <1>2, <2>1 DEF GroundingForm, Ordered, NumberOf, Number, Text
  <2> QED
    BY <1>2, <2>1, <2>2, <2>3, <2>4 DEF Number, Text, Ordered
<1>3. CASE type = "boolean"
  <2>1. v.is = "truth"
    BY <1>3 DEF Plain
  <2>2. FilterValue(v, type) = Truth(v.n = 1)
    <3>1. CASE v.n = 1
      BY <1>3, <2>1, <3>1 DEF FilterValue, Ordered, Truth
    <3>2. CASE v.n # 1
      BY <1>3, <2>1, <3>2 DEF FilterValue, Ordered, Truth
    <3> QED
      BY <3>1, <3>2
  <2>3. Coerce(c, type) = Truth(c.n = 1)
    BY <1>3 DEF Coerce, Ordered
  <2>4. GroundingForm(v, type) <=> v.n = 1
    BY <1>3, <2>1 DEF GroundingForm, Ordered
  <2>5. GroundingForm(Truth(c.n = 1), type) <=> c.n = 1
    BY <1>3 DEF GroundingForm, Ordered, Truth, Text
  <2>6. GroundingForm(v, type) \in BOOLEAN /\ GroundingForm(Truth(c.n = 1), type) \in BOOLEAN
    BY <1>3 DEF GroundingForm, Ordered
  <2>7. GroundingForm(v, type) = GroundingForm(Truth(c.n = 1), type) <=> (v.n = 1 <=> c.n = 1)
    BY <2>4, <2>5, <2>6
  <2>8. Truth(c.n = 1) = Truth(v.n = 1) <=> (v.n = 1 <=> c.n = 1)
    BY DEF Truth, Text
  <2> QED
    BY <1>3, <2>2, <2>3, <2>7, <2>8 DEF Ordered
<1>4. CASE type \in {"date", "text"}
  <2>1. FilterValue(v, type) = v /\ Coerce(c, type) = c
    BY <1>4 DEF FilterValue, Coerce, Ordered
  <2>2. v.as # "lower" /\ c.as # "lower"
    BY <1>4, <2>1 DEF Plain
  <2>3. SameCase(v) = v /\ SameCase(c) = c
    BY <2>2 DEF SameCase, Text, Texts
  <2>4. GroundingForm(v, type) = v /\ GroundingForm(c, type) = c
    BY <1>4, <2>3 DEF GroundingForm, Ordered
  <2> QED
    BY <1>4, <2>1, <2>4 DEF Ordered
<1> QED
  BY <1>1, <1>2, <1>3, <1>4 DEF TypesOfColumns

LEMMA CellsAreTexts ==
    ASSUME NEW cells \in Seq(Texts)
    PROVE  /\ Present(cells) \subseteq DOMAIN cells /\ DOMAIN cells = 1..Len(cells) /\ Len(cells) \in Nat
           /\ \A i \in DOMAIN cells : cells[i] \in Texts /\ cells[i].n \in Int
           /\ \A i \in DOMAIN cells : i \in Present(cells) <=> cells[i].is # "empty"
BY DEF Present, Texts

LEMMA StoredIsThere ==
    ASSUME NEW cells \in Seq(Texts), NEW type, NEW i \in DOMAIN cells
    PROVE  /\ Stored(cells, type)[i] # Null <=> i \in Present(cells)
           /\ i \in Present(cells) => Stored(cells, type)[i] = Coerce(cells[i], type)
<1>1. cells[i] \in Texts
  BY CellsAreTexts
<1>2. cells[i] # Null /\ Number(cells[i].n) # Null /\ Truth(cells[i].n = 1) # Null
  <2>1. Number(cells[i].n) \in Texts
    BY <1>1 DEF Number, Text, Texts, Readings
  <2>2. Truth(cells[i].n = 1) \in Texts
    <3>1. CASE cells[i].n = 1
      BY <3>1 DEF Truth, Text, Texts, Readings
    <3>2. CASE cells[i].n # 1
      BY <3>2 DEF Truth, Text, Texts, Readings
    <3> QED
      BY <3>1, <3>2
  <2> QED
    BY <1>1, <2>1, <2>2, NullAssumption
<1>3. Coerce(cells[i], type) # Null
  BY <1>2 DEF Coerce
<1> QED
  BY <1>3 DEF Stored, Present

(* query-builder.ts, table-loader.ts: for a column of any cells and any    *)
(* condition on a value that the column holds as it is written, the query  *)
(* is built and selects exactly the rows it asks for.                      *)
THEOREM QueryIsExact ==
    ASSUME NEW cells \in Seq(Texts), NEW op, NEW v \in Texts, v.is # "empty"
    PROVE  QueryHolds(cells, [op |-> op, value |-> v])
<1> DEFINE cond == [op |-> op, value |-> v]
           type == InferType(cells)
           stored == Stored(cells, type)
<1> SUFFICES ASSUME Plain(v, type), \A i \in Present(cells) : Plain(Coerce(cells[i], type), type),
                    op \in Equalities \/ (op \in Comparisons /\ Ordered(type))
             PROVE  Builds(cond, type) /\ Selected(cond, cells) = Asks(op, v, cells)
  BY DEF QueryHolds, ColumnSchema
<1> HIDE DEF type
<1>1. type \in TypesOfColumns /\ \A i \in Present(cells) : Fits(cells[i], type)
  BY EveryCellFits DEF type
<1>2. op \in {"eq", "neq", "gt", "gte", "lt", "lte"}
  BY DEF Equalities, Comparisons
<1>3. \A i \in Present(cells) :
         /\ stored[i] = Coerce(cells[i], type)
         /\ Coerce(cells[i], type) = FilterValue(v, type) <=> Means(v, cells[i], type)
         /\ Ordered(type) => FilterValue(v, type).n = v.n /\ Coerce(cells[i], type).n = cells[i].n
  BY <1>1, HeldAsWritten, CellsAreTexts, StoredIsThere DEF Means
<1>4. \A i \in Present(cells) : Compares(op, stored[i], FilterValue(v, type)) <=>
         CASE op = "eq" -> Means(v, cells[i], type)
           [] op = "neq" -> ~Means(v, cells[i], type)
           [] OTHER -> Compares(op, cells[i], v)
  <2> SUFFICES ASSUME NEW i \in Present(cells)
               PROVE  Compares(op, stored[i], FilterValue(v, type)) <=>
                        CASE op = "eq" -> Means(v, cells[i], type)
                          [] op = "neq" -> ~Means(v, cells[i], type)
                          [] OTHER -> Compares(op, cells[i], v)
    OBVIOUS
  <2>1. CASE op \in Equalities
    BY <1>3, <2>1 DEF Equalities, Compares
  <2>2. CASE op \in Comparisons /\ Ordered(type)
    BY <1>3, <2>2 DEF Comparisons, Compares
  <2> QED
    BY <2>1, <2>2
<1>5. Builds(cond, type)
  <2>1. FilterValue(v, type) # Invalid
    BY <1>1, PlainIsBuilt
  <2> QED
    BY <1>2, <2>1 DEF Builds, Equalities, Comparisons
<1>6. \A i \in DOMAIN cells : stored[i] # Null <=> i \in Present(cells)
  BY StoredIsThere
<1>7. Selected(cond, cells) = {i \in DOMAIN cells : stored[i] # Null /\ Compares(op, stored[i], FilterValue(v, type))}
  BY <1>2 DEF Selected, type
<1>8. Asks(op, v, cells) = {i \in Present(cells) :
                              CASE op = "eq" -> Means(v, cells[i], type)
                                [] op = "neq" -> ~Means(v, cells[i], type)
                                [] OTHER -> Compares(op, cells[i], v)}
  BY DEF Asks, type
<1>9. Present(cells) \subseteq DOMAIN cells
  BY DEF Present
<1> HIDE DEF stored, cond
<1>10. \A i : i \in Selected(cond, cells) <=> i \in Asks(op, v, cells)
  BY <1>4, <1>6, <1>7, <1>8, <1>9
<1>11. Selected(cond, cells) \subseteq DOMAIN cells /\ Asks(op, v, cells) \subseteq DOMAIN cells
  BY <1>7, <1>8, <1>9
<1> QED
  BY <1>5, <1>10, <1>11

(* Of a type with an order, a cell is stored and compared as its number.   *)
LEMMA OrderedIsTheNumber ==
    ASSUME NEW c, NEW type, Ordered(type)
    PROVE  /\ Coerce(c, type) = Number(c.n)
           /\ GroundingForm(c, type) = NumberOf(c)
           /\ GroundingForm(Coerce(c, type), type) = c.n
<1>1. type = "integer" \/ type = "numeric"
  BY DEF Ordered
<1>2. Coerce(c, type) = Number(c.n)
  BY <1>1 DEF Coerce, Ordered
<1>3. GroundingForm(c, type) = NumberOf(c)
  BY <1>1 DEF GroundingForm, Ordered
<1>4. GroundingForm(Number(c.n), type) = NumberOf(Number(c.n))
  BY <1>1 DEF GroundingForm, Ordered
<1>5. NumberOf(Number(c.n)) = c.n
  BY DEF NumberOf, Number, Text
<1> QED
  BY <1>2, <1>3, <1>4, <1>5

(* The range published is that of the cells.                               *)
LEMMA RangeIsOfTheCells ==
    ASSUME NEW cells \in Seq(Texts), NEW type, Ordered(type), ValueRange(cells, type) # Null
    PROVE  /\ \E i \in Present(cells) : cells[i].n = ValueRange(cells, type).min
           /\ \E i \in Present(cells) : cells[i].n = ValueRange(cells, type).max
           /\ \A i \in Present(cells) : /\ ValueRange(cells, type).min <= cells[i].n
                                        /\ cells[i].n <= ValueRange(cells, type).max
<1> DEFINE values == Values(cells, type)
           negated == [i \in DOMAIN cells |-> [n |-> -cells[i].n]]
<1>1. /\ Present(cells) \subseteq DOMAIN cells /\ DOMAIN cells = 1..Len(cells) /\ Len(cells) \in Nat
      /\ \A i \in DOMAIN cells : cells[i].n \in Int
  BY CellsAreTexts
<1>2. values = {Number(cells[i].n) : i \in Present(cells)}
  <2>1. \A c : Coerce(c, type) = Number(c.n)
    BY OrderedIsTheNumber
  <2> QED
    BY <2>1 DEF Values
<1>3. \A n : Number(n).n = n
  BY DEF Number, Text
<1>4. PICK top \in Int : \A i \in 1..Len(cells) : cells[i].n <= top
  BY <1>1, NumbersHaveABound
<1>5. PICK low \in Int : \A i \in 1..Len(cells) : low <= cells[i].n
  <2>1. \A i \in 1..Len(cells) : negated[i].n \in Int /\ negated[i].n = -cells[i].n
    BY <1>1
  <2> HIDE DEF negated
  <2>2. PICK b \in Int : \A i \in 1..Len(cells) : negated[i].n <= b
    BY <1>1, <2>1, NumbersHaveABound
  <2>3. \A i \in 1..Len(cells) : -b <= cells[i].n
    BY <1>1, <2>1, <2>2
  <2>4. -b \in Int
    OBVIOUS
  <2> QED
    BY <2>3, <2>4
<1> HIDE DEF values
<1>6. values # {} /\ ValueRange(cells, type) = [min |-> Least(values).n, max |-> Greatest(values).n]
  BY DEF ValueRange, values
<1>7. \A v \in values : v.n \in Int /\ low <= v.n /\ v.n <= top
  BY <1>1, <1>2, <1>3, <1>4, <1>5
<1>8. Least(values) \in values /\ \A v \in values : Least(values).n <= v.n
  BY <1>6, <1>7, LeastNumber
<1>9. Greatest(values) \in values /\ \A v \in values : v.n <= Greatest(values).n
  BY <1>6, <1>7, GreatestNumber
<1>10. ValueRange(cells, type).min = Least(values).n /\ ValueRange(cells, type).max = Greatest(values).n
  BY <1>6
<1>11. \A i \in Present(cells) : Number(cells[i].n) \in values /\ Number(cells[i].n).n = cells[i].n
  BY <1>2, <1>3
<1>12. \A v \in values : \E i \in Present(cells) : cells[i].n = v.n
  BY <1>2, <1>3
<1> QED
  BY <1>8, <1>9, <1>10, <1>11, <1>12

(* grounding.ts: for a column of any cells, the gate refuses a condition   *)
(* only when no row answers it (a negation: when every row does), and of a *)
(* complete domain it lets only a value pass that is in a row.             *)
THEOREM GateIsSound ==
    ASSUME NEW cells \in Seq(Texts), NEW op, NEW v \in Texts
    PROVE  GateHolds(cells, [op |-> op, value |-> v])
<1> DEFINE cond == [op |-> op, value |-> v]
           type == InferType(cells)
           col == ColumnSchema(cells)
           values == Values(cells, type)
<1>1. type \in TypesOfColumns /\ \A i \in Present(cells) : Fits(cells[i], type)
  BY EveryCellFits
<1>2. col.type = type /\ col.value_domain = ValueDomain(cells, type) /\ col.value_range = ValueRange(cells, type)
  BY DEF ColumnSchema
<1>3. col.value_domain # Null => col.value_domain = {Coerce(cells[i], type) : i \in Present(cells)}
  BY <1>2 DEF ValueDomain, Values
<1>4. Asks("eq", v, cells) = {i \in Present(cells) : Means(v, cells[i], type)}
  BY DEF Asks
<1>5. Asks("neq", v, cells) = {i \in Present(cells) : ~Means(v, cells[i], type)}
  BY DEF Asks
<1>6. \A i \in Present(cells) : Ordered(type) => GroundingForm(Coerce(cells[i], type), type) # Null
  <2>1. \A i \in Present(cells) : cells[i].n \in Int
    BY CellsAreTexts
  <2> HIDE DEF type
  <2>2. \A i \in Present(cells) : Ordered(type) => GroundingForm(Coerce(cells[i], type), type) = cells[i].n
    BY OrderedIsTheNumber
  <2> QED
    BY <2>1, <2>2, NullAssumption
<1>7. ASSUME op \in Equalities, col.value_domain # Null
      PROVE  GroundedIn(cond, col) <=> \E i \in Present(cells) : Means(v, cells[i], type)
  <2>1. GroundedIn(cond, col) <=> InDomain(v, col)
    <3>1. cond.op = op /\ cond.value = v
      OBVIOUS
    <3> HIDE DEF cond, col
    <3> QED
      BY <1>7, <3>1 DEF GroundedIn, InDomain, Satisfiable, Equalities, Comparisons
  <2>2. InDomain(v, col) <=> /\ Ordered(type) => NumberOf(v) # Null
                             /\ \E i \in Present(cells) : Means(v, cells[i], type)
    <3>1. InDomain(v, col) <=> /\ Ordered(type) => NumberOf(v) # Null
                               /\ \E d \in col.value_domain : GroundingForm(d, type) = GroundingForm(v, type)
      BY <1>2 DEF InDomain
    <3> HIDE DEF col, type
    <3> QED
      BY <1>3, <1>7, <3>1 DEF Means
  <2>3. ASSUME NEW i \in Present(cells), Means(v, cells[i], type), Ordered(type) PROVE NumberOf(v) # Null
    <3>1. GroundingForm(v, type) = NumberOf(v)
      BY <2>3, OrderedIsTheNumber
    <3> QED
      BY <1>6, <2>3, <3>1 DEF Means
  <2> QED
    BY <2>1, <2>2, <2>3
<1>8. ASSUME op \in Equalities, col.value_domain = Null PROVE GroundedIn(cond, col)
  BY <1>8 DEF GroundedIn, Equalities, Comparisons
<1>9. ASSUME op \in Comparisons, Ordered(type), NumberOf(v) # Null, ~GroundedIn(cond, col)
      PROVE  Asks(op, v, cells) = {}
  <2>1. col.value_range # Null /\ ~(CASE op = "gte" -> v.n <= col.value_range.max
                                      [] op = "gt"  -> v.n < col.value_range.max
                                      [] op = "lte" -> v.n >= col.value_range.min
                                      [] op = "lt"  -> v.n > col.value_range.min)
    BY <1>2, <1>9 DEF GroundedIn, Satisfiable, Equalities, Comparisons
  <2>2. \A i \in Present(cells) : /\ col.value_range.min <= cells[i].n /\ cells[i].n <= col.value_range.max
                                  /\ cells[i].n \in Int
    BY <1>2, <1>9, <2>1, RangeIsOfTheCells, CellsAreTexts
  <2>3. v.n \in Int
    BY DEF Texts
  <2>4. Asks(op, v, cells) = {i \in Present(cells) : Compares(op, cells[i], v)}
    BY <1>9 DEF Asks, Comparisons
  <2>5. /\ \E i \in Present(cells) : cells[i].n = col.value_range.min
        /\ \E i \in Present(cells) : cells[i].n = col.value_range.max
    BY <1>2, <1>9, <2>1, RangeIsOfTheCells
  <2>6. col.value_range.min \in Int /\ col.value_range.max \in Int
    BY <2>2, <2>5
  <2> HIDE DEF col, type, cond
  <2>7. ASSUME NEW i \in Present(cells) PROVE ~Compares(op, cells[i], v)
    <3>1. /\ col.value_range.min <= cells[i].n /\ cells[i].n <= col.value_range.max /\ cells[i].n \in Int
      BY <2>2
    <3>2. CASE op = "gte"
      BY <2>1, <2>3, <2>6, <3>1, <3>2 DEF Compares
    <3>3. CASE op = "gt"
      BY <2>1, <2>3, <2>6, <3>1, <3>3 DEF Compares
    <3>4. CASE op = "lte"
      BY <2>1, <2>3, <2>6, <3>1, <3>4 DEF Compares
    <3>5. CASE op = "lt"
      BY <2>1, <2>3, <2>6, <3>1, <3>5 DEF Compares
    <3> QED
      BY <1>9, <3>2, <3>3, <3>4, <3>5 DEF Comparisons
  <2> QED
    BY <2>4, <2>7
<1> HIDE DEF col, type, cond
<1>10. CASE op \in Equalities
  <2>1. ~GroundedIn(cond, col) => Asks(op, v, cells) = IF op = "neq" THEN Present(cells) ELSE {}
    BY <1>4, <1>5, <1>7, <1>8, <1>10 DEF Equalities
  <2>2. GroundedIn(cond, col) /\ op = "eq" /\ col.value_domain # Null => Asks("eq", v, cells) # {}
    BY <1>4, <1>7, <1>10
  <2> QED
    BY <2>1, <2>2 DEF GateHolds, cond, col
<1>11. CASE op \in Comparisons /\ Ordered(col.type) /\ NumberOf(v) # Null
  <2>1. op # "neq" /\ op # "eq"
    BY <1>11 DEF Comparisons
  <2>2. ~GroundedIn(cond, col) => Asks(op, v, cells) = {}
    BY <1>2, <1>9, <1>11
  <2> QED
    BY <2>1, <2>2 DEF GateHolds, cond, col
<1>12. CASE ~(op \in Equalities \/ (op \in Comparisons /\ Ordered(col.type) /\ NumberOf(v) # Null))
  BY <1>12 DEF GateHolds, cond, col
<1> QED
  BY <1>10, <1>11, <1>12

(* What is stored in a column, asked for as it is, is found as it is.      *)
LEMMA StoredIsAskedFor ==
    ASSUME NEW type \in TypesOfColumns, NEW c \in Texts, Fits(c, type), c.is # "empty"
    PROVE  FilterValue(Coerce(c, type), type) = Coerce(c, type) /\ Coerce(c, type) # Invalid
<1>1. CASE type = "integer"
  <2>1. c.n \in Int /\ c.n % 10 = 0
    BY <1>1 DEF Fits, Texts
  <2>2. Coerce(c, type) = Number(c.n) /\ FilterValue(Number(c.n), type) = Number(Whole(c.n))
    BY <1>1 DEF Coerce, FilterValue, Ordered, Number, Text
  <2> QED
    BY <2>1, <2>2, WholeOfTens DEF Number, Text, Invalid
<1>2. CASE type = "numeric"
  BY <1>2 DEF Coerce, FilterValue, Ordered, Number, Text, Invalid
<1>3. CASE type = "boolean"
  <2>1. Coerce(c, type) = Truth(c.n = 1)
    BY <1>3 DEF Coerce, Ordered
  <2>2. CASE c.n = 1
    BY <1>3, <2>1, <2>2 DEF FilterValue, Ordered, Truth, Text, Invalid
  <2>3. CASE c.n # 1
    BY <1>3, <2>1, <2>3 DEF FilterValue, Ordered, Truth, Text, Invalid
  <2> QED
    BY <2>2, <2>3
<1>4. CASE type \in {"date", "text"}
  <2>1. Coerce(c, type) = c /\ FilterValue(c, type) = c
    BY <1>4 DEF Coerce, FilterValue, Ordered
  <2>2. c # Invalid
    BY DEF Texts, Readings, Invalid, Text
  <2> QED
    BY <2>1, <2>2
<1> QED
  BY <1>1, <1>2, <1>3, <1>4 DEF TypesOfColumns

(* An equality with a value as it is stored selects the rows that hold it. *)
LEMMA EqualitySelects ==
    ASSUME NEW cells \in Seq(Texts), NEW i \in Present(cells)
    PROVE  LET type == InferType(cells)
               own == [op |-> "eq", value |-> Coerce(cells[i], type)]
           IN /\ Builds(own, type)
              /\ Selected(own, cells) = {j \in Present(cells) : Coerce(cells[j], type) = Coerce(cells[i], type)}
<1> DEFINE type == InferType(cells)
           value == Coerce(cells[i], type)
           own == [op |-> "eq", value |-> value]
           stored == Stored(cells, type)
<1>1. type \in TypesOfColumns /\ Fits(cells[i], type) /\ cells[i] \in Texts /\ cells[i].is # "empty"
  BY EveryCellFits, CellsAreTexts
<1>2. FilterValue(value, type) = value /\ value # Invalid
  BY <1>1, StoredIsAskedFor
<1>3. own.op = "eq" /\ own.value = value
  OBVIOUS
<1>4. Selected(own, cells) = {j \in DOMAIN cells : stored[j] # Null /\ stored[j] = FilterValue(value, type)}
  BY DEF Selected, Compares
<1>5. \A j \in DOMAIN cells : /\ stored[j] # Null <=> j \in Present(cells)
                              /\ j \in Present(cells) => stored[j] = Coerce(cells[j], type)
  BY StoredIsThere
<1>6. Present(cells) \subseteq DOMAIN cells
  BY DEF Present
<1> HIDE DEF stored, value, type, own
<1>7. \A j : j \in Selected(own, cells) <=> j \in Present(cells) /\ Coerce(cells[j], type) = value
  BY <1>2, <1>4, <1>5, <1>6
<1>8. Selected(own, cells) = {j \in Present(cells) : Coerce(cells[j], type) = value}
  BY <1>7
<1>9. Builds(own, type)
  BY <1>2, <1>3 DEF Builds, Equalities, Comparisons
<1> QED
  BY <1>8, <1>9 DEF own, value, type

(* A list of every element of a finite set.                                *)
LEMMA ListOfASet ==
    ASSUME NEW S, IsFiniteSet(S)
    PROVE  /\ DOMAIN SetToSeq(S) = 1..Cardinality(S) /\ Cardinality(S) \in Nat
           /\ \A k \in DOMAIN SetToSeq(S) : SetToSeq(S)[k] \in S
           /\ \A v \in S : \E k \in DOMAIN SetToSeq(S) : SetToSeq(S)[k] = v
           /\ S # {} => SetToSeq(S) # <<>>
<1> DEFINE n == Cardinality(S)
           list == SetToSeq(S)
<1>1. n \in Nat /\ ExistsBijection(1..n, S)
  BY FS_CardinalityType
<1>2. PICK f : f \in Bijection(1..n, S)
  BY <1>1 DEF ExistsBijection
<1>3. f \in [1..n -> S] /\ IsInjective(f)
  BY <1>2 DEF Bijection, Injection, IsInjective
<1>4. list \in [1..n -> S] /\ IsInjective(list)
  BY <1>3 DEF SetToSeq
<1>5. list \in Injection(1..n, S)
  BY <1>4 DEF Injection, IsInjective
<1>6. IsFiniteSet(1..n) /\ Cardinality(1..n) = n
  BY <1>1, FS_Interval
<1>7. list \in Surjection(1..n, S)
  BY <1>5, <1>6, FS_Injection
<1>8. \A v \in S : \E k \in 1..n : list[k] = v
  BY <1>7 DEF Surjection
<1>9. DOMAIN list = 1..n
  BY <1>4
<1> HIDE DEF list
<1>10. S # {} => list # <<>>
  BY <1>1, <1>8, <1>9
<1> QED
  BY <1>1, <1>4, <1>8, <1>9, <1>10 DEF list

(* What is published of a column is of its cells, and finite.              *)
LEMMA PublishedIsOfTheCells ==
    ASSUME NEW cells \in Seq(Texts)
    PROVE  LET type == InferType(cells)
               published == Published(ColumnSchema(cells))
           IN /\ published \subseteq Values(cells, type) /\ IsFiniteSet(published)
              /\ ColumnSchema(cells).value_domain # Null => published = Values(cells, type)
<1> DEFINE type == InferType(cells)
           published == Published(ColumnSchema(cells))
           first == {i \in Present(cells) : Cardinality({j \in Present(cells) : j <= i}) <= 3}
           read == [i \in DOMAIN cells |-> Coerce(cells[i], type)]
<1>1. DOMAIN cells = 1..Len(cells) /\ Len(cells) \in Nat /\ Present(cells) \subseteq DOMAIN cells
  BY CellsAreTexts
<1>2. IsFiniteSet(DOMAIN cells)
  BY <1>1, FS_Interval
<1>3. ColumnSchema(cells).value_domain = ValueDomain(cells, type)
         /\ ColumnSchema(cells).sample_values = Samples(cells, type)
  BY DEF ColumnSchema
<1>4. ValueDomain(cells, type) # Null => ValueDomain(cells, type) = Values(cells, type)
  BY DEF ValueDomain
<1>5. Samples(cells, type) = {Coerce(cells[i], type) : i \in first}
  BY DEF Samples
<1>6. first \subseteq Present(cells)
  OBVIOUS
<1> HIDE DEF first
<1>7. Samples(cells, type) \subseteq Values(cells, type)
  BY <1>5, <1>6 DEF Values
<1>8. published \subseteq Values(cells, type)
  BY <1>3, <1>4, <1>7 DEF Published
<1>9. \A i \in Present(cells) : read[i] = Coerce(cells[i], type)
  BY <1>1
<1>10. Values(cells, type) \subseteq {read[i] : i \in DOMAIN cells}
  BY <1>1, <1>9 DEF Values
<1>11. IsFiniteSet({read[i] : i \in DOMAIN cells})
  <2>1. read \in Surjection(DOMAIN cells, {read[i] : i \in DOMAIN cells})
    BY DEF Surjection
  <2> QED
    BY <1>2, <2>1, FS_Surjection
<1> HIDE DEF read, published
<1>12. IsFiniteSet(published)
  BY <1>8, <1>10, <1>11, FS_Subset
<1> QED
  BY <1>3, <1>4, <1>8, <1>12 DEF published, Published

(* blurb.ts, grounding.ts, query-builder.ts: for a column of any cells,    *)
(* whatever is published of it can be asked for: it passes the gate, its   *)
(* query is built and finds a row; a list of all of it selects what its    *)
(* values select, and a complete domain every row that has a value; and    *)
(* the ends of the range published are reached.                            *)
THEOREM PublishedIsFound ==
    ASSUME NEW cells \in Seq(Texts)
    PROVE  PublishedHolds(cells)
<1> DEFINE type == InferType(cells)
           col == ColumnSchema(cells)
           published == Published(col)
           eq(v) == [op |-> "eq", value |-> v]
           list == [op |-> "in", value |-> SetToSeq(published)]
           edge(op, n) == [op |-> op, value |-> Number(n)]
           stored == Stored(cells, type)
<1>1. type \in TypesOfColumns /\ \A i \in Present(cells) : Fits(cells[i], type)
  BY EveryCellFits
<1>2. col.type = type /\ col.value_domain = ValueDomain(cells, type) /\ col.value_range = ValueRange(cells, type)
  BY DEF ColumnSchema
<1>3. published \subseteq Values(cells, type) /\ IsFiniteSet(published)
         /\ (col.value_domain # Null => published = Values(cells, type) /\ col.value_domain = Values(cells, type))
  BY PublishedIsOfTheCells DEF Published
<1>4. \A i \in Present(cells) : cells[i] \in Texts /\ cells[i].is # "empty" /\ i \in DOMAIN cells /\ cells[i].n \in Int
  BY CellsAreTexts DEF Present
<1>5. \A i \in DOMAIN cells : /\ stored[i] # Null <=> i \in Present(cells)
                              /\ i \in Present(cells) => stored[i] = Coerce(cells[i], type)
  BY StoredIsThere
<1>6. \A v \in Values(cells, type) : FilterValue(v, type) = v /\ v # Invalid
  <2>1. \A i \in Present(cells) : /\ FilterValue(Coerce(cells[i], type), type) = Coerce(cells[i], type)
                                  /\ Coerce(cells[i], type) # Invalid
    BY <1>1, <1>4, StoredIsAskedFor
  <2> QED
    BY <2>1 DEF Values
<1>7. \A i \in Present(cells) : /\ Builds(eq(Coerce(cells[i], type)), type)
                                /\ Selected(eq(Coerce(cells[i], type)), cells)
                                     = {j \in Present(cells) : Coerce(cells[j], type) = Coerce(cells[i], type)}
  BY EqualitySelects
<1>8. \A v \in Values(cells, type) : /\ Builds(eq(v), type)
                                     /\ Selected(eq(v), cells) = {j \in Present(cells) : Coerce(cells[j], type) = v}
                                     /\ Selected(eq(v), cells) # {}
  <2> SUFFICES ASSUME NEW v \in Values(cells, type)
               PROVE  /\ Builds(eq(v), type)
                      /\ Selected(eq(v), cells) = {j \in Present(cells) : Coerce(cells[j], type) = v}
                      /\ Selected(eq(v), cells) # {}
    OBVIOUS
  <2>1. PICK i \in Present(cells) : v = Coerce(cells[i], type)
    BY DEF Values
  <2> HIDE DEF eq, type
  <2> QED
    BY <1>7, <2>1
<1>9. \A v \in Values(cells, type) : col.value_domain # Null => InDomain(v, col)
  <2> SUFFICES ASSUME NEW v \in Values(cells, type), col.value_domain # Null
               PROVE  InDomain(v, col)
    OBVIOUS
  <2>1. v \in col.value_domain
    BY <1>3
  <2>2. Ordered(type) => NumberOf(v) # Null
    <3>1. PICK i \in Present(cells) : v = Coerce(cells[i], type)
      BY DEF Values
    <3>2. Ordered(type) => NumberOf(v) = cells[i].n
      BY <3>1, OrderedIsTheNumber DEF NumberOf, Number, Text
    <3> QED
      BY <1>4, <3>2, NullAssumption
  <2> HIDE DEF col, type
  <2> QED
    BY <1>2, <2>1, <2>2 DEF InDomain
<1>10. \A v \in Values(cells, type) : GroundedIn(eq(v), col)
  <2> SUFFICES ASSUME NEW v \in Values(cells, type) PROVE GroundedIn(eq(v), col)
    OBVIOUS
  <2>1. eq(v).op = "eq" /\ eq(v).value = v
    OBVIOUS
  <2> HIDE DEF eq, col
  <2> QED
    BY <1>9, <2>1 DEF GroundedIn, InDomain, Satisfiable, Equalities, Comparisons
<1>11. ASSUME published # {}
       PROVE  /\ GroundedIn(list, col) /\ Builds(list, type)
              /\ Selected(list, cells) = UNION {Selected(eq(v), cells) : v \in published}
              /\ col.value_domain # Null => Selected(list, cells) = Present(cells)
  <2> DEFINE all == SetToSeq(published)
  <2>1. /\ \A k \in DOMAIN all : all[k] \in published
        /\ \A v \in published : \E k \in DOMAIN all : all[k] = v
        /\ all # <<>>
    BY <1>3, <1>11, ListOfASet
  <2>2. list.op = "in" /\ list.value = all
    OBVIOUS
  <2>3. Selected(list, cells) = {i \in DOMAIN cells : stored[i] # Null
                                   /\ \E k \in DOMAIN all : stored[i] = FilterValue(all[k], type)}
    BY DEF Selected
  <2> HIDE DEF all, list, published, col, stored, type, eq
  <2>4. \A k \in DOMAIN all : all[k] \in Values(cells, type) /\ FilterValue(all[k], type) = all[k] /\ all[k] # Invalid
    BY <1>3, <1>6, <2>1
  <2>5. GroundedIn(list, col)
    <3>1. col.value_domain # Null => \A k \in DOMAIN list.value : InDomain(list.value[k], col)
      BY <1>9, <2>2, <2>4
    <3> QED
      BY <2>2, <3>1 DEF GroundedIn, InDomain, Satisfiable, Equalities, Comparisons
  <2>6. Builds(list, type)
    BY <2>1, <2>2, <2>4 DEF Builds, Equalities, Comparisons
  <2>7. \A i : i \in Selected(list, cells) <=> i \in Present(cells) /\ Coerce(cells[i], type) \in published
    <3>1. \A i \in Present(cells) : (\E k \in DOMAIN all : stored[i] = FilterValue(all[k], type))
                                      <=> Coerce(cells[i], type) \in published
      <4> TAKE i \in Present(cells)
      <4>1. stored[i] = Coerce(cells[i], type)
        BY <1>4, <1>5
      <4>2. (\E k \in DOMAIN all : stored[i] = FilterValue(all[k], type)) <=> \E k \in DOMAIN all : stored[i] = all[k]
        BY <2>4
      <4> QED
        BY <2>1, <4>1, <4>2
    <3>2. \A i : i \in Selected(list, cells) <=>
                   i \in Present(cells) /\ \E k \in DOMAIN all : stored[i] = FilterValue(all[k], type)
      BY <1>4, <1>5, <2>3
    <3> QED
      BY <3>1, <3>2
  <2>8. \A i : i \in UNION {Selected(eq(v), cells) : v \in published}
                 <=> i \in Present(cells) /\ Coerce(cells[i], type) \in published
    BY <1>3, <1>8
  <2>9. \A i \in Present(cells) : Coerce(cells[i], type) \in Values(cells, type)
    BY DEF Values
  <2>10. col.value_domain # Null => \A i : i \in Selected(list, cells) <=> i \in Present(cells)
    BY <1>3, <2>7, <2>9
  <2>11. \A i : i \in Selected(list, cells) <=> i \in UNION {Selected(eq(v), cells) : v \in published}
    BY <2>7, <2>8
  <2>12. Selected(list, cells) = UNION {Selected(eq(v), cells) : v \in published}
    BY <2>11
  <2>13. Selected(list, cells) \subseteq Present(cells)
    BY <2>7
  <2> QED
    BY <2>5, <2>6, <2>10, <2>12, <2>13
<1>12. ASSUME Ordered(col.type), col.value_range # Null
       PROVE  /\ Selected(edge("gte", col.value_range.max), cells) # {}
              /\ Selected(edge("lte", col.value_range.min), cells) # {}
              /\ Selected(edge("gte", col.value_range.min), cells) = Present(cells)
  <2>1. Ordered(type) /\ ValueRange(cells, type) # Null
    BY <1>2, <1>12
  <2> DEFINE least == ValueRange(cells, type).min
             greatest == ValueRange(cells, type).max
  <2>2. PICK low \in Present(cells) : cells[low].n = least
    BY <2>1, RangeIsOfTheCells
  <2>3. PICK high \in Present(cells) : cells[high].n = greatest
    BY <2>1, RangeIsOfTheCells
  <2>4. \A i \in Present(cells) : least <= cells[i].n /\ cells[i].n <= greatest
    BY <2>1, RangeIsOfTheCells
  <2>5. \A i \in Present(cells) : Coerce(cells[i], type) = Number(cells[i].n)
    BY <2>1, OrderedIsTheNumber
  <2>6. \A i \in Present(cells) : Number(cells[i].n).n = cells[i].n
    BY DEF Number, Text
  <2>7. \A i \in Present(cells) : FilterValue(Number(cells[i].n), type) = Number(cells[i].n)
    BY <1>6, <2>5 DEF Values
  <2>8. \A op \in Comparisons, k \in Present(cells) :
            Selected(edge(op, cells[k].n), cells)
              = {i \in DOMAIN cells : stored[i] # Null /\ Compares(op, stored[i], FilterValue(Number(cells[k].n), type))}
    BY DEF Selected, Comparisons
  <2> HIDE DEF least, greatest, stored, edge, type
  <2>9. \A op \in Comparisons, i, k \in Present(cells) :
            i \in Selected(edge(op, cells[k].n), cells) <=> Compares(op, Number(cells[i].n), Number(cells[k].n))
    <3> TAKE op \in Comparisons, i, k \in Present(cells)
    <3>1. FilterValue(Number(cells[k].n), type) = Number(cells[k].n) /\ stored[i] = Number(cells[i].n)
             /\ stored[i] # Null /\ i \in DOMAIN cells
      BY <1>4, <1>5, <2>5, <2>7
    <3>2. i \in Selected(edge(op, cells[k].n), cells) <=>
             Compares(op, stored[i], FilterValue(Number(cells[k].n), type))
      BY <2>8, <3>1
    <3> QED
      BY <3>1, <3>2
  <2>10. \A op \in Comparisons, k \in Present(cells) : Selected(edge(op, cells[k].n), cells) \subseteq Present(cells)
    <3> TAKE op \in Comparisons, k \in Present(cells)
    <3>1. \A i \in Selected(edge(op, cells[k].n), cells) : i \in DOMAIN cells /\ stored[i] # Null
      BY <2>8
    <3> QED
      BY <1>5, <3>1
  <2>11. "gte" \in Comparisons /\ "lte" \in Comparisons
    BY DEF Comparisons
  <2>12. \A i, k \in Present(cells) :
            /\ Compares("gte", Number(cells[i].n), Number(cells[k].n)) <=> cells[i].n >= cells[k].n
            /\ Compares("lte", Number(cells[i].n), Number(cells[k].n)) <=> cells[i].n <= cells[k].n
    BY <2>6 DEF Compares
  <2>13. high \in Selected(edge("gte", cells[high].n), cells) /\ low \in Selected(edge("lte", cells[low].n), cells)
    BY <1>4, <2>9, <2>11, <2>12
  <2>14. \A i \in Present(cells) : i \in Selected(edge("gte", cells[low].n), cells)
    BY <1>4, <2>2, <2>4, <2>9, <2>11, <2>12
  <2>15. Selected(edge("gte", cells[low].n), cells) = Present(cells)
    BY <2>10, <2>11, <2>14
  <2>16. col.value_range.max = cells[high].n /\ col.value_range.min = cells[low].n
    BY <1>2, <2>2, <2>3 DEF least, greatest
  <2> QED
    BY <2>13, <2>15, <2>16
<1> HIDE DEF col, type, list, eq, edge, published
<1>13. \A v \in published : GroundedIn(eq(v), col) /\ Builds(eq(v), col.type) /\ Selected(eq(v), cells) # {}
  BY <1>2, <1>3, <1>8, <1>10
<1> QED
  BY <1>2, <1>11, <1>12, <1>13 DEF PublishedHolds, col, list, eq, edge, published

LEMMA FinitelyManyCells ==
    ASSUME NEW cells \in Seq(Texts) PROVE IsFiniteSet(Present(cells))
<1>1. DOMAIN cells = 1..Len(cells) /\ Len(cells) \in Nat /\ Present(cells) \subseteq DOMAIN cells
  BY CellsAreTexts
<1>2. IsFiniteSet(1..Len(cells))
  BY <1>1, FS_Interval
<1>3. Present(cells) \in SUBSET (1..Len(cells))
  BY <1>1
<1> QED
  BY <1>2, <1>3, FS_Subset

(* As many values written as cells that have one: no two are the same.     *)
LEMMA WrittenOnce ==
    ASSUME NEW cells \in Seq(Texts)
    PROVE  /\ Cardinality(Written(cells)) \in Nat /\ Cardinality(Present(cells)) \in Nat
           /\ ~(Cardinality(Written(cells)) < Cardinality(Present(cells))) =>
                 \A i, j \in Present(cells) : cells[i] = cells[j] => i = j
           /\ Cardinality(Written(cells)) < Cardinality(Present(cells)) =>
                 \E i, j \in Present(cells) : i # j /\ cells[i] = cells[j]
<1> DEFINE S == Present(cells)
           T == Written(cells)
           f == [i \in S |-> cells[i]]
<1>1. IsFiniteSet(S)
  BY FinitelyManyCells
<1>2. f \in Surjection(S, T)
  BY DEF Surjection, Written
<1>3. IsFiniteSet(T) /\ Cardinality(T) <= Cardinality(S) /\ (Cardinality(T) = Cardinality(S) <=> f \in Injection(S, T))
  BY <1>1, <1>2, FS_Surjection
<1>4. Cardinality(T) \in Nat /\ Cardinality(S) \in Nat
  BY <1>1, <1>3, FS_CardinalityType
<1>5. f \in Injection(S, T) => \A i, j \in S : f[i] = f[j] => i = j
  BY DEF Injection, IsInjective
<1>6. f \in [S -> T]
  BY <1>2 DEF Surjection
<1>7. Cardinality(T) < Cardinality(S) => \E i, j \in S : i # j /\ f[i] = f[j]
  BY <1>1, <1>3, <1>6, FS_PigeonHole
<1>8. \A i \in S : f[i] = cells[i]
  OBVIOUS
<1> HIDE DEF f, S, T
<1>9. ~(Cardinality(T) < Cardinality(S)) => \A i, j \in S : cells[i] = cells[j] => i = j
  BY <1>3, <1>4, <1>5, <1>8
<1>10. Cardinality(T) < Cardinality(S) => \E i, j \in S : i # j /\ cells[i] = cells[j]
  BY <1>7, <1>8
<1> QED
  BY <1>4, <1>9, <1>10 DEF S, T

(* data-quality.ts: for a column of any cells, an identifier without a     *)
(* finding counts one row for each value asked for, a finding of repeated  *)
(* values is of a value that more than one row has, and an empty column    *)
(* has no value.                                                           *)
THEOREM FindingsAreTrue ==
    ASSUME NEW cells \in Seq(Texts), NEW named \in BOOLEAN
    PROVE  QualityHolds(cells, named)
<1> DEFINE type == InferType(cells)
           each(i) == Selected([op |-> "eq", value |-> Coerce(cells[i], type)], cells)
           fewer == Cardinality(Written(cells)) < Cardinality(Present(cells))
           looks == LooksLikeIdentifier(cells, type, named)
<1>1. \A i \in Present(cells) : each(i) = {j \in Present(cells) : Coerce(cells[j], type) = Coerce(cells[i], type)}
  BY EqualitySelects
<1>2. /\ Finding(cells, named) = "empty_column" <=> Present(cells) = {}
      /\ Finding(cells, named) = "duplicate_identifier" <=> Present(cells) # {} /\ looks /\ fewer
      /\ Finding(cells, named) = Null <=> Present(cells) # {} /\ ~(looks /\ fewer)
  <2>1. Null # "empty_column" /\ Null # "duplicate_identifier"
    BY NullAssumption
  <2>2. looks \in BOOLEAN
    BY DEF LooksLikeIdentifier
  <2> HIDE DEF looks, fewer
  <2>3. CASE Present(cells) = {}
    BY <2>1, <2>3 DEF Finding
  <2>4. CASE Present(cells) # {} /\ looks /\ fewer
    BY <2>1, <2>4 DEF Finding, looks, fewer
  <2>5. CASE Present(cells) # {} /\ ~(looks /\ fewer)
    BY <2>1, <2>5 DEF Finding, looks, fewer
  <2> QED
    BY <2>1, <2>3, <2>4, <2>5
<1>3. named /\ type \notin {"date", "numeric"} => looks
  BY DEF LooksLikeIdentifier
<1>4. /\ ~fewer => \A i, j \in Present(cells) : cells[i] = cells[j] => i = j
      /\ fewer => \E i, j \in Present(cells) : i # j /\ cells[i] = cells[j]
  BY WrittenOnce
<1>5. Values(cells, type) = {} <=> Present(cells) = {}
  BY DEF Values
<1>6. IsFiniteSet(Present(cells))
  BY FinitelyManyCells
<1> HIDE DEF looks, fewer, type, each
<1>7. ASSUME Finding(cells, named) = Null, named, type \notin {"date", "numeric"},
             ~\E i, j \in Present(cells) : cells[i] # cells[j] /\ Coerce(cells[i], type) = Coerce(cells[j], type)
      PROVE  \A i \in Present(cells) : each(i) = {i}
  <2> TAKE i \in Present(cells)
  <2>1. \A j \in Present(cells) : Coerce(cells[j], type) = Coerce(cells[i], type) => j = i
    BY <1>2, <1>3, <1>4, <1>7
  <2> QED
    BY <1>1, <2>1
<1>8. ASSUME Finding(cells, named) = "duplicate_identifier"
      PROVE  \E i \in Present(cells) : Cardinality(each(i)) > 1
  <2>1. PICK i, j \in Present(cells) : i # j /\ cells[i] = cells[j]
    BY <1>2, <1>4, <1>8
  <2>2. {i, j} \subseteq each(i) /\ each(i) \subseteq Present(cells)
    BY <1>1, <2>1
  <2>3. IsFiniteSet(each(i))
    BY <1>6, <2>2, FS_Subset
  <2>4. IsFiniteSet({i}) /\ Cardinality({i}) = 1 /\ {i} \subseteq each(i) /\ {i} # each(i)
    BY <2>1, <2>2, FS_Singleton
  <2>5. Cardinality({i}) <= Cardinality(each(i)) /\ Cardinality({i}) # Cardinality(each(i))
    BY <2>3, <2>4, FS_Subset
  <2>6. Cardinality(each(i)) \in Nat
    BY <2>3, FS_CardinalityType
  <2>7. Cardinality(each(i)) > 1
    BY <2>4, <2>5, <2>6
  <2> QED
    BY <2>7
<1> QED
  BY <1>2, <1>5, <1>7, <1>8 DEF QualityHolds, type, each

(* A sum over rows has the value of the sums it is made of.  (SumTo is a   *)
(* recursive function: that there is one, and only one, is proved by the   *)
(* least counterexample.)                                                  *)
Sums(f, g, n) == g = [k \in 0..n |-> IF k = 0 THEN 0 ELSE g[k - 1] + f[k]]

LEMMA SumIsChosen ==
    ASSUME NEW f, NEW n \in Nat
    PROVE  SumTo(f, n) = (CHOOSE g : Sums(f, g, n))[n]
BY DEF SumTo, Sums

LEMMA SomeSums ==
    ASSUME NEW f, NEW n \in Nat
    PROVE  \E g : Sums(f, g, n)
<1> DEFINE some(m) == \E g : Sums(f, g, m)
           Bad == {m \in 0..n : ~some(m)}
           R == OpToRel(<, Nat)
<1>1. IsWellFoundedOn(R, Nat)
  BY NatLessThanWellFounded
<1>2. \A i, j \in Nat : i < j => <<i, j>> \in R
  BY DEF OpToRel
<1>3. \A m \in 0..n : m \in Nat /\ m <= n
  OBVIOUS
<1>4. some(0)
  <2>1. Sums(f, [k \in 0..0 |-> 0], 0)
    BY DEF Sums
  <2> QED
    BY <2>1
<1>5. ASSUME NEW m \in 0..n, m # 0, some(m - 1) PROVE some(m)
  <2>1. PICK g : g = [k \in 0..(m - 1) |-> IF k = 0 THEN 0 ELSE g[k - 1] + f[k]]
    BY <1>5 DEF Sums
  <2> DEFINE h == [k \in 0..m |-> IF k = m THEN g[m - 1] + f[m] ELSE g[k]]
  <2>2. m \in Nat \ {0}
    BY <1>3, <1>5
  <2>3. ASSUME NEW k \in 0..m PROVE h[k] = IF k = 0 THEN 0 ELSE h[k - 1] + f[k]
    <3>1. CASE k = m
      <4>1. h[k] = g[m - 1] + f[m] /\ h[k - 1] = g[m - 1]
        BY <2>2, <3>1
      <4> QED
        BY <2>2, <3>1, <4>1
    <3>2. CASE k # m
      <4>1. k \in 0..(m - 1) /\ h[k] = g[k] /\ (k # 0 => h[k - 1] = g[k - 1])
        BY <2>2, <3>2
      <4>2. g[k] = IF k = 0 THEN 0 ELSE g[k - 1] + f[k]
        BY <2>1, <4>1
      <4> QED
        BY <4>1, <4>2
    <3> QED
      BY <3>1, <3>2
  <2>4. h = [k \in 0..m |-> h[k]]
    OBVIOUS
  <2> HIDE DEF h
  <2>5. Sums(f, h, m)
    BY <2>3, <2>4 DEF Sums
  <2> QED
    BY <2>5
<1> HIDE DEF some, R
<1>6. Bad = {}
  <2> SUFFICES ASSUME Bad # {} PROVE FALSE
    OBVIOUS
  <2>1. Bad \subseteq Nat
    BY <1>3
  <2>2. PICK m \in Bad : \A k \in Bad : ~(<<k, m>> \in R)
    BY <1>1, <2>1, WFMin
  <2>3. m \in 0..n /\ ~some(m) /\ m \in Nat
    BY <1>3
  <2>4. m # 0
    BY <1>4, <2>3
  <2>5. ~some(m - 1) /\ m - 1 \in 0..n
    BY <1>3, <1>5, <2>3, <2>4
  <2>6. m - 1 \in Bad /\ <<m - 1, m>> \in R
    BY <1>2, <1>3, <2>3, <2>5
  <2> QED
    BY <2>2, <2>6
<1>7. some(n)
  BY <1>6
<1> QED
  BY <1>7 DEF some

LEMMA SumsAgree ==
    ASSUME NEW f, NEW n \in Nat, NEW m \in Nat, m <= n, NEW g, Sums(f, g, m), NEW h, Sums(f, h, n)
    PROVE  \A k \in 0..m : g[k] = h[k]
<1> DEFINE Bad == {k \in 0..m : g[k] # h[k]}
           R == OpToRel(<, Nat)
<1>1. IsWellFoundedOn(R, Nat)
  BY NatLessThanWellFounded
<1>2. \A i, j \in Nat : i < j => <<i, j>> \in R
  BY DEF OpToRel
<1> HIDE DEF R
<1>3. \A k \in 0..m : k \in Nat /\ k <= m /\ k \in 0..n /\ (k # 0 => k - 1 \in 0..m)
  OBVIOUS
<1>4. \A k \in 0..m : g[k] = IF k = 0 THEN 0 ELSE g[k - 1] + f[k]
  BY DEF Sums
<1>5. \A k \in 0..n : h[k] = IF k = 0 THEN 0 ELSE h[k - 1] + f[k]
  BY DEF Sums
<1> SUFFICES ASSUME Bad # {} PROVE FALSE
  OBVIOUS
<1>6. Bad \subseteq Nat
  BY <1>3
<1>7. PICK k \in Bad : \A j \in Bad : ~(<<j, k>> \in R)
  BY <1>1, <1>6, WFMin
<1>8. k \in 0..m /\ k \in Nat /\ g[k] # h[k]
  BY <1>3
<1>9. k # 0
  BY <1>3, <1>4, <1>5, <1>8
<1>10. g[k - 1] # h[k - 1]
  BY <1>3, <1>4, <1>5, <1>8, <1>9
<1>11. k - 1 \in Bad /\ <<k - 1, k>> \in R
  BY <1>2, <1>3, <1>8, <1>9, <1>10
<1> QED
  BY <1>7, <1>11

LEMMA SumIsOneByOne ==
    ASSUME NEW f, NEW n \in Nat
    PROVE  /\ SumTo(f, 0) = 0
           /\ n # 0 => SumTo(f, n) = SumTo(f, n - 1) + f[n]
<1>1. ASSUME NEW m \in Nat PROVE \E g : Sums(f, g, m) /\ SumTo(f, m) = g[m]
  <2>1. Sums(f, CHOOSE g : Sums(f, g, m), m)
    BY SomeSums
  <2> QED
    BY <2>1, SumIsChosen
<1>2. SumTo(f, 0) = 0
  <2>1. PICK g : Sums(f, g, 0) /\ SumTo(f, 0) = g[0]
    BY <1>1
  <2> QED
    BY <2>1 DEF Sums
<1>3. ASSUME n # 0 PROVE SumTo(f, n) = SumTo(f, n - 1) + f[n]
  <2>1. PICK h : Sums(f, h, n) /\ SumTo(f, n) = h[n]
    BY <1>1
  <2>2. n - 1 \in Nat
    BY <1>3
  <2>3. PICK g : Sums(f, g, n - 1) /\ SumTo(f, n - 1) = g[n - 1]
    BY <1>1, <2>2
  <2>4. g[n - 1] = h[n - 1]
    BY <2>1, <2>2, <2>3, SumsAgree
  <2>5. h[n] = h[n - 1] + f[n]
    BY <1>3, <2>1 DEF Sums
  <2> QED
    BY <2>1, <2>3, <2>4, <2>5
<1> QED
  BY <1>2, <1>3

(* The sum over two sets of rows that have no row in common is the sum of  *)
(* the two sums; over no row it is zero.                                   *)
LEMMA SumsAdd ==
    ASSUME NEW f, NEW g, NEW h, NEW n \in Nat,
           \A i \in 1..n : f[i] \in Int /\ g[i] \in Int /\ h[i] = f[i] + g[i]
    PROVE  SumTo(f, n) \in Int /\ SumTo(g, n) \in Int /\ SumTo(h, n) = SumTo(f, n) + SumTo(g, n)
<1> DEFINE adds(m) == SumTo(f, m) \in Int /\ SumTo(g, m) \in Int /\ SumTo(h, m) = SumTo(f, m) + SumTo(g, m)
           Bad == {m \in 0..n : ~adds(m)}
           R == OpToRel(<, Nat)
<1>1. IsWellFoundedOn(R, Nat)
  BY NatLessThanWellFounded
<1>2. \A i, j \in Nat : i < j => <<i, j>> \in R
  BY DEF OpToRel
<1>3. \A m \in 0..n : m \in Nat /\ m <= n /\ (m # 0 => m - 1 \in 0..n /\ m \in 1..n)
  OBVIOUS
<1>4. adds(0)
  BY SumIsOneByOne
<1>5. ASSUME NEW m \in 0..n, m # 0, adds(m - 1) PROVE adds(m)
  <2>1. m \in Nat /\ m \in 1..n
    BY <1>3, <1>5
  <2>2. /\ SumTo(f, m) = SumTo(f, m - 1) + f[m]
        /\ SumTo(g, m) = SumTo(g, m - 1) + g[m]
        /\ SumTo(h, m) = SumTo(h, m - 1) + h[m]
    BY <1>5, <2>1, SumIsOneByOne
  <2>3. f[m] \in Int /\ g[m] \in Int /\ h[m] = f[m] + g[m]
    BY <2>1
  <2> QED
    BY <1>5, <2>2, <2>3
<1> HIDE DEF adds, R
<1>6. Bad = {}
  <2> SUFFICES ASSUME Bad # {} PROVE FALSE
    OBVIOUS
  <2>1. Bad \subseteq Nat
    BY <1>3
  <2>2. PICK m \in Bad : \A k \in Bad : ~(<<k, m>> \in R)
    BY <1>1, <2>1, WFMin
  <2>3. m \in 0..n /\ ~adds(m) /\ m \in Nat
    BY <1>3
  <2>4. m # 0
    BY <1>4, <2>3
  <2>5. ~adds(m - 1) /\ m - 1 \in 0..n
    BY <1>3, <1>5, <2>3, <2>4
  <2>6. m - 1 \in Bad /\ <<m - 1, m>> \in R
    BY <1>2, <1>3, <2>3, <2>5
  <2> QED
    BY <2>2, <2>6
<1>7. adds(n)
  BY <1>6
<1> QED
  BY <1>7 DEF adds

LEMMA NothingSumsToZero ==
    ASSUME NEW f, NEW n \in Nat, \A i \in 1..n : f[i] = 0
    PROVE  SumTo(f, n) = 0
<1>1. \A i \in 1..n : f[i] \in Int /\ f[i] = f[i] + f[i]
  OBVIOUS
<1>2. SumTo(f, n) \in Int /\ SumTo(f, n) = SumTo(f, n) + SumTo(f, n)
  BY <1>1, SumsAdd
<1>3. \A x \in Int : x = x + x => x = 0
  OBVIOUS
<1> QED
  BY <1>2, <1>3

(* What the database answers, as it is told.                               *)
Counted(cells, s) == [i \in DOMAIN cells |-> IF i \in s \cap Present(cells) THEN cells[i].n ELSE 0]
LEMMA SumIsTold ==
    ASSUME NEW cells \in Seq(Texts), NEW s
    PROVE  /\ Told(Aggregate("Sum", cells, s)) = SumTo(Counted(cells, s), Len(cells))
           /\ SumTo(Counted(cells, s), Len(cells)) \in Int
<1> DEFINE f == Counted(cells, s)
           n == Len(cells)
<1>1. DOMAIN cells = 1..n /\ n \in Nat /\ \A i \in 1..n : cells[i].n \in Int
  BY CellsAreTexts
<1>2. \A i \in 1..n : f[i] = IF i \in s \cap Present(cells) THEN cells[i].n ELSE 0
  BY <1>1 DEF Counted
<1> DEFINE twice == [i \in 1..n |-> f[i] + f[i]]
<1>3. \A i \in 1..n : f[i] \in Int
  BY <1>1, <1>2
<1>4. \A i \in 1..n : twice[i] = f[i] + f[i]
  OBVIOUS
<1>5. Aggregate("Sum", cells, s) = IF s \cap Present(cells) = {} THEN Null ELSE SumTo(f, n)
  BY DEF Aggregate, Counted
<1> HIDE DEF f, n, twice
<1>6. SumTo(f, n) \in Int
  <2>1. \A i \in 1..n : f[i] \in Int /\ f[i] \in Int /\ twice[i] = f[i] + f[i]
    BY <1>3, <1>4
  <2>2. n \in Nat
    BY <1>1
  <2>3. SumTo(f, n) \in Int /\ SumTo(f, n) \in Int /\ SumTo(twice, n) = SumTo(f, n) + SumTo(f, n)
    BY <2>1, <2>2, SumsAdd
  <2> QED
    BY <2>3
<1>7. CASE s \cap Present(cells) = {}
  <2>1. SumTo(f, n) = 0
    BY <1>1, <1>2, <1>7, NothingSumsToZero
  <2> QED
    BY <1>5, <1>6, <1>7, <2>1 DEF Told, f, n
<1>8. CASE s \cap Present(cells) # {}
  <2>1. SumTo(f, n) # Null
    BY <1>6, NullAssumption
  <2> QED
    BY <1>5, <1>6, <1>8, <2>1 DEF Told, f, n
<1> QED
  BY <1>7, <1>8

LEMMA SumsOfDisjointRows ==
    ASSUME NEW cells \in Seq(Texts), NEW s, NEW t, s \cap t = {}
    PROVE  SumTo(Counted(cells, s \cup t), Len(cells))
             = SumTo(Counted(cells, s), Len(cells)) + SumTo(Counted(cells, t), Len(cells))
<1> DEFINE f == Counted(cells, s)
           g == Counted(cells, t)
           h == Counted(cells, s \cup t)
           n == Len(cells)
<1>1. DOMAIN cells = 1..n /\ n \in Nat /\ \A i \in 1..n : cells[i].n \in Int
  BY CellsAreTexts
<1>2. \A i \in 1..n : /\ f[i] = IF i \in s \cap Present(cells) THEN cells[i].n ELSE 0
                      /\ g[i] = IF i \in t \cap Present(cells) THEN cells[i].n ELSE 0
                      /\ h[i] = IF i \in (s \cup t) \cap Present(cells) THEN cells[i].n ELSE 0
  BY <1>1 DEF Counted
<1> HIDE DEF f, g, h, n
<1>3. \A i \in 1..n : f[i] \in Int /\ g[i] \in Int /\ h[i] = f[i] + g[i]
  BY <1>1, <1>2
<1>4. SumTo(h, n) = SumTo(f, n) + SumTo(g, n)
  BY <1>1, <1>3, SumsAdd
<1> QED
  BY <1>4 DEF f, g, h, n

(* compose-exact.ts, sql-render.ts: for a table of any rows, the number    *)
(* told of a selection is the count or the sum of it; a total is told only *)
(* of parts of one additive kind, and is the sum of the parts told, which, *)
(* for selections that share no row, is the number of them together.       *)
THEOREM AnswersAreTheNumbers ==
    ASSUME NEW cells \in Seq(Texts),
           NEW first \in SUBSET DOMAIN cells, NEW second \in SUBSET DOMAIN cells,
           NEW fn \in {"Count", "CountOf", "Sum", "Minimum", "Maximum"}
    PROVE  AnswerHolds(cells, first, second, fn)
<1> DEFINE selection(s) == Aggregate(fn, cells, s)
           label == IF fn = "CountOf" THEN "Count" ELSE fn
           result(s) == [fn |-> label, shape |-> "scalar", value |-> selection(s)]
           one == <<result(first)>>
           two == <<result(first), result(second)>>
           both == ComposeExact(TRUE, two)
           parts == [i \in DOMAIN two |-> Told(two[i].value)]
<1>1. one # <<>> /\ Len(one) = 1 /\ DOMAIN one = {1} /\ one[1].fn = label /\ one[1].shape = "scalar"
  OBVIOUS
<1>2. /\ two # <<>> /\ Len(two) = 2 /\ DOMAIN two = {1, 2}
      /\ \A i \in {1, 2} : two[i].fn = label /\ two[i].shape = "scalar"
      /\ two[1].value = selection(first) /\ two[2].value = selection(second)
  OBVIOUS
<1>3. label # "none" /\ (label \in {"Count", "Sum"} <=> fn \in {"Count", "CountOf", "Sum"})
  OBVIOUS
<1>4. DOMAIN parts = {1, 2} /\ parts[1] = Told(selection(first)) /\ parts[2] = Told(selection(second))
  BY <1>2
<1>5. parts = <<Told(selection(first)), Told(selection(second))>>
  OBVIOUS
<1> HIDE DEF one, two, parts, both, label
<1>6. ComposeExact(TRUE, one).total = Null
  <2>1. Conclusive(one)
    BY <1>1, <1>3 DEF Conclusive
  <2>2. ~Additive(one)
    BY <1>1 DEF Additive
  <2> QED
    BY <2>1, <2>2 DEF ComposeExact
<1>7. /\ both.told = parts
      /\ both.total = IF fn \in {"Count", "CountOf", "Sum"} THEN SumTo(parts, 2) ELSE Null
  <2>1. Conclusive(two)
    BY <1>2, <1>3 DEF Conclusive
  <2>2. {two[i].fn : i \in DOMAIN two} = {label}
    BY <1>2
  <2>3. Additive(two) <=> fn \in {"Count", "CountOf", "Sum"}
    <3>1. {label} \in {{"Count"}, {"Sum"}} <=> label \in {"Count", "Sum"}
      OBVIOUS
    <3>2. Len(two) > 1
      BY <1>2
    <3>3. Additive(two) <=> {two[i].fn : i \in DOMAIN two} \in {{"Count"}, {"Sum"}}
      BY <3>2, Zenon DEF Additive
    <3> QED
      BY <1>3, <2>2, <3>1, <3>3
  <2>4. CASE fn \in {"Count", "CountOf", "Sum"}
    <3>1. both = [told |-> parts, total |-> SumTo(parts, 2)]
      BY <1>2, <2>1, <2>3, <2>4 DEF both, ComposeExact, parts
    <3> QED
      BY <2>4, <3>1
  <2>5. CASE fn \notin {"Count", "CountOf", "Sum"}
    <3>1. both = [told |-> parts, total |-> Null]
      BY <1>2, <2>1, <2>3, <2>5 DEF both, ComposeExact, parts
    <3> QED
      BY <2>5, <3>1
  <2> QED
    BY <2>4, <2>5
<1>8. /\ IsFiniteSet(first) /\ IsFiniteSet(second) /\ Cardinality(first) \in Nat /\ Cardinality(second) \in Nat
      /\ first \cap second = {} => Cardinality(first \cup second) = Cardinality(first) + Cardinality(second)
      /\ Cardinality(first \cup second) \in Nat
  <2>1. DOMAIN cells = 1..Len(cells) /\ Len(cells) \in Nat
    BY CellsAreTexts
  <2>2. IsFiniteSet(DOMAIN cells)
    BY <2>1, FS_Interval
  <2>3. IsFiniteSet(first) /\ IsFiniteSet(second) /\ IsFiniteSet(first \cup second)
    BY <2>2, FS_Subset
  <2>4. first \cap second = {} => Cardinality(first \cup second) = Cardinality(first) + Cardinality(second)
    <3>1. Cardinality(first \cup second) = Cardinality(first) + Cardinality(second) - Cardinality(first \cap second)
      BY <2>3, FS_Union
    <3>2. first \cap second = {} => Cardinality(first \cap second) = 0
      BY FS_EmptySet
    <3>3. Cardinality(first) \in Nat /\ Cardinality(second) \in Nat
      BY <2>3, FS_CardinalityType
    <3> QED
      BY <3>1, <3>2, <3>3
  <2> QED
    BY <2>3, <2>4, FS_CardinalityType
<1>9. ASSUME fn = "Count"
      PROVE  \A s : selection(s) = Cardinality(s) /\ (Cardinality(s) \in Nat => selection(s) # Null /\ Told(selection(s)) = Cardinality(s))
  BY <1>9, NullAssumption DEF Aggregate, Told
<1>16. ASSUME fn = "CountOf"
       PROVE  /\ \A s : selection(s) = Cardinality(s \cap Present(cells))
              /\ \A s \in {first, second, first \cup second} :
                    Told(selection(s)) = Cardinality(s \cap Present(cells)) /\ selection(s) \in Nat
              /\ selection(first) # Null
              /\ first \cap second = {} =>
                    Told(selection(first \cup second)) = Told(selection(first)) + Told(selection(second))
  <2> DEFINE f == first \cap Present(cells)
             g == second \cap Present(cells)
  <2>1. \A s : selection(s) = Cardinality(s \cap Present(cells))
    BY <1>16 DEF Aggregate
  <2>2. (first \cup second) \cap Present(cells) = f \cup g
    OBVIOUS
  <2>3. f \subseteq first /\ g \subseteq second
    OBVIOUS
  <2> HIDE DEF f, g
  <2>4. IsFiniteSet(f) /\ IsFiniteSet(g) /\ IsFiniteSet(f \cup g) /\ IsFiniteSet(f \cap g)
    BY <1>8, <2>3, FS_Subset, FS_Union, FS_Intersection
  <2>5. Cardinality(f) \in Nat /\ Cardinality(g) \in Nat /\ Cardinality(f \cup g) \in Nat
    BY <2>4, FS_CardinalityType
  <2>6. Cardinality(f \cup g) = Cardinality(f) + Cardinality(g) - Cardinality(f \cap g)
    BY <2>4, FS_Union
  <2>7. first \cap second = {} => Cardinality(f \cap g) = 0
    BY <2>3, FS_EmptySet
  <2>8. \A n \in Nat : n # Null /\ Told(n) = n
    BY NullAssumption DEF Told
  <2> HIDE DEF selection
  <2>9. selection(first) = Cardinality(f) /\ selection(second) = Cardinality(g)
        /\ selection(first \cup second) = Cardinality(f \cup g)
    BY <2>1, <2>2 DEF f, g
  <2>10. first \cap second = {} => Cardinality(f \cup g) = Cardinality(f) + Cardinality(g)
    BY <2>5, <2>6, <2>7
  <2> QED
    BY <2>1, <2>2, <2>5, <2>8, <2>9, <2>10 DEF f, g
<1>10. ASSUME fn = "Sum"
       PROVE  /\ \A s : Told(selection(s)) = SumTo(Counted(cells, s), Len(cells)) /\ Told(selection(s)) \in Int
              /\ first \cap second = {} =>
                    Told(selection(first \cup second)) = Told(selection(first)) + Told(selection(second))
  <2>1. \A s : Told(selection(s)) = SumTo(Counted(cells, s), Len(cells)) /\ Told(selection(s)) \in Int
    BY <1>10, SumIsTold
  <2> HIDE DEF selection
  <2> QED
    BY <2>1, SumsOfDisjointRows
<1> HIDE DEF selection, result
<1>11. fn \in {"Count", "CountOf", "Sum"} => Told(selection(first)) \in Int /\ Told(selection(second)) \in Int
  <2>1. CASE fn = "CountOf"
    BY <1>16, <2>1, NullAssumption DEF Told
  <2> QED
    BY <1>8, <1>9, <1>10, <2>1
<1>12. fn \in {"Count", "CountOf", "Sum"} => SumTo(parts, 2) = parts[1] + parts[2]
  <2> SUFFICES ASSUME fn \in {"Count", "CountOf", "Sum"} PROVE SumTo(parts, 2) = parts[1] + parts[2]
    OBVIOUS
  <2>1. SumTo(parts, 0) = 0
    BY SumIsOneByOne
  <2>2. SumTo(parts, 1) = SumTo(parts, 0) + parts[1]
    BY SumIsOneByOne, 1 \in Nat, 1 # 0, 1 - 1 = 0
  <2>3. SumTo(parts, 2) = SumTo(parts, 1) + parts[2]
    BY SumIsOneByOne, 2 \in Nat, 2 # 0, 2 - 1 = 1
  <2> QED
    BY <1>4, <1>11, <2>1, <2>2, <2>3
<1>13. first \cap second = {} /\ fn \in {"Count", "CountOf", "Sum"} =>
          parts[1] + parts[2] = Told(selection(first \cup second))
  BY <1>4, <1>8, <1>9, <1>10, <1>16
<1>14. fn = "Count" => parts = <<Cardinality(first), Cardinality(second)>>
  BY <1>5, <1>8, <1>9
<1>15. selection(first) = Null => fn \notin {"Count", "CountOf"}
  BY <1>8, <1>9, <1>16
<1>17. fn = "CountOf" =>
          parts = <<Cardinality(first \cap Present(cells)), Cardinality(second \cap Present(cells))>>
  BY <1>5, <1>16
<1> QED
  BY <1>6, <1>7, <1>12, <1>13, <1>14, <1>15, <1>17
     DEF AnswerHolds, one, two, both, selection, result, label

(* The name a column is given: its header, and for the second and later    *)
(* columns of one header their number.                                     *)
Earlier(headers, i) == Cardinality({j \in 1..(i - 1) : headers[j] = headers[i]})
LEMMA NameIsSpelled ==
    ASSUME NEW headers, NEW i \in DOMAIN headers
    PROVE  SqlNames(headers)[i] =
             IF Earlier(headers, i) = 0 THEN <<headers[i]>>
             ELSE IF headers[i].suffix = 0
                  THEN <<[base |-> headers[i].base, suffix |-> Earlier(headers, i) + 1]>>
                  ELSE <<headers[i], Earlier(headers, i) + 1>>
<1> DEFINE h == headers[i]
           e == Earlier(headers, i)
<1>1. NormalizeHeaders(headers)[i] = IF e = 0 THEN <<h>> ELSE <<h, e + 1>>
  BY DEF NormalizeHeaders, Earlier
<1>2. SqlNames(headers)[i] = Spelled(NormalizeHeaders(headers)[i])
  BY DEF SqlNames
<1> HIDE DEF h, e
<1>3. Spelled(<<h>>) = <<h>>
  BY DEF Spelled
<1>4. Spelled(<<h, e + 1>>) = IF h.suffix = 0 THEN <<[base |-> h.base, suffix |-> e + 1]>> ELSE <<h, e + 1>>
  BY DEF Spelled
<1> QED
  BY <1>1, <1>2, <1>3, <1>4 DEF h, e

LEMMA EarlierGrows ==
    ASSUME NEW headers, NEW i \in Nat \ {0}, NEW j \in Nat \ {0}, i < j, headers[i] = headers[j]
    PROVE  Earlier(headers, i) \in Nat /\ Earlier(headers, j) \in Nat /\ Earlier(headers, i) < Earlier(headers, j)
<1> DEFINE S == {k \in 1..(i - 1) : headers[k] = headers[i]}
           T == {k \in 1..(j - 1) : headers[k] = headers[j]}
<1>1. S \subseteq T /\ i \in T /\ i \notin S
  OBVIOUS
<1>2. IsFiniteSet(1..(j - 1))
  BY FS_Interval
<1>3. T \in SUBSET (1..(j - 1))
  OBVIOUS
<1>4. IsFiniteSet(T)
  BY <1>2, <1>3, FS_Subset
<1> HIDE DEF S, T
<1>5. IsFiniteSet(S) /\ Cardinality(S) <= Cardinality(T) /\ Cardinality(S) # Cardinality(T)
  BY <1>1, <1>4, FS_Subset
<1>6. Cardinality(S) \in Nat /\ Cardinality(T) \in Nat
  BY <1>4, <1>5, FS_CardinalityType
<1>7. Earlier(headers, i) = Cardinality(S) /\ Earlier(headers, j) = Cardinality(T)
  BY DEF Earlier, S, T
<1> QED
  BY <1>5, <1>6, <1>7

LEMMA EarlierIsNat ==
    ASSUME NEW headers, NEW i \in Nat \ {0} PROVE Earlier(headers, i) \in Nat
<1>1. IsFiniteSet(1..(i - 1))
  BY FS_Interval
<1>2. {j \in 1..(i - 1) : headers[j] = headers[i]} \in SUBSET (1..(i - 1))
  OBVIOUS
<1> QED
  BY <1>1, <1>2, FS_Subset, FS_CardinalityType DEF Earlier

LEMMA NamesCollideByNumber ==
    ASSUME NEW B, NEW headers \in Seq([base : B, suffix : Nat]), NEW i \in DOMAIN headers, NEW j \in DOMAIN headers,
           i < j, SqlNames(headers)[i] = SqlNames(headers)[j]
    PROVE  headers[i].suffix > 1 \/ headers[j].suffix > 1
<1> DEFINE h == headers[i]
           g == headers[j]
           a == Earlier(headers, i)
           b == Earlier(headers, j)
<1>1. i \in Nat \ {0} /\ j \in Nat \ {0} /\ h \in [base : B, suffix : Nat] /\ g \in [base : B, suffix : Nat]
  <2> DEFINE Heads == [base : B, suffix : Nat]
  <2>1. headers \in Seq(Heads)
    OBVIOUS
  <2> HIDE DEF Heads
  <2>2. i \in Nat \ {0} /\ j \in Nat \ {0} /\ h \in Heads /\ g \in Heads
    BY <2>1
  <2> QED
    BY <2>2 DEF Heads
<1>2. a \in Nat /\ b \in Nat
  BY <1>1, EarlierIsNat
<1>3. h = g => a < b
  BY <1>1, EarlierGrows
<1>4. SqlNames(headers)[i] = IF a = 0 THEN <<h>> ELSE IF h.suffix = 0 THEN <<[base |-> h.base, suffix |-> a + 1]>>
                                                       ELSE <<h, a + 1>>
  BY NameIsSpelled
<1>5. SqlNames(headers)[j] = IF b = 0 THEN <<g>> ELSE IF g.suffix = 0 THEN <<[base |-> g.base, suffix |-> b + 1]>>
                                                       ELSE <<g, b + 1>>
  BY NameIsSpelled
<1> DEFINE one(x, c) == IF c = 0 THEN x ELSE [base |-> x.base, suffix |-> c + 1]
           long(x, c) == c # 0 /\ x.suffix # 0
<1>6. /\ h = [base |-> h.base, suffix |-> h.suffix] /\ g = [base |-> g.base, suffix |-> g.suffix]
      /\ h.suffix \in Nat /\ g.suffix \in Nat
  BY <1>1
<1> HIDE DEF h, g, a, b
<1>7. CASE long(h, a) /\ long(g, b)
  <2>1. <<h, a + 1>> = <<g, b + 1>>
    BY <1>4, <1>5, <1>7
  <2>2. h = g /\ a + 1 = b + 1
    BY <2>1
  <2> QED
    BY <1>2, <1>3, <2>2
<1>8. CASE long(h, a) /\ ~long(g, b)
  <2>1. PICK x : <<h, a + 1>> = <<x>>
    BY <1>4, <1>5, <1>8
  <2>2. Len(<<h, a + 1>>) = Len(<<x>>)
    BY <2>1
  <2> QED
    BY <2>2
<1>9. CASE ~long(h, a) /\ long(g, b)
  <2>1. PICK x : <<g, b + 1>> = <<x>>
    BY <1>4, <1>5, <1>9
  <2>2. Len(<<g, b + 1>>) = Len(<<x>>)
    BY <2>1
  <2> QED
    BY <2>2
<1>10. CASE ~long(h, a) /\ ~long(g, b)
  <2>1. SqlNames(headers)[i] = <<one(h, a)>> /\ SqlNames(headers)[j] = <<one(g, b)>>
    BY <1>4, <1>5, <1>10
  <2>2. one(h, a) = one(g, b)
    <3> HIDE DEF one
    <3>1. <<one(h, a)>> = <<one(g, b)>>
      BY <2>1
    <3> QED
      BY <3>1
  <2>3. CASE a = 0 /\ b = 0
    BY <1>3, <2>2, <2>3
  <2>4. CASE a = 0 /\ b # 0
    <3>1. h = [base |-> g.base, suffix |-> b + 1]
      BY <2>2, <2>4
    <3>2. h.suffix = b + 1
      BY <3>1
    <3> QED
      BY <1>2, <2>4, <3>2 DEF h
  <2>5. CASE a # 0 /\ b = 0
    <3>1. g = [base |-> h.base, suffix |-> a + 1]
      BY <2>2, <2>5
    <3>2. g.suffix = a + 1
      BY <3>1
    <3> QED
      BY <1>2, <2>5, <3>2 DEF g
  <2>6. CASE a # 0 /\ b # 0
    <3>1. [base |-> h.base, suffix |-> a + 1] = [base |-> g.base, suffix |-> b + 1]
      BY <2>2, <2>6
    <3>2. h.base = g.base /\ a + 1 = b + 1
      BY <3>1
    <3>3. h.suffix = 0 /\ g.suffix = 0
      BY <1>10, <2>6
    <3>4. h = g
      BY <1>6, <3>2, <3>3
    <3> QED
      BY <1>2, <1>3, <3>2, <3>4
  <2> QED
    BY <2>3, <2>4, <2>5, <2>6
<1> QED
  BY <1>7, <1>8, <1>9, <1>10

(* The last of some entries.                                               *)
LEMMA LastEntry ==
    ASSUME NEW S, S # {}, NEW n \in Nat, S \subseteq 1..n
    PROVE  LET last == CHOOSE e \in S : \A f \in S : f <= e
           IN last \in S /\ \A f \in S : f <= last
<1> DEFINE D == {n - e : e \in S}
           R == OpToRel(<, Nat)
<1>1. IsWellFoundedOn(R, Nat)
  BY NatLessThanWellFounded
<1>2. \A i, j \in Nat : i < j => <<i, j>> \in R
  BY DEF OpToRel
<1>3. D \subseteq Nat /\ D # {} /\ \A e \in S : e \in Int
  <2>1. \A e \in S : e \in Int /\ n - e \in Nat
    OBVIOUS
  <2> QED
    BY <2>1
<1> HIDE DEF R
<1>4. PICK d \in D : \A e \in D : ~(<<e, d>> \in R)
  BY <1>1, <1>3, WFMin
<1>5. PICK e \in S : d = n - e
  BY <1>4
<1>6. \A f \in S : f <= e
  <2> SUFFICES ASSUME NEW f \in S, e < f PROVE FALSE
    BY <1>3
  <2>1. n - f \in D /\ n - f < d
    BY <1>3, <1>5
  <2> QED
    BY <1>2, <1>3, <1>4, <2>1
<1> QED
  BY <1>5, <1>6

(* legend.ts, table-schema.ts: for a table of any headers and any legend,  *)
(* two columns share a name only when a header itself ends in a number, a  *)
(* column's note is one a dictionary has under its name, and an entry is   *)
(* lost only to a later one of the same name.                              *)
THEOREM LegendIsKept ==
    ASSUME NEW B, NEW T,
           NEW headers \in Seq([base : B, suffix : Nat]),
           NEW entries \in Seq([sheet : {"dictionary", "metadata"}, key : [base : B, suffix : Nat], text : T])
    PROVE  LegendHolds(headers, entries)
<1> DEFINE names == SqlNames(headers)
           own(i) == {e \in DOMAIN entries : entries[e].sheet = "dictionary" /\ <<entries[e].key>> = names[i]}
           last(i) == CHOOSE e \in own(i) : \A f \in own(i) : f <= e
<1>1. ASSUME NEW i \in DOMAIN headers, NEW j \in DOMAIN headers, i # j, names[i] = names[j]
      PROVE  \E k \in {i, j} : headers[k].suffix > 1
  <2>1. i < j \/ j < i
    BY <1>1
  <2>2. CASE i < j
    BY <1>1, <2>2, NamesCollideByNumber
  <2>3. CASE j < i
    BY <1>1, <2>3, NamesCollideByNumber
  <2> QED
    BY <2>1, <2>2, <2>3
<1>2. \A i : ColumnNote(headers, entries, i) = IF own(i) = {} THEN Null ELSE entries[last(i)].text
  BY DEF ColumnNote
<1>3. ASSUME NEW i, own(i) # {} PROVE last(i) \in own(i) /\ \A f \in own(i) : f <= last(i)
  <2>1. DOMAIN entries = 1..Len(entries) /\ Len(entries) \in Nat
    OBVIOUS
  <2>2. own(i) \subseteq 1..Len(entries)
    BY <2>1
  <2> HIDE DEF own
  <2> QED
    BY <1>3, <2>1, <2>2, LastEntry
<1>4. \A i : own(i) \subseteq DOMAIN entries
  OBVIOUS
<1>5. \A i : \A e \in own(i) : entries[e].sheet = "dictionary" /\ <<entries[e].key>> = names[i]
  OBVIOUS
<1>6. \A key : Spelled(<<key>>) = <<key>>
  BY DEF Spelled
<1>7. TableNotes(headers, entries) =
        {e \in DOMAIN entries : entries[e].sheet = "metadata" \/ \A i \in DOMAIN headers : <<entries[e].key>> # names[i]}
  BY DEF TableNotes
<1>8. \A e \in DOMAIN entries : entries[e].sheet \in {"dictionary", "metadata"} /\ e \in Nat
  <2> DEFINE Entries == [sheet : {"dictionary", "metadata"}, key : [base : B, suffix : Nat], text : T]
  <2>1. entries \in Seq(Entries)
    OBVIOUS
  <2>2. \A x \in Entries : x.sheet \in {"dictionary", "metadata"}
    OBVIOUS
  <2> HIDE DEF Entries
  <2> QED
    BY <2>1, <2>2
<1>9. \A e \in DOMAIN entries, i \in DOMAIN headers :
         entries[e].sheet = "dictionary" /\ <<entries[e].key>> = names[i] => e \in own(i)
  OBVIOUS
<1> HIDE DEF own, last, names
<1>10. ASSUME NEW i \in DOMAIN headers, ColumnNote(headers, entries, i) # Null
       PROVE  \E e \in DOMAIN entries : /\ entries[e].sheet = "dictionary"
                                        /\ entries[e].text = ColumnNote(headers, entries, i)
                                        /\ Spelled(<<entries[e].key>>) = names[i]
  <2>1. own(i) # {} /\ ColumnNote(headers, entries, i) = entries[last(i)].text
    BY <1>2, <1>10
  <2>2. last(i) \in own(i)
    BY <1>3, <2>1
  <2> QED
    BY <1>4, <1>5, <1>6, <2>1, <2>2
<1>11. ASSUME NEW e \in DOMAIN entries, e \notin TableNotes(headers, entries)
       PROVE  \/ \E i \in DOMAIN headers : ColumnNote(headers, entries, i) = entries[e].text
              \/ \E later \in DOMAIN entries : later > e /\ entries[later].key = entries[e].key
  <2>1. PICK i \in DOMAIN headers : entries[e].sheet = "dictionary" /\ <<entries[e].key>> = names[i]
    BY <1>7, <1>8, <1>11
  <2>2. e \in own(i)
    BY <1>9, <2>1
  <2>3. last(i) \in own(i) /\ e <= last(i)
    BY <1>3, <2>2
  <2>4. last(i) \in DOMAIN entries /\ <<entries[last(i)].key>> = <<entries[e].key>>
    BY <1>4, <1>5, <2>1, <2>3
  <2>5. entries[last(i)].key = entries[e].key
    BY <2>4
  <2>6. CASE e = last(i)
    BY <1>2, <2>2, <2>6
  <2>7. CASE e # last(i)
    <3>1. last(i) > e
      BY <1>8, <2>3, <2>4, <2>7
    <3> QED
      BY <2>4, <2>5, <3>1
  <2> QED
    BY <2>6, <2>7
<1> QED
  BY <1>1, <1>10, <1>11 DEF LegendHolds, names
(* AnswersAreTheRows: whatever table is loaded, with any cells, headers and *)
(* notes, under any bounds, its answers are its rows.                      *)
THEOREM AnswersAreTheRowsAlways == TableSpec => []AnswersAreTheRows
<1>1. ASSUME case = <<"table">> PROVE AnswersAreTheRows
  BY <1>1 DEF AnswersAreTheRows, Is
<1>2. \A S : \A n \in Nat : Upto(n, S) \subseteq Seq(S)
  BY DEF Upto
<1>3. ASSUME NEW S, NEW T, S \subseteq T PROVE Seq(S) \subseteq Seq(T)
  BY <1>3
<1>4. ASSUME TableCase PROVE AnswersAreTheRows'
  <2>1. CASE \E cells \in Upto(MaxRows, Cells), named \in BOOLEAN : case' = <<"column", cells, named>>
    <3>1. PICK cells \in Upto(MaxRows, Cells), named \in BOOLEAN : case' = <<"column", cells, named>>
      BY <2>1
    <3>2. cells \in Seq(Texts)
      BY <1>2, <1>3, TableAssumption
    <3>3. PublishedHolds(cells) /\ QualityHolds(cells, named)
      BY <3>2, PublishedIsFound, FindingsAreTrue
    <3>4. /\ case'[1] = "column" /\ case'[2] = cells /\ case'[3] = named
      BY <3>1
    <3> QED
      BY <3>3, <3>4 DEF AnswersAreTheRows, Is
  <2>2. CASE \E cells \in Upto(MaxRows, Cells), op \in Ops, v \in Asked :
               case' = <<"condition", cells, [op |-> op, value |-> v]>>
    <3>1. PICK cells \in Upto(MaxRows, Cells), op \in Ops, v \in Asked :
                 case' = <<"condition", cells, [op |-> op, value |-> v]>>
      BY <2>2
    <3>2. cells \in Seq(Texts)
      BY <1>2, <1>3, TableAssumption
    <3>3. v \in Texts /\ v.is # "empty"
      BY TableAssumption
    <3>4. GateHolds(cells, [op |-> op, value |-> v]) /\ QueryHolds(cells, [op |-> op, value |-> v])
      BY <3>2, <3>3, GateIsSound, QueryIsExact
    <3>5. /\ case'[1] = "condition" /\ case'[2] = cells /\ case'[3] = [op |-> op, value |-> v]
      BY <3>1
    <3> QED
      BY <3>4, <3>5 DEF AnswersAreTheRows, Is
  <2>3. CASE \E headers \in Upto(MaxRows, Headers), notes \in Upto(MaxNotes, Notes) :
               case' = <<"legend", headers, notes>>
    <3>1. PICK headers \in Upto(MaxRows, Headers), notes \in Upto(MaxNotes, Notes) :
                 case' = <<"legend", headers, notes>>
      BY <2>3
    <3>2. Headers \subseteq [base : Bases, suffix : Nat]
      BY TableAssumption DEF Headers
    <3>3. Notes \subseteq [sheet : {"dictionary", "metadata"}, key : [base : Bases, suffix : Nat], text : Remarks]
      BY <3>2 DEF Notes
    <3>4. /\ headers \in Seq([base : Bases, suffix : Nat])
          /\ notes \in Seq([sheet : {"dictionary", "metadata"}, key : [base : Bases, suffix : Nat], text : Remarks])
      <4>1. headers \in Seq(Headers) /\ notes \in Seq(Notes)
        BY <1>2, TableAssumption
      <4> QED
        BY <1>3, <3>2, <3>3, <4>1
    <3>5. LegendHolds(headers, notes)
      BY <3>4, LegendIsKept
    <3>6. /\ case'[1] = "legend" /\ case'[2] = headers /\ case'[3] = notes
      BY <3>1
    <3> QED
      BY <3>5, <3>6 DEF AnswersAreTheRows, Is
  <2>4. CASE \E cells \in Upto(MaxRows, Numbered), fn \in Counts : \E first, second \in SUBSET DOMAIN cells :
               case' = <<"answer", cells, first, second, fn>>
    <3>1. PICK cells \in Upto(MaxRows, Numbered), fn \in Counts : \E first, second \in SUBSET DOMAIN cells :
                 case' = <<"answer", cells, first, second, fn>>
      BY <2>4
    <3>2. PICK first \in SUBSET DOMAIN cells, second \in SUBSET DOMAIN cells :
                 case' = <<"answer", cells, first, second, fn>>
      BY <3>1
    <3>3. Numbered \subseteq Texts
      BY TableAssumption DEF Numbered
    <3>4. cells \in Seq(Texts)
      BY <1>2, <1>3, <3>3, TableAssumption
    <3>5. AnswerHolds(cells, first, second, fn)
      BY <3>4, AnswersAreTheNumbers DEF Counts
    <3>6. /\ case'[1] = "answer" /\ case'[2] = cells /\ case'[3] = first
          /\ case'[4] = second /\ case'[5] = fn
      BY <3>2
    <3> QED
      BY <3>5, <3>6 DEF AnswersAreTheRows, Is
  <2> QED
    BY <1>4, <2>1, <2>2, <2>3, <2>4 DEF TableCase
<1>5. ASSUME AnswersAreTheRows, UNCHANGED case PROVE AnswersAreTheRows'
  BY <1>5 DEF AnswersAreTheRows, Is
<1> QED
  BY <1>1, <1>4, <1>5, PTL DEF TableSpec

-----------------------------------------------------------------------------
(* What a request asks for (RequestRouting).                               *)

(* A part occurs where it is found piece by piece.                         *)
LEMMA OccursPiecewise ==
    ASSUME NEW T, NEW part \in Seq(T), NEW text \in Seq(T), NEW i \in DOMAIN text
    PROVE  OccursAt(part, text, i) <=>
               i + Len(part) - 1 <= Len(text) /\ \A k \in 1..Len(part) : part[k] = text[i + k - 1]
<1> DEFINE n == Len(part)
           L == Len(text)
           j == i + n - 1
           found == SubSeq(text, i, j)
<1>1. n \in Nat /\ L \in Nat /\ i \in 1..L /\ i \in Int /\ part \in Seq(T) /\ \A k \in 1..L : text[k] \in T
  OBVIOUS
<1>2. OccursAt(part, text, i) <=> j <= L /\ found = part
  BY DEF OccursAt
<1>3. ASSUME j <= L
      PROVE  /\ found \in Seq(T) /\ Len(found) = n
             /\ \A k \in 1..n : found[k] = text[i + k - 1]
  <2> HIDE DEF n, L
  <2>1. j \in Int /\ i <= j + 1 /\ j - i + 1 = n
    BY <1>1
  <2>2. \A k \in i..j : text[k] \in T
    BY <1>1, <1>3
  <2> HIDE DEF j
  <2>3. found \in Seq(T) /\ Len(found) = IF i <= j THEN j - i + 1 ELSE 0
    BY <1>1, <2>1, <2>2, SubSeqProperties
  <2>4. \A k \in 1..(j - i + 1) : found[k] = text[i + k - 1]
    BY <1>1, <2>1, <2>2, SubSeqProperties
  <2> QED
    BY <1>1, <2>1, <2>3, <2>4
<1>4. ASSUME j <= L
      PROVE  found = part <=> \A k \in 1..n : part[k] = text[i + k - 1]
  <2>1. found \in Seq(T) /\ Len(found) = n /\ \A k \in 1..n : found[k] = text[i + k - 1]
    BY <1>3, <1>4
  <2> HIDE DEF found
  <2>2. (\A k \in 1..n : part[k] = found[k]) <=> found = part
    <3>1. ASSUME \A k \in 1..n : part[k] = found[k] PROVE found = part
      BY <2>1, <3>1, SeqEqual
    <3> QED
      BY <3>1
  <2> HIDE DEF n
  <2> QED
    BY <2>1, <2>2
<1> HIDE DEF found
<1> QED
  BY <1>2, <1>4

(* A text with a break before and after it.                                *)
LEMMA PaddedIs ==
    ASSUME NEW T, Break \in T, NEW text \in Seq(T)
    PROVE  /\ Padded(text) \in Seq(T) /\ Len(Padded(text)) = Len(text) + 2
           /\ Padded(text)[1] = Break /\ Padded(text)[Len(text) + 2] = Break
           /\ \A k \in 1..Len(text) : Padded(text)[k + 1] = text[k]
<1> DEFINE B == <<Break>>
           n == Len(text)
           front == B \o text
<1>1. B \in Seq(T) /\ Len(B) = 1 /\ B[1] = Break /\ n \in Nat
  OBVIOUS
<1> HIDE DEF B, n
<1>2. front \in Seq(T) /\ Len(front) = n + 1
      /\ \A i \in 1..(n + 1) : front[i] = IF i <= 1 THEN B[i] ELSE text[i - 1]
  <2>1. front \in Seq(T) /\ Len(front) = Len(B) + Len(text)
        /\ \A i \in 1..(Len(B) + Len(text)) : front[i] = IF i <= Len(B) THEN B[i] ELSE text[i - Len(B)]
    BY <1>1, ConcatProperties, Zenon
  <2>2. Len(text) = n
    BY DEF n
  <2> QED
    BY <1>1, <2>1, <2>2
<1> HIDE DEF front
<1>3. front \o B \in Seq(T) /\ Len(front \o B) = n + 2
      /\ \A i \in 1..(n + 2) : (front \o B)[i] = IF i <= n + 1 THEN front[i] ELSE B[i - (n + 1)]
  <2>1. front \o B \in Seq(T) /\ Len(front \o B) = Len(front) + Len(B)
        /\ \A i \in 1..(Len(front) + Len(B)) : (front \o B)[i] = IF i <= Len(front) THEN front[i] ELSE B[i - Len(front)]
    BY <1>1, <1>2, ConcatProperties, Zenon
  <2>2. Len(front) + Len(B) = n + 2
    BY <1>1, <1>2
  <2> QED
    BY <1>1, <1>2, <2>1, <2>2
<1>4. Padded(text) = front \o B
  BY DEF Padded, front, B
<1>5. Padded(text)[1] = Break /\ Padded(text)[n + 2] = Break
  <2>1. (front \o B)[1] = front[1] /\ front[1] = B[1]
    BY <1>1, <1>2, <1>3
  <2>2. (front \o B)[n + 2] = B[1]
    BY <1>1, <1>3
  <2> QED
    BY <1>1, <1>4, <2>1, <2>2
<1>6. ASSUME NEW k \in 1..n PROVE Padded(text)[k + 1] = text[k]
  <2>1. (front \o B)[k + 1] = front[k + 1]
    BY <1>1, <1>3
  <2>2. front[k + 1] = text[k]
    BY <1>1, <1>2
  <2> QED
    BY <1>4, <2>1, <2>2
<1> QED
  BY <1>3, <1>4, <1>5, <1>6 DEF n

(* Padding finds whole words: Mentions (subject.ts, intent.ts) is Names.   *)
LEMMA MentionsIsNames ==
    ASSUME NEW T, Break \in T, NEW text \in Seq(T), NEW words \in Seq(T), Len(words) > 0
    PROVE  Mentions(text, words) <=> Names(text, words)
<1> DEFINE n == Len(text)
           m == Len(words)
           P == Padded(text)
           W == Padded(words)
<1>1. n \in Nat /\ m \in Nat /\ m > 0 /\ DOMAIN text = 1..n
  OBVIOUS
<1>2. /\ P \in Seq(T) /\ Len(P) = n + 2 /\ P[1] = Break /\ P[n + 2] = Break
      /\ \A k \in 1..n : P[k + 1] = text[k]
  BY PaddedIs
<1>3. /\ W \in Seq(T) /\ Len(W) = m + 2 /\ W[1] = Break /\ W[m + 2] = Break
      /\ \A k \in 1..m : W[k + 1] = words[k]
  BY PaddedIs
<1>4. Mentions(text, words) <=> \E i \in DOMAIN P : OccursAt(W, P, i)
  BY Zenon DEF Mentions, Includes
<1> HIDE DEF P, W
<1>5. DOMAIN P = 1..(n + 2)
  BY <1>2
<1>6. ASSUME NEW i \in 1..(n + 2)
      PROVE  OccursAt(W, P, i) <=> i + m + 1 <= n + 2 /\ \A k \in 1..(m + 2) : W[k] = P[i + k - 1]
  <2>1. OccursAt(W, P, i) <=> i + Len(W) - 1 <= Len(P) /\ \A k \in 1..Len(W) : W[k] = P[i + k - 1]
    <3>1. i \in DOMAIN P /\ P \in Seq(T) /\ W \in Seq(T)
      BY <1>2, <1>3, <1>5
    <3> QED
      BY <3>1, OccursPiecewise
  <2>2. i + Len(W) - 1 = i + m + 1
    BY <1>1, <1>3
  <2> QED
    BY <1>2, <1>3, <2>1, <2>2
<1>7. ASSUME NEW i \in 1..n
      PROVE  OccursAt(words, text, i) <=> i + m - 1 <= n /\ \A k \in 1..m : words[k] = text[i + k - 1]
  <2>1. i \in DOMAIN text
    BY <1>1
  <2> QED
    BY <2>1, OccursPiecewise, Zenon
<1> HIDE DEF n, m
<1>8. ASSUME NEW i \in 1..(n + 2), OccursAt(W, P, i) PROVE Names(text, words)
  <2>1. i \in 1..n /\ i + m - 1 <= n /\ \A k \in 1..(m + 2) : W[k] = P[i + k - 1]
    BY <1>1, <1>6, <1>8
  <2>2. ASSUME NEW k \in 1..m PROVE words[k] = text[i + k - 1]
    <3>1. k + 1 \in 1..(m + 2) /\ i + (k + 1) - 1 = (i + k - 1) + 1 /\ i + k - 1 \in 1..n
      BY <1>1, <2>1
    <3>2. W[k + 1] = P[(i + k - 1) + 1]
      BY <2>1, <3>1
    <3> QED
      BY <1>2, <1>3, <3>1, <3>2
  <2>3. OccursAt(words, text, i)
    BY <1>7, <2>1, <2>2
  <2>4. i = 1 \/ text[i - 1] = Break
    <3> SUFFICES ASSUME i # 1 PROVE text[i - 1] = Break
      OBVIOUS
    <3>1. i - 1 \in 1..n /\ (i - 1) + 1 = i + 1 - 1 /\ 1 \in 1..(m + 2)
      BY <1>1, <2>1
    <3>2. W[1] = P[(i - 1) + 1]
      BY <2>1, <3>1
    <3> QED
      BY <1>2, <1>3, <3>1, <3>2
  <2>5. i + m - 1 = n \/ text[(i + m - 1) + 1] = Break
    <3> SUFFICES ASSUME i + m - 1 # n PROVE text[(i + m - 1) + 1] = Break
      OBVIOUS
    <3>1. (i + m - 1) + 1 \in 1..n /\ ((i + m - 1) + 1) + 1 = i + (m + 2) - 1 /\ m + 2 \in 1..(m + 2)
      BY <1>1, <2>1
    <3>2. W[m + 2] = P[((i + m - 1) + 1) + 1]
      BY <2>1, <3>1
    <3> QED
      BY <1>2, <1>3, <3>1, <3>2
  <2> QED
    BY <1>1, <2>1, <2>3, <2>4, <2>5, Zenon DEF Names, OnBoundaries, n, m
<1>9. ASSUME NEW i \in 1..n, OccursAt(words, text, i), OnBoundaries(text, i, i + m - 1) PROVE OccursAt(W, P, i)
  <2>1. i + m - 1 <= n /\ \A k \in 1..m : words[k] = text[i + k - 1]
    BY <1>7, <1>9
  <2>2. P[i] = Break
    <3>1. CASE i = 1
      BY <1>2, <3>1
    <3>2. CASE i # 1
      <4>1. text[i - 1] = Break /\ i - 1 \in 1..n /\ (i - 1) + 1 = i
        BY <1>1, <1>9, <3>2 DEF OnBoundaries
      <4> QED
        BY <1>2, <4>1
    <3> QED
      BY <3>1, <3>2
  <2>3. P[i + m + 1] = Break
    <3>1. CASE i + m - 1 = n
      <4>1. i + m + 1 = n + 2
        BY <1>1, <3>1
      <4> QED
        BY <1>2, <4>1
    <3>2. CASE i + m - 1 # n
      <4>1. text[(i + m - 1) + 1] = Break
        BY <1>9, <3>2 DEF OnBoundaries, n
      <4>2. (i + m - 1) + 1 \in 1..n /\ ((i + m - 1) + 1) + 1 = i + m + 1
        BY <1>1, <2>1, <3>2
      <4> QED
        BY <1>2, <4>1, <4>2
    <3> QED
      BY <3>1, <3>2
  <2>4. ASSUME NEW k \in 1..(m + 2) PROVE W[k] = P[i + k - 1]
    <3>1. CASE k = 1
      <4>1. i + k - 1 = i
        BY <1>1, <3>1
      <4> QED
        BY <1>3, <2>2, <3>1, <4>1
    <3>2. CASE k = m + 2
      <4>1. i + k - 1 = i + m + 1
        BY <1>1, <3>2
      <4> QED
        BY <1>3, <2>3, <3>2, <4>1
    <3>3. CASE k # 1 /\ k # m + 2
      <4> DEFINE q == k - 1
      <4>1. q \in 1..m /\ k = q + 1 /\ i + k - 1 = (i + q - 1) + 1 /\ i + q - 1 \in 1..n
        BY <1>1, <2>1, <3>3
      <4> HIDE DEF q
      <4>2. W[k] = words[q] /\ P[i + k - 1] = text[i + q - 1]
        BY <1>2, <1>3, <4>1
      <4> QED
        BY <2>1, <4>1, <4>2
    <3> QED
      BY <3>1, <3>2, <3>3
  <2>5. i \in 1..(n + 2) /\ i + m + 1 <= n + 2
    BY <1>1, <2>1
  <2> QED
    BY <1>6, <2>4, <2>5
<1>10. ASSUME Names(text, words) PROVE \E i \in 1..(n + 2) : OccursAt(W, P, i)
  <2>1. PICK i \in 1..n : OccursAt(words, text, i) /\ OnBoundaries(text, i, i + m - 1)
    BY <1>1, <1>10, Zenon DEF Names, m
  <2>2. i \in 1..(n + 2)
    BY <1>1
  <2> QED
    BY <1>9, <2>1, <2>2
<1> QED
  BY <1>4, <1>5, <1>8, <1>10

(* What a text names, it names with more words after it.                   *)
LEMMA NamesStay ==
    ASSUME NEW T, Break \in T, NEW text \in Seq(T), NEW more \in Seq(T), NEW words \in Seq(T),
           Len(words) > 0, Names(text, words)
    PROVE  Names(text \o <<Break>> \o more, words)
<1> DEFINE n == Len(text)
           m == Len(words)
           B == <<Break>>
           front == text \o B
           longer == front \o more
           N == Len(longer)
<1>1. n \in Nat /\ m \in Nat /\ m > 0 /\ DOMAIN text = 1..n
  OBVIOUS
<1>2. B \in Seq(T) /\ Len(B) = 1 /\ B[1] = Break
  OBVIOUS
<1> HIDE DEF B
<1>3. front \in Seq(T) /\ Len(front) = n + 1 /\ front[n + 1] = Break /\ \A k \in 1..n : front[k] = text[k]
  <2>1. front \in Seq(T) /\ Len(front) = n + Len(B)
        /\ \A k \in 1..(n + Len(B)) : front[k] = IF k <= n THEN text[k] ELSE B[k - n]
    BY <1>2, ConcatProperties, Zenon
  <2> HIDE DEF n, front
  <2>2. front[n + 1] = B[1]
    BY <1>1, <1>2, <2>1
  <2>3. \A k \in 1..n : front[k] = text[k]
    BY <1>1, <1>2, <2>1
  <2> QED
    BY <1>2, <2>1, <2>2, <2>3
<1> HIDE DEF front
<1>4. longer \in Seq(T) /\ N \in Nat /\ N >= n + 1 /\ DOMAIN longer = 1..N
      /\ \A k \in 1..(n + 1) : longer[k] = front[k]
  <2>1. longer \in Seq(T) /\ N = Len(front) + Len(more)
        /\ \A k \in 1..(Len(front) + Len(more)) :
               longer[k] = IF k <= Len(front) THEN front[k] ELSE more[k - Len(front)]
    BY <1>3, ConcatProperties, Zenon
  <2>2. DOMAIN longer = 1..N
    BY <2>1, LenProperties, Zenon
  <2>3. Len(more) \in Nat
    OBVIOUS
  <2> HIDE DEF longer, N, n
  <2> QED
    BY <1>1, <1>3, <2>1, <2>2, <2>3
<1> HIDE DEF n, m, longer, N
<1>5. longer[n + 1] = Break /\ \A k \in 1..n : longer[k] = text[k]
  <2>1. n + 1 \in 1..(n + 1) /\ \A k \in 1..n : k \in 1..(n + 1)
    BY <1>1
  <2> QED
    BY <1>3, <1>4, <2>1
<1>6. PICK i \in 1..n : OccursAt(words, text, i) /\ OnBoundaries(text, i, i + m - 1)
  BY <1>1, Zenon DEF Names, m
<1>7. i + m - 1 <= n /\ \A k \in 1..m : words[k] = text[i + k - 1]
  BY <1>1, <1>6, OccursPiecewise DEF n, m
<1>8. i \in 1..N /\ i + m - 1 <= N
  BY <1>1, <1>4, <1>7
<1>9. OccursAt(words, longer, i)
  <2>1. \A k \in 1..m : words[k] = longer[i + k - 1]
    <3>1. \A k \in 1..m : i + k - 1 \in 1..n
      BY <1>1, <1>7
    <3> QED
      BY <1>5, <1>7, <3>1
  <2>2. i \in DOMAIN longer
    BY <1>4, <1>8
  <2> QED
    BY <1>4, <1>8, <2>1, <2>2, OccursPiecewise DEF m, N
<1>10. i = 1 \/ longer[i - 1] = Break
  <2>1. i # 1 => text[i - 1] = Break /\ i - 1 \in 1..n
    BY <1>1, <1>6 DEF OnBoundaries
  <2> QED
    BY <1>5, <2>1
<1>11. longer[(i + m - 1) + 1] = Break
  <2>1. i + m - 1 # n => text[(i + m - 1) + 1] = Break
    BY <1>6 DEF OnBoundaries, n
  <2>2. i + m - 1 # n => (i + m - 1) + 1 \in 1..n
    BY <1>1, <1>7
  <2>3. i + m - 1 = n => (i + m - 1) + 1 = n + 1
    BY <1>1
  <2> QED
    BY <1>5, <2>1, <2>2, <2>3
<1>12. Names(longer, words)
  BY <1>4, <1>8, <1>9, <1>10, <1>11, Zenon DEF Names, OnBoundaries, m
<1> QED
  BY <1>12 DEF longer, front, B

-----------------------------------------------------------------------------
(* A function has finitely many values on a finite domain.                 *)
LEMMA FiniteImage ==
    ASSUME NEW f, IsFiniteSet(DOMAIN f)
    PROVE  LET values == {f[x] : x \in DOMAIN f}
           IN IsFiniteSet(values) /\ Cardinality(values) <= Cardinality(DOMAIN f)
<1> DEFINE values == {f[x] : x \in DOMAIN f}
           g == [x \in DOMAIN f |-> f[x]]
<1>1. g \in Surjection(DOMAIN f, values)
  BY DEF Surjection
<1> HIDE DEF g
<1>2. IsFiniteSet(values) /\ Cardinality(values) <= Cardinality(DOMAIN f)
  BY <1>1, FS_Surjection
<1> QED
  BY <1>2

(* classify has three outcomes, and a draft is of the one type recognised. *)
LEMMA Outcomes ==
    ASSUME NEW text, NEW index, IsFiniteSet(DOMAIN index), IsFiniteSet(DeliverableNouns)
    PROVE  \/ ~HasWord(text, DraftVerbs) /\ Classify(text, index) = Ask
           \/ HasWord(text, DraftVerbs) /\ Classify(text, index) = Ambiguous
           \/ HasWord(text, DraftVerbs)
              /\ \E t : Recognised(text, index) = {t} /\ Classify(text, index) = Draft(t)
<1> DEFINE types == Recognised(text, index)
           nouns == Unrecognised(text, index)
           total == Cardinality(types) + Cardinality(nouns)
           verb == HasWord(text, DraftVerbs)
           chosen == Classify(text, index)
<1>1. IsFiniteSet(types)
  <2> DEFINE A == {a \in DOMAIN index : Mentions(text, a)}
             f == [a \in A |-> index[a]]
  <2>1. IsFiniteSet(A)
    BY FS_Subset
  <2>2. types = {f[a] : a \in A} /\ DOMAIN f = A
    BY DEF Recognised
  <2> HIDE DEF A, f
  <2> QED
    BY <2>1, <2>2, FiniteImage
<1>2. IsFiniteSet(nouns)
  BY FS_Subset DEF Unrecognised, UnrecognisedOf
<1>3. Cardinality(types) \in Nat /\ Cardinality(nouns) \in Nat
  BY <1>1, <1>2, FS_CardinalityType
<1>4. ASSUME types # {}, ~(total > 1)
      PROVE  total = 1 /\ \E t : types = {t}
  <2>1. PICK t : t \in types
    BY <1>4
  <2> HIDE DEF types, nouns
  <2>2. Cardinality({t}) = 1 /\ Cardinality({t}) <= Cardinality(types)
        /\ (Cardinality(types) = Cardinality({t}) => types = {t})
    <3>1. {t} \in SUBSET types
      BY <2>1
    <3>2. Cardinality({t}) = 1
      BY FS_Singleton
    <3> QED
      BY <1>1, <3>1, <3>2, FS_Subset
  <2>3. Cardinality(types) = 1 /\ total = 1
    BY <1>3, <1>4, <2>2
  <2> QED
    BY <2>2, <2>3
<1>5. chosen = CASE ~verb -> Ask
                 [] verb /\ (total > 1 \/ types = {}) -> Ambiguous
                 [] verb /\ total = 1 /\ types # {} -> Draft(CHOOSE t \in types : TRUE)
  BY DEF Classify
<1>6. total = 1 => ~(total > 1)
  OBVIOUS
<1> HIDE DEF types, total, verb, chosen
<1>7. ~verb => chosen = Ask
  BY <1>5
<1>8. verb /\ (total > 1 \/ types = {}) => chosen = Ambiguous
  BY <1>5, <1>6
<1>9. ASSUME verb, ~(total > 1), types # {}
      PROVE  \E t : types = {t} /\ chosen = Draft(t)
  <2>1. total = 1
    BY <1>4, <1>9
  <2>2. PICK t : types = {t}
    BY <1>4, <1>9
  <2>3. chosen = Draft(CHOOSE u \in types : TRUE)
    BY <1>5, <1>9, <2>1
  <2>4. (CHOOSE u \in types : TRUE) = t
    BY <2>2
  <2> QED
    BY <2>2, <2>3, <2>4
<1> QED
  BY <1>7, <1>8, <1>9 DEF types, verb, chosen

(* The three kinds of classification.                                      *)
LEMMA Modes ==
    /\ Ask.mode = "ask" /\ Ambiguous.mode = "ambiguous" /\ Ask # Ambiguous
    /\ \A t : Draft(t).mode = "draft" /\ Draft(t).type = t /\ Draft(t) # Ask /\ Draft(t) # Ambiguous
BY DEF Ask, Ambiguous, Draft

(* What the expressions of intent.ts find are whole words.                 *)
LEMMA HasWordIs ==
    ASSUME NEW T, Break \in T, NEW text \in Seq(T), NEW words \in SUBSET T
    PROVE  HasWord(text, words) <=> \E w \in words : Names(text, <<w>>)
<1>1. ASSUME NEW w \in words PROVE Mentions(text, <<w>>) <=> Names(text, <<w>>)
  <2>1. <<w>> \in Seq(T) /\ Len(<<w>>) > 0
    OBVIOUS
  <2> QED
    BY <2>1, MentionsIsNames
<1> QED
  BY <1>1, Zenon DEF HasWord

(* The types recognised are those with an alias that is named.             *)
LEMMA RecognisedIs ==
    ASSUME NEW T, Break \in T, NEW text \in Seq(T), NEW index, \A a \in DOMAIN index : a \in Seq(T) /\ Len(a) > 0
    PROVE  \A t : t \in Recognised(text, index) <=> \E a \in DOMAIN index : index[a] = t /\ Names(text, a)
<1>1. ASSUME NEW a \in DOMAIN index PROVE Mentions(text, a) <=> Names(text, a)
  BY MentionsIsNames
<1> QED
  BY <1>1, Zenon DEF Recognised

(* classifier.ts, classify, of any text and any alias index: a request is  *)
(* drafted only if it names a drafting verb and an alias of that type, as  *)
(* whole words, and names no alias of another type; and it is a question   *)
(* exactly when it names no such verb.                                     *)
THEOREM DraftIsWhatWasNamed ==
    ASSUME NEW T, Break \in T, NEW text \in Seq(T),
           NEW index, IsFiniteSet(DOMAIN index), \A a \in DOMAIN index : a \in Seq(T) /\ Len(a) > 0,
           DraftVerbs \subseteq T, IsFiniteSet(DeliverableNouns)
    PROVE  DraftIsNamed(text, index)
<1> DEFINE chosen == Classify(text, index)
           requested == \E v \in DraftVerbs : Names(text, <<v>>)
<1>1. requested <=> HasWord(text, DraftVerbs)
  BY HasWordIs
<1>2. \A t : t \in Recognised(text, index) <=> \E a \in DOMAIN index : index[a] = t /\ Names(text, a)
  BY RecognisedIs
<1>3. \/ ~HasWord(text, DraftVerbs) /\ chosen = Ask
      \/ HasWord(text, DraftVerbs) /\ chosen = Ambiguous
      \/ HasWord(text, DraftVerbs) /\ \E t : Recognised(text, index) = {t} /\ chosen = Draft(t)
  BY Outcomes
<1> HIDE DEF chosen, requested
<1>4. chosen.mode = "ask" <=> ~requested
  BY <1>1, <1>3, Modes
<1>5. ASSUME chosen.mode = "draft"
      PROVE  /\ requested
             /\ \E a \in DOMAIN index : index[a] = chosen.type /\ Names(text, a)
             /\ \A a \in DOMAIN index : Names(text, a) => index[a] = chosen.type
  <2>1. PICK t : Recognised(text, index) = {t} /\ chosen = Draft(t) /\ requested
    BY <1>1, <1>3, <1>5, Modes
  <2>2. chosen.type = t
    BY <2>1, Modes
  <2> QED
    BY <1>2, <2>1, <2>2
<1> QED
  BY <1>4, <1>5 DEF DraftIsNamed, chosen, requested

(* classifier.ts and derivations.ts: words added to a request never turn a *)
(* draft into another draft or into a question, and never take a defined   *)
(* term away.                                                              *)
THEOREM MoreWordsKeepTheMeaning ==
    ASSUME NEW T, Break \in T, NEW text \in Seq(T), NEW more \in Seq(T),
           NEW index, IsFiniteSet(DOMAIN index), \A a \in DOMAIN index : a \in Seq(T) /\ Len(a) > 0,
           NEW name, NEW columns, NEW defs, \A d \in defs : \A t \in d.terms : t \in Seq(T) /\ Len(t) > 0,
           DraftVerbs \subseteq T, IsFiniteSet(DeliverableNouns)
    PROVE  SayingMoreKeeps(text, more, index, name, columns, defs)
<1> DEFINE longer == text \o <<Break>> \o more
           chosen == Classify(text, index)
           later == Classify(longer, index)
<1>1. longer \in Seq(T)
  OBVIOUS
<1>2. ASSUME NEW words \in Seq(T), Len(words) > 0, Mentions(text, words) PROVE Mentions(longer, words)
  <2>1. Names(text, words)
    BY <1>2, MentionsIsNames
  <2>2. Names(longer, words)
    BY <1>2, <2>1, NamesStay
  <2> QED
    BY <1>1, <1>2, <2>2, MentionsIsNames
<1> HIDE DEF longer
<1>3. HasWord(text, DraftVerbs) => HasWord(longer, DraftVerbs)
  <2>1. ASSUME NEW w \in DraftVerbs, Mentions(text, <<w>>) PROVE Mentions(longer, <<w>>)
    <3>1. <<w>> \in Seq(T) /\ Len(<<w>>) > 0
      OBVIOUS
    <3> QED
      BY <1>2, <2>1, <3>1
  <2> QED
    BY <2>1, Zenon DEF HasWord
<1>4. Recognised(text, index) \subseteq Recognised(longer, index)
  <2>1. \A a \in DOMAIN index : Mentions(text, a) => Mentions(longer, a)
    BY <1>2
  <2> QED
    BY <2>1, Zenon DEF Recognised
<1>5. \/ ~HasWord(text, DraftVerbs) /\ chosen = Ask
      \/ HasWord(text, DraftVerbs) /\ chosen = Ambiguous
      \/ HasWord(text, DraftVerbs) /\ \E t : Recognised(text, index) = {t} /\ chosen = Draft(t)
  BY Outcomes
<1>6. \/ ~HasWord(longer, DraftVerbs) /\ later = Ask
      \/ HasWord(longer, DraftVerbs) /\ later = Ambiguous
      \/ HasWord(longer, DraftVerbs) /\ \E t : Recognised(longer, index) = {t} /\ later = Draft(t)
  BY Outcomes
<1> HIDE DEF chosen, later
<1>7. ASSUME chosen.mode = "draft" PROVE later \in {chosen, Ambiguous}
  <2>1. PICK t : HasWord(text, DraftVerbs) /\ Recognised(text, index) = {t} /\ chosen = Draft(t)
    BY <1>5, <1>7, Modes
  <2>2. ASSUME NEW u, Recognised(longer, index) = {u}, later = Draft(u) PROVE later = chosen
    BY <1>4, <2>1, <2>2
  <2> QED
    BY <1>3, <1>6, <2>1, <2>2
<1>8. later = Ask => chosen = Ask
  BY <1>3, <1>5, <1>6, Modes
<1>9. ApplicableDerivations(text, name, columns, defs) \subseteq ApplicableDerivations(longer, name, columns, defs)
  <2>1. ASSUME NEW d \in DerivationsForTable(name, columns, defs), NEW t \in d.terms, Mentions(text, t)
        PROVE  Mentions(longer, t)
    <3>1. d \in defs
      BY DEF DerivationsForTable
    <3> QED
      BY <1>2, <2>1, <3>1
  <2> QED
    BY <2>1, Zenon DEF ApplicableDerivations
<1>10. ApplicableDerivations(longer, name, columns, defs) \subseteq DerivationsForTable(name, columns, defs)
  BY DEF ApplicableDerivations
<1> QED
  BY <1>7, <1>8, <1>9, <1>10 DEF SayingMoreKeeps, chosen, later, longer

(* capability-select.ts: what is selected for drafting is never a question *)
(* to the classifier, and is the type it would draft (or refuse as         *)
(* ambiguous) if a keyword of it is an alias that is named as whole words. *)
THEOREM SelectionIsOfWhatIsDrafted ==
    ASSUME NEW text, NEW index, IsFiniteSet(DOMAIN index), NEW catalog,
           SelectVerbs \subseteq DraftVerbs, IsFiniteSet(DeliverableNouns)
    PROVE  SelectionAgrees(text, index, catalog)
<1> DEFINE selected == SelectCapability(text, catalog)
           drafted == Classify(text, index)
           byWord(c) == \E k \in c.keywords : k \in DOMAIN index /\ index[k] = c.type /\ Mentions(text, k)
           hits == SelectSeq(catalog, LAMBDA c : \E k \in c.keywords : Includes(text, k))
<1>1. selected = CASE text = <<>> \/ (HasWord(text, SelectVerbs) /\ hits = <<>>) -> [mode |-> "clarify"]
                   [] text # <<>> /\ HasWord(text, SelectVerbs) /\ hits # <<>> -> Draft(hits[1].type)
                   [] text # <<>> /\ ~HasWord(text, SelectVerbs) -> Ask
  BY DEF SelectCapability
<1>2. \/ ~HasWord(text, DraftVerbs) /\ drafted = Ask
      \/ HasWord(text, DraftVerbs) /\ drafted = Ambiguous
      \/ HasWord(text, DraftVerbs) /\ \E t : Recognised(text, index) = {t} /\ drafted = Draft(t)
  BY Outcomes
<1> HIDE DEF selected, drafted, hits
<1> SUFFICES ASSUME selected.mode = "draft"
             PROVE  /\ drafted # Ask
                    /\ (\E c \in ToSet(catalog) : c.type = selected.type /\ byWord(c)) =>
                          drafted \in {selected, Ambiguous}
  BY Zenon DEF SelectionAgrees, selected, drafted
<1>3. HasWord(text, SelectVerbs) /\ selected = Draft(hits[1].type)
  <2>1. [mode |-> "clarify"].mode # "draft"
    OBVIOUS
  <2> QED
    BY <1>1, <2>1, Modes
<1>4. HasWord(text, DraftVerbs)
  BY <1>3, Zenon DEF HasWord
<1>5. drafted # Ask
  BY <1>2, <1>4, Modes
<1>6. ASSUME NEW c, c.type = selected.type, byWord(c) PROVE drafted \in {selected, Ambiguous}
  <2>1. c.type \in Recognised(text, index)
    BY <1>6, Zenon DEF Recognised
  <2>2. selected = Draft(c.type)
    BY <1>3, <1>6, Modes
  <2> QED
    BY <1>2, <1>4, <2>1, <2>2
<1> QED
  BY <1>5, <1>6
=============================================================================
