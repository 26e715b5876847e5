------------------------------- MODULE AskRun -------------------------------
(***************************************************************************)
(* One request in ask mode: the route of api/routes/ask.ts, the graph of   *)
(* agent/graph.ts that it streams, the query record both of them load,     *)
(* change and save whole (queries.ts), the custody events of the run and   *)
(* the rows of its trace.                                                  *)
(*                                                                         *)
(* The route and the graph are two actors.  A node works on its own copy   *)
(* of the record, and when the client goes away the route stops waiting    *)
(* for a node that goes on.  Every call over HTTP (record, custody, search *)
(* and data API, model) may fail, a write with or without its effect.      *)
(***************************************************************************)
EXTENDS Integers, Sequences, FiniteSets

CONSTANTS Chunks,      \* points of the vector store
          TableOf,     \* [table blurbs -> tables]
          Readable,    \* the chunks whose labels intersect the caller's
          EnforceLabels, \* enforceLabels(): labels are enforced
          GateLength,  \* bound on the tables one gate decision names
          LostRows,    \* bound on the trace rows that get lost
          None

Blurbs == DOMAIN TableOf
Tables == {TableOf[c] : c \in Blurbs}

Nodes == {"understand", "retrieve", "sql_retrieve", "grounding_notice", "direct_answer",
          "draft", "reconcile", "finalize"}
Answering == {"grounding_notice", "direct_answer", "reconcile"}
Depth(n) == CASE n = "understand" -> 1 [] n = "retrieve" -> 2 [] n = "sql_retrieve" -> 3
              [] n \in {"grounding_notice", "direct_answer", "draft"} -> 4
              [] n = "reconcile" -> 5 [] n = "finalize" -> 6

(* A planned query is told apart by whether the planner left a term of the *)
(* question out of it (and said so), in the first plan or in the second of *)
(* a query that was rejected, and whether its filters lie within the       *)
(* columns' domains.                                                       *)
Plans == [abstained : {"no", "first", "second"}, grounded : BOOLEAN]
PlansOf(turn) == {p \in Plans : p.abstained \in {"no", turn}}
Results == [Tables -> Plans \cup {None}]      \* sqlResults, by table
NoResults == [t \in Tables |-> None]
Queried(results) == {t \in Tables : results[t] # None}

(* What the nodes hand on (state.ts): chunks, SQL results and the tables   *)
(* with a grounding issue.  A node's update is merged when it returns.     *)
States == [chunks : SUBSET Chunks, sql : Results, issues : SUBSET Tables]
Nothing == [chunks |-> {}, sql |-> NoResults, issues |-> {}]
Merge(state, change) ==
    [chunks |-> state.chunks \cup change.chunks,
     sql    |-> [t \in Tables |-> IF change.sql[t] = None THEN state.sql[t] ELSE change.sql[t]],
     issues |-> IF change.issues = {} THEN state.issues ELSE change.issues]

Kinds == Answering \cup {None}       \* an answer is the node that composed it
Records ==
    [status : {"created", "retrieving", "drafting", "reconciling", "complete", "failed"},
     chunks : SUBSET Chunks, queries : Seq(Tables), answer : Kinds]
NewRecord == [status |-> "created", chunks |-> {}, queries |-> <<>>, answer |-> None]

ASSUME AskAssumption ==
    /\ Blurbs \subseteq Chunks
    /\ Readable \subseteq Chunks /\ EnforceLabels \in BOOLEAN
    /\ GateLength \in Nat /\ LostRows \in Nat
    /\ None \notin Tables \cup Plans \cup Records \cup Nodes \cup {"complete", "error"}

VARIABLES handler,   \* where the route is
          aborted,   \* the client has gone, the graph's signal is raised
          told,      \* last of "complete" and "error" sent to the client
          mine,      \* the route's copy of the record
          node,      \* the graph's current node
          at,        \* where in it
          copy,      \* the node's copy of the record
          todo,      \* sql_retrieve: tables still to be queried
          plan,      \* sql_retrieve: the query planned for the first of them
          update,    \* the node's state update so far
          state,     \* the graph's state
          record,    \* the stored record, None before and after it is there
          lost,      \* the store has lost it once
          chain,     \* the custody events of the run
          trace      \* its rows in agent_run_steps

routeVars == <<handler, told, mine>>
nodeVars == <<node, at, copy, todo, plan, update, state>>
storeVars == <<record, lost>>
vars == <<routeVars, aborted, nodeVars, storeVars, chain, trace>>

Init ==
    /\ handler = "begin" /\ aborted = FALSE /\ told = None /\ mine = None
    /\ node = "understand" /\ at = "idle" /\ copy = None
    /\ todo = <<>> /\ plan = None /\ update = Nothing /\ state = Nothing
    /\ record = None /\ lost = FALSE
    /\ chain = <<>> /\ trace = <<>>

Event(type, chunks, table, answer) ==
    [type |-> type, chunks |-> chunks, table |-> table, answer |-> answer]
RunStarted == Event("run_started", {}, None, None)
-----------------------------------------------------------------------------
(* A PUT of the whole document and an append to the chain: both may be     *)
(* applied and answered, or rejected with or without having been applied.  *)
Put(new, ok) == IF ok THEN record' = new ELSE record' \in {record, new}
Chained(event, ok) ==
    IF ok THEN chain' = Append(chain, event) ELSE chain' \in {chain, Append(chain, event)}

-----------------------------------------------------------------------------
(* The route.                                                              *)
Fail(next) == handler' = next /\ told' = "error"

Start == \E ok \in BOOLEAN :
    /\ handler = "begin"
    /\ Chained(RunStarted, ok)
    /\ IF ok THEN handler' = "create" /\ UNCHANGED told ELSE Fail("ended")
    /\ UNCHANGED <<mine, aborted, nodeVars, storeVars, trace>>

(* The id is known to the catch clause only when create has returned.      *)
Create == \E ok \in BOOLEAN :
    /\ handler = "create"
    /\ Put(NewRecord, ok)
    /\ IF ok THEN handler' = "stream" /\ UNCHANGED told ELSE Fail("ended")
    /\ UNCHANGED <<mine, aborted, nodeVars, lost, chain, trace>>

(* The graph's iterator throws once the signal is raised, whatever the     *)
(* node in flight is doing, and when a node has thrown.                    *)
LeaveStreamEarly == TRUE       \* mutant: a deadline of the route's own
LeaveStream == aborted

GiveUp ==
    /\ handler = "stream"
    /\ LeaveStream \/ at = "threw"
    /\ Fail("mark")
    /\ UNCHANGED <<mine, aborted, nodeVars, storeVars, chain, trace>>

Reload == \E ok \in BOOLEAN :
    /\ handler = "reload"
    /\ IF ok /\ record # None
       THEN handler' = "complete" /\ mine' = record /\ UNCHANGED told
       ELSE Fail("mark") /\ UNCHANGED mine
    /\ UNCHANGED <<aborted, nodeVars, storeVars, chain, trace>>

RunCompleted(rec) == Event("run_completed", rec.chunks, None, rec.answer)
TellAnyway(ok) == TRUE       \* mutant: the event is written without waiting
TellWhen(ok) == ok

Complete == \E ok \in BOOLEAN :
    /\ handler = "complete"
    /\ Chained(RunCompleted(mine), ok)
    /\ IF TellWhen(ok) THEN handler' = "ended" /\ told' = "complete" ELSE Fail("mark")
    /\ UNCHANGED <<mine, aborted, nodeVars, storeVars, trace>>

(* The catch clause: load the record again and mark it, ignoring failures. *)
Mark == \E ok \in BOOLEAN :
    /\ handler = "mark"
    /\ IF ok /\ record # None
       THEN handler' = "set_error" /\ mine' = record
       ELSE handler' = "ended" /\ UNCHANGED mine
    /\ UNCHANGED <<told, aborted, nodeVars, storeVars, chain, trace>>

SetError == \E ok \in BOOLEAN :
    /\ handler = "set_error"
    /\ Put([mine EXCEPT !.status = "failed"], ok)
    /\ handler' = "ended"
    /\ UNCHANGED <<told, mine, aborted, nodeVars, lost, chain, trace>>

RouteStep == Start \/ Create \/ GiveUp \/ Reload \/ Complete \/ Mark \/ SetError

-----------------------------------------------------------------------------
(* The nodes.  A node starts with an empty update; "return" and "throw"    *)
(* are the two ways out of its body, after which instrument writes a row.  *)
In(names, place) == node \in names /\ at = place
Go(place) == at' = place
UnchangedByNode == UNCHANGED <<routeVars, aborted, node, state, lost, trace>>

(* understand swallows the failures of both of its calls of the model.     *)
Understand ==
    /\ In({"understand"}, "begin")
    /\ Go("return")
    /\ UnchangedByNode /\ UNCHANGED <<copy, todo, plan, update, record, chain>>

(* QueryRecord.load at the head of a node: without a record it throws.     *)
AfterLoad(rec) ==
    CASE node \in {"retrieve", "draft", "reconcile"} -> "status"
      [] node \in {"direct_answer", "grounding_notice"} -> "answer"
      [] node = "finalize" -> IF rec.status = "complete" THEN "return" ELSE "throw"

Load == \E ok \in BOOLEAN :
    /\ In(Nodes \ {"understand", "sql_retrieve"}, "begin")
    /\ IF ok /\ record # None
       THEN copy' = record /\ Go(AfterLoad(record))
       ELSE Go("throw") /\ UNCHANGED copy
    /\ UnchangedByNode /\ UNCHANGED <<todo, plan, update, record, chain>>

(* A setter changes the copy, then saves it.                               *)
Save(new, next) == \E ok \in BOOLEAN :
    /\ copy' = new
    /\ Put(new, ok)
    /\ Go(IF ok THEN next ELSE "throw")

StatusName == [retrieve |-> "retrieving", draft |-> "drafting", reconcile |-> "reconciling"]
NodeName(n) == n               \* mutant: the node's own name
StatusOf(n) == StatusName[n]

SetStatus ==
    /\ at = "status"
    /\ Save([copy EXCEPT !.status = StatusOf(node)],
            [retrieve |-> "search", draft |-> "partial", reconcile |-> "answer"][node])
    /\ UnchangedByNode /\ UNCHANGED <<todo, plan, update, chain>>

NodeThrows ==    \* an embedding, a search or the model fails, or is aborted
    /\ at \in {"search", "partial"} \/ (node = "reconcile" /\ at = "answer")
    /\ Go("throw")
    /\ UnchangedByNode /\ UNCHANGED <<copy, todo, plan, update, record, chain>>

(* retrieve: the prose lanes, fused, and the table lane, whose failure     *)
(* leaves the blurbs of the prose lane.  The store's filter should have    *)
(* kept to Readable; what comes out is filtered again (the canary), if     *)
(* labels are enforced.                                                    *)
Canary(found) == IF EnforceLabels THEN found \cap Readable ELSE found
RecordedAsFound(found) == found   \* mutant: the record gets what was fetched
Recorded(found) == Canary(found)

Search == \E prose \in SUBSET Chunks, lane \in SUBSET Blurbs :
    /\ In({"retrieve"}, "search")
    /\ LET found == prose \cup lane IN
          /\ update' = [update EXCEPT !.chunks = Canary(found)]
          /\ Save([copy EXCEPT !.chunks = Recorded(found)], "retrieval")
    /\ UnchangedByNode /\ UNCHANGED <<todo, plan, chain>>

ChainRetrieval == \E ok \in BOOLEAN :
    /\ In({"retrieve"}, "retrieval")
    /\ Chained(Event("retrieval", update.chunks, None, None), ok)
    /\ Go(IF ok THEN "return" ELSE "throw")
    /\ UnchangedByNode /\ UNCHANGED <<copy, todo, plan, update, record>>

(* sql_retrieve: nothing to do without blurbs; otherwise load the record   *)
(* (None will do) and ask the gate, which names tables among the blurbs,   *)
(* some perhaps twice, or declines.                                        *)
TablesFound == {TableOf[c] : c \in state.chunks \cap Blurbs}
Selections(tables) == UNION {[1..n -> tables] : n \in 0..GateLength}

Gate ==
    /\ In({"sql_retrieve"}, "begin")
    /\ LET tables == TablesFound IN
       \/ tables = {} /\ Go("return") /\ UNCHANGED <<copy, todo>>
       \/ tables # {} /\ Go("throw") /\ UNCHANGED <<copy, todo>>
       \/ /\ tables # {}
          /\ copy' = record
          /\ todo' \in Selections(tables)
          /\ Go(IF todo' = <<>> THEN "return" ELSE "plan")
    /\ UnchangedByNode /\ UNCHANGED <<plan, update, record, chain>>

NextTable ==
    /\ todo' = Tail(todo) /\ plan' = None
    /\ Go(IF Tail(todo) = <<>> THEN "return" ELSE "plan")
GroundingIssue == update' = [update EXCEPT !.issues = @ \cup {Head(todo)}] /\ NextTable

(* The first plan: an abstention or a filter outside its domain is called  *)
(* out and not executed; a failure skips the table.                        *)
PlanQuery ==
    /\ at = "plan"
    /\ \/ NextTable /\ UNCHANGED update
       \/ \E p \in PlansOf("first") :
             IF p.abstained = "no" /\ p.grounded
             THEN plan' = p /\ Go("execute") /\ UNCHANGED <<todo, update>>
             ELSE GroundingIssue
    /\ UnchangedByNode /\ UNCHANGED <<copy, record, chain>>

(* A query the data API rejects (400) is planned again, once; of the new   *)
(* plan only the query is kept, and only its filters are checked.          *)
ReplanAlways == {"execute", "retry"}    \* mutant: as often as it is rejected
ReplanAfter == {"execute"}
Rejected ==
    /\ at \in ReplanAfter
    /\ Go("replan")
    /\ UnchangedByNode /\ UNCHANGED <<copy, todo, plan, update, record, chain>>

Replan ==
    /\ at = "replan"
    /\ \/ NextTable /\ UNCHANGED update
       \/ \E p \in PlansOf("second") :
             IF p.grounded THEN plan' = p /\ Go("retry") /\ UNCHANGED <<todo, update>>
                           ELSE GroundingIssue
    /\ UnchangedByNode /\ UNCHANGED <<copy, record, chain>>

Execute ==
    /\ at \in {"execute", "retry"}
    /\ \/ NextTable /\ UNCHANGED update
       \/ /\ update' = [update EXCEPT !.sql[Head(todo)] = plan]
          /\ Go(IF copy = None THEN "evidence" ELSE "persist")
          /\ UNCHANGED <<todo, plan>>
    /\ UnchangedByNode /\ UNCHANGED <<copy, record, chain>>

(* appendSqlResult, then the sql_query event.  The catch clause of the     *)
(* loop goes on with the next table; the result stays in the update.       *)
Persist == \E ok \in BOOLEAN :
    /\ at = "persist"
    /\ copy' = [copy EXCEPT !.queries = Append(@, Head(todo))]
    /\ Put(copy', ok)
    /\ IF ok THEN Go("evidence") /\ UNCHANGED <<todo, plan>> ELSE NextTable
    /\ UnchangedByNode /\ UNCHANGED <<update, chain>>

Evidence == \E ok \in BOOLEAN :
    /\ at = "evidence"
    /\ Chained(Event("sql_query", {}, Head(todo), None), ok)
    /\ NextTable
    /\ UnchangedByNode /\ UNCHANGED <<copy, update, record>>

(* draft: the tier's partial answer is saved with the copy.                *)
Partial ==
    /\ In({"draft"}, "partial")
    /\ Save(copy, "return")
    /\ UnchangedByNode /\ UNCHANGED <<todo, plan, update, chain>>

(* setFinalAnswer of the three nodes that give an answer.                  *)
Answer ==
    /\ In(Answering, "answer")
    /\ Save([copy EXCEPT !.answer = node, !.status = "complete"], "return")
    /\ UnchangedByNode /\ UNCHANGED <<todo, plan, update, chain>>

(* instrument: a row of the node, which may be lost, before its result or  *)
(* its error goes on to the graph.                                         *)
Row(status) ==
    \/ trace' = Append(trace, [node |-> node, status |-> status])
    \/ Depth(node) - Len(trace) <= LostRows /\ trace' = trace
Forget(place) == Go(place) /\ copy' = None /\ todo' = <<>> /\ plan' = None /\ update' = Nothing
Swallowed == "over"           \* mutant: instrument swallows the node's error too
Rethrown == "threw"

Return ==
    /\ at = "return"
    /\ Row("ok")
    /\ state' = Merge(state, update)
    /\ Forget("over")
    /\ UNCHANGED <<routeVars, aborted, node, storeVars, chain>>

Throw ==
    /\ at = "throw"
    /\ Row("error")
    /\ Forget(Rethrown)
    /\ UNCHANGED <<routeVars, aborted, node, state, storeVars, chain>>

NodeStep ==
    \/ Understand \/ Load \/ SetStatus \/ NodeThrows \/ Search \/ ChainRetrieval
    \/ Gate \/ PlanQuery \/ Rejected \/ Replan \/ Execute \/ Persist \/ Evidence
    \/ Partial \/ Answer \/ Return \/ Throw

-----------------------------------------------------------------------------
(* The graph.  composeExactAnswer finds an exact answer in SQL results of  *)
(* some shapes, never without any.                                         *)
Composable(results) == IF Queried(results) = {} THEN {FALSE} ELSE BOOLEAN
RouteExactFirst(s, exact) ==      \* mutant: an exact answer has priority
    IF exact THEN "direct_answer" ELSE IF s.issues # {} THEN "grounding_notice" ELSE "draft"
RouteAfterSql(s, exact) ==
    IF s.issues # {} THEN "grounding_notice" ELSE IF exact THEN "direct_answer" ELSE "draft"

Following(exact) ==
    CASE node = "understand" -> "retrieve"
      [] node = "retrieve" -> "sql_retrieve"
      [] node = "sql_retrieve" -> RouteAfterSql(state, exact)
      [] node = "draft" -> "reconcile"
      [] node \in Answering -> "finalize"

Enter(next) == node' = next /\ Go("begin") /\ UNCHANGED <<copy, todo, plan, update>>

GraphStep ==
    /\ handler = "stream" /\ ~aborted
    /\ \/ at = "idle" /\ Enter("understand") /\ UNCHANGED handler
       \/ /\ at = "over" /\ node # "finalize"
          /\ \E exact \in Composable(state.sql) : Enter(Following(exact))
          /\ UNCHANGED handler
       \/ /\ at = "over" /\ node = "finalize"
          /\ handler' = "reload"
          /\ UNCHANGED <<node, at, copy, todo, plan, update>>
    /\ UNCHANGED <<told, mine, aborted, state, storeVars, chain, trace>>

-----------------------------------------------------------------------------
(* The client closes the connection; the store loses the record (a restart *)
(* without persistence, an eviction).                                      *)
Disconnect ==
    /\ ~aborted /\ handler # "ended"
    /\ aborted' = TRUE
    /\ UNCHANGED <<routeVars, nodeVars, storeVars, chain, trace>>

Lose ==
    /\ record # None /\ ~lost
    /\ record' = None /\ lost' = TRUE
    /\ UNCHANGED <<routeVars, aborted, nodeVars, chain, trace>>

Next == RouteStep \/ NodeStep \/ GraphStep \/ Disconnect \/ Lose

Spec == Init /\ [][Next]_vars

(* Every call is answered or fails (fetch gives up on a silent peer), and  *)
(* a settled promise resumes the function that awaits it.                  *)
FairSpec == Spec /\ WF_vars(RouteStep) /\ WF_vars(NodeStep) /\ WF_vars(GraphStep)

-----------------------------------------------------------------------------
OptionalRecord == Records \cup {None}

TypeOK ==
    /\ handler \in {"begin", "create", "stream", "reload", "complete", "mark", "set_error",
                    "ended"}
    /\ aborted \in BOOLEAN /\ told \in {None, "complete", "error"} /\ lost \in BOOLEAN
    /\ node \in Nodes
    /\ at \in {"idle", "begin", "status", "search", "retrieval", "plan", "execute", "replan",
               "retry", "persist", "evidence", "partial", "answer", "return", "throw",
               "over", "threw"}
    /\ mine \in OptionalRecord /\ copy \in OptionalRecord /\ record \in OptionalRecord
    /\ todo \in Seq(Tables) /\ plan \in Plans \cup {None}
    /\ update \in States /\ state \in States
    /\ chain \in Seq([type : {"run_started", "retrieval", "sql_query", "run_completed"},
                      chunks : SUBSET Chunks, table : Tables \cup {None}, answer : Kinds])
    /\ trace \in Seq([node : Nodes, status : {"ok", "error"}])

(* ask.ts 262-265, "this closes the chain for this run": nothing of the    *)
(* run is chained after run_completed, which binds an answer and names as  *)
(* its grounds exactly the chunks of a retrieval event before it, all of   *)
(* which the caller may read if labels are enforced.                       *)
CompletionCloses ==
    \A i \in DOMAIN chain : chain[i].type = "run_completed" =>
        /\ i = Len(chain)
        /\ chain[i].answer # None
        /\ EnforceLabels => chain[i].chunks \subseteq Readable
        /\ \E j \in 1..(i - 1) : chain[j].type = "retrieval" /\ chain[j].chunks = chain[i].chunks

(* A client that was told "complete" has an answer that the chain binds    *)
(* and that the stored record, if it is still there, holds as complete.    *)
ToldIsRecorded ==
    told = "complete" =>
        /\ chain[Len(chain)] = RunCompleted(mine)
        /\ record # None => record.status = "complete" /\ record.answer = mine.answer

(* Conversely, a chain that binds an answer is one the client has heard    *)
(* of, and the stored record, if it is there, holds that answer on those   *)
(* grounds: as complete, or as failed when the append was reported as      *)
(* failed although it had gone through, and the client told of an error.   *)
ClosedIsRecorded ==
    \A i \in DOMAIN chain : chain[i].type = "run_completed" =>
        /\ told # None
        /\ record # None =>
              /\ record.answer = chain[i].answer /\ record.chunks = chain[i].chunks
              /\ record.status = "complete" \/ (record.status = "failed" /\ told = "error")

(* graph.ts 35, "never answer around a term that could not be mapped": as  *)
(* long as a selected table has a grounding issue the run gives no answer  *)
(* but the notice; no filter outside its domain was executed, and a query  *)
(* that leaves a term out only as the second plan of a query that was      *)
(* rejected.  (There sql-retrieve.ts 163 drops the abstention, which       *)
(* 131-134 calls out of a first plan.)                                     *)
NeverAnsweredAround ==
    /\ state.issues # {} => \A rec \in {record, copy, mine} \ {None} :
                               rec.answer \in {None, "grounding_notice"}
    /\ \A t \in Queried(state.sql) :
          state.sql[t].grounded /\ state.sql[t].abstained # "first"

(* ask.ts 310, "mark the QueryRecord as failed so the audit shows the      *)
(* failure": unless the client went away while a node was at work, a       *)
(* record that was marked failed is not written again.                     *)
FailedIsFinal ==
    [][record # None /\ record.status = "failed" /\ ~aborted
         => record' \in {record, None}]_vars

(* graph.ts 41-48 and instrument.ts: what the trace keeps of a run is, in  *)
(* order, rows of one path through the graph, and a row of an error is the *)
(* last, also when the route left a node at work behind.                   *)
TraceIsAPath ==
    \A i, j \in DOMAIN trace : i < j =>
        /\ trace[i].status = "ok"
        /\ Depth(trace[i].node) < Depth(trace[j].node)
        /\ trace[j].node = "reconcile" /\ Depth(trace[i].node) = 4 => trace[i].node = "draft"

(* The record, the chain, the trace and the client agree on how it ended.  *)
RecordsAgree == CompletionCloses /\ ToldIsRecorded /\ ClosedIsRecorded /\ TraceIsAPath

(* Every request is answered or fails, and leaves no node at work.         *)
RequestEnds == <>[](handler = "ended" /\ at \in {"idle", "over", "threw"})
=============================================================================
