------------------------- MODULE ReviewDisposition -------------------------
(***************************************************************************)
(* api/routes/review.ts: concurrent POSTs of a disposition of the drafts   *)
(* under one correlation id, with the human edits of drafting/human-edit.  *)
(*                                                                         *)
(* The endpoint is a sequence of awaited statements without a transaction: *)
(* it reads the documents, reads the set of the first of them, checks the  *)
(* approver, then updates and chains document by document, and at last     *)
(* updates and chains the decision.  Requests are interleaved at every     *)
(* await, each may fail there (a rejected query, a rubric that does not    *)
(* load, the death of the process), and runs persist documents meanwhile.  *)
(***************************************************************************)
EXTENDS Integers, Sequences, FiniteSets

CONSTANTS Sets,          \* draft sets under the correlation: a rerun adds one
          AuthorOf,      \* [Sets -> user], NoUser for a set without author
          NoUser,
          Docs,          \* their documents
          SetOf,         \* [Docs -> Sets]
          Fields,
          ComputedFields, \* fields of provenance "computed"
          Original,      \* the value every field has when it is persisted
          Requests,
          ReviewerOf,    \* [Requests -> user]
          DecisionOf,    \* [Requests -> decision]
          SubmittedOf,   \* [Requests -> set of [doc, field, value]]
          None

Decisions == {"approve", "reject", "rerun"}
Values == {Original} \cup {s.value : s \in UNION {SubmittedOf[q] : q \in Requests}}

ASSUME ReviewAssumption ==
    /\ IsFiniteSet(Docs)
    /\ SetOf \in [Docs -> Sets]
    /\ DecisionOf \in [Requests -> Decisions]
    /\ ComputedFields \subseteq Fields
    /\ \A q \in Requests : \A s \in SubmittedOf[q] : s.doc \in Docs /\ s.field \in Fields
    /\ None \notin Docs \cup Sets

VARIABLES mode,     \* config.mode, fixed for the life of the process
          there,    \* documents persisted so far
          rows,     \* [Docs -> [Fields -> value]]
          tagged,   \* [Docs -> fields marked human_edited in the annotations]
          status,   \* [Sets -> draft_sets.status]
          ledger,   \* [Requests -> its human_decision events, in chain order]
          pc,       \* [Requests -> phase]
          snapshot, \* [Requests -> the documents as read, with their rows]
          target,   \* [Requests -> the set the decision is about]
          left,     \* [Requests -> documents whose edits are still to be applied]
          doc,      \* [Requests -> document updated and not yet chained]
          applied   \* [Requests -> documents edited and chained by the request]

draftVars == <<there, rows, tagged, status>>
requestVars == <<pc, snapshot, target, left, doc, applied>>
vars == <<mode, draftVars, ledger, requestVars>>

Init ==
    /\ mode \in {"production", "debug"}
    /\ there = {}
    /\ rows = [d \in Docs |-> [f \in Fields |-> Original]]
    /\ tagged = [d \in Docs |-> {}]
    /\ status = [s \in Sets |-> "pending_review"]
    /\ ledger = [q \in Requests |-> <<>>]
    /\ pc = [q \in Requests |-> "new"]
    /\ snapshot = [q \in Requests |-> <<>>]
    /\ target = [q \in Requests |-> None]
    /\ left = [q \in Requests |-> {}]
    /\ doc = [q \in Requests |-> None]
    /\ applied = [q \in Requests |-> {}]

GoTo(q, phase) == pc' = [pc EXCEPT ![q] = phase]
Chain(q, event) == ledger' = [ledger EXCEPT ![q] = Append(@, event)]

-----------------------------------------------------------------------------
(* A run at its halt persists one more document.                           *)
Persist(d) ==
    /\ d \notin there
    /\ there' = there \cup {d}
    /\ UNCHANGED <<mode, rows, tagged, status, ledger, requestVars>>

(* Debug mode refuses approval outright.  Otherwise the documents of the   *)
(* correlation are read; without any, the answer is 404.                   *)
Refused(q) == DecisionOf[q] = "approve" /\ mode = "debug"

Read(q) ==
    /\ pc[q] = "new"
    /\ IF Refused(q) \/ there = {}
       THEN GoTo(q, "refused") /\ UNCHANGED snapshot
       ELSE GoTo(q, "read") /\ snapshot' = [snapshot EXCEPT ![q] = [d \in there |-> rows[d]]]
    /\ UNCHANGED <<mode, draftVars, ledger, target, left, doc, applied>>

(* Approval needs a known author other than the approver.  Definitions     *)
(* marked "mutant" only show that the properties depend on their neighbour. *)
IndependentOfQuery(q, s) == ReviewerOf[q] # "qry_1"   \* mutant: the query's id
Independent(q, s) == AuthorOf[s] \notin {NoUser, ReviewerOf[q]}

(* computeHumanEdits: the submitted fields that differ from the rows read. *)
Delta(q, d) ==
    {[field |-> s.field, from |-> snapshot[q][d][s.field], to |-> s.value] :
        s \in {t \in SubmittedOf[q] : t.doc = d /\ t.value # snapshot[q][d][t.field]}}

DeltaReread(q, d) ==                              \* mutant: from the stored rows
    {[e EXCEPT !.from = rows[d][e.field]] : e \in Delta(q, d)}
DeltaOfStored(q, d) ==                            \* mutant: unchanged rows skipped
    {e \in Delta(q, d) : rows[d][e.field] # e.to}
LoggedDelta(q, d) == Delta(q, d)

(* The set is that of the first document read, in whatever order the       *)
(* database returns them.                                                  *)
Check(q) ==
    /\ pc[q] = "read"
    /\ \E first \in DOMAIN snapshot[q] :
          LET s == SetOf[first] IN
          IF DecisionOf[q] = "approve" /\ ~Independent(q, s)
          THEN GoTo(q, "refused") /\ UNCHANGED <<target, left>>
          ELSE /\ GoTo(q, "edit")
               /\ target' = [target EXCEPT ![q] = s]
               /\ left' = [left EXCEPT ![q] = {d \in DOMAIN snapshot[q] : Delta(q, d) # {}}]
    /\ UNCHANGED <<mode, draftVars, ledger, snapshot, doc, applied>>

(* The rows as read with the request's edits, and the map of the fields    *)
(* edited this time, replace what is stored.  (Documents without a delta   *)
(* are skipped; the others come in the order read.)                        *)
UpdateDocument(q) ==
    /\ pc[q] = "edit"
    /\ \E d \in left[q] :
          /\ rows' = [rows EXCEPT ![d] = [f \in Fields |->
                        IF \E e \in Delta(q, d) : e.field = f
                        THEN (CHOOSE e \in Delta(q, d) : e.field = f).to
                        ELSE snapshot[q][d][f]]]
          /\ tagged' = [tagged EXCEPT ![d] = {e.field : e \in Delta(q, d)}]
          /\ doc' = [doc EXCEPT ![q] = d]
          /\ left' = [left EXCEPT ![q] = @ \ {d}]
    /\ GoTo(q, "chain_edit")
    /\ UNCHANGED <<mode, there, status, ledger, snapshot, target, applied>>

Overrides(delta) == \E e \in delta : e.field \in ComputedFields

EditEvent(q) ==
    [kind |-> "human_edit", doc |-> doc[q],
     delta |-> LoggedDelta(q, doc[q]),
     override |-> Overrides(LoggedDelta(q, doc[q])), edits |-> 0]

ChainEdit(q) ==
    /\ pc[q] = "chain_edit"
    /\ Chain(q, EditEvent(q))
    /\ applied' = [applied EXCEPT ![q] = @ \cup {doc[q]}]
    /\ GoTo(q, "edit")
    /\ UNCHANGED <<mode, draftVars, snapshot, target, left, doc>>

DispositionOf(decision) ==                        \* mutant: the other column
    CASE decision = "approve" -> "ok"
      [] decision = "reject"  -> "abort"
      [] decision = "rerun"   -> "rerun"
StatusOf(decision) ==
    CASE decision = "approve" -> "approved"
      [] decision = "reject"  -> "rejected"
      [] decision = "rerun"   -> "regenerating"

UpdateStatus(q) ==
    /\ pc[q] = "edit"
    /\ left[q] = {}
    /\ status' = [status EXCEPT ![target[q]] = StatusOf(DecisionOf[q])]
    /\ GoTo(q, "chain_decision")
    /\ UNCHANGED <<mode, there, rows, tagged, ledger, snapshot, target, left, doc, applied>>

OverrideOfLast(q) ==                              \* mutant: = for ||=
    applied[q] # {} /\ Overrides(LoggedDelta(q, doc[q]))
AnyOverride(q) == \E d \in applied[q] : Overrides(LoggedDelta(q, d))

DecisionEvent(q) ==
    [kind |-> "disposition", doc |-> None, delta |-> {},
     override |-> AnyOverride(q), edits |-> Cardinality(applied[q])]

ChainDecision(q) ==
    /\ pc[q] = "chain_decision"
    /\ Chain(q, DecisionEvent(q))
    /\ GoTo(q, "done")
    /\ UNCHANGED <<mode, draftVars, snapshot, target, left, doc, applied>>

(* A statement rejects or the process dies; an append may have taken       *)
(* effect all the same.                                                    *)
InFlight == {"read", "edit", "chain_edit", "chain_decision"}

Fail(q) ==
    /\ pc[q] \in InFlight
    /\ GoTo(q, "failed")
    /\ \/ UNCHANGED ledger
       \/ pc[q] = "chain_edit" /\ Chain(q, EditEvent(q))
       \/ pc[q] = "chain_decision" /\ Chain(q, DecisionEvent(q))
    /\ UNCHANGED <<mode, draftVars, snapshot, target, left, doc, applied>>

Next ==
    \/ \E d \in Docs : Persist(d)
    \/ \E q \in Requests :
          \/ Read(q) \/ Check(q) \/ UpdateDocument(q) \/ ChainEdit(q)
          \/ UpdateStatus(q) \/ ChainDecision(q) \/ Fail(q)

Spec == Init /\ [][Next]_vars

-----------------------------------------------------------------------------
(* Every variable keeps its type.                                          *)
Snapshots == UNION {[D -> [Fields -> Values]] : D \in SUBSET Docs}
Edits == [field : Fields, from : Values, to : Values]

TypeOK ==
    /\ mode \in {"production", "debug"}
    /\ there \subseteq Docs
    /\ rows \in [Docs -> [Fields -> Values]]
    /\ tagged \in [Docs -> SUBSET Fields]
    /\ status \in [Sets -> {"pending_review", "approved", "rejected", "regenerating"}]
    /\ pc \in [Requests -> {"new", "refused", "failed", "done"} \cup InFlight]
    /\ snapshot \in [Requests -> Snapshots]
    /\ \A q \in Requests : left[q] \cup applied[q] \subseteq DOMAIN snapshot[q]
    /\ target \in [Requests -> Sets \cup {None}]
    /\ left \in [Requests -> SUBSET Docs] /\ applied \in [Requests -> SUBSET Docs]
    /\ doc \in [Requests -> Docs \cup {None}]
    /\ ledger \in [Requests -> Seq([kind : {"human_edit", "disposition"},
                                    doc : Docs \cup {None}, delta : SUBSET Edits,
                                    override : BOOLEAN, edits : Nat])]

(* A set leaves pending_review by decisions of requests alone, and an      *)
(* approved one (docs/01:70) by the decision of somebody who is provably   *)
(* not its author, in a production agent; whatever other requests on the   *)
(* same drafts do meanwhile, a chained decision was carried out.           *)
Decided(q) == pc[q] \in {"chain_decision", "done", "failed"}

StatusIsExplained ==
    /\ \A s \in Sets : status[s] # "pending_review" =>
          \E q \in Requests :
             /\ Decided(q) /\ target[q] = s
             /\ status[s] = StatusOf(DecisionOf[q])
             /\ status[s] = "approved" =>
                   mode = "production" /\ AuthorOf[s] \notin {NoUser, ReviewerOf[q]}
    /\ \A q \in Requests : \A i \in DOMAIN ledger[q] :
          ledger[q][i].kind = "disposition" => status[target[q]] # "pending_review"

(* A value a person typed is in the custody chain: some human_edit event   *)
(* took that field to it, unless a request that wrote the document is      *)
(* about to chain its edit or ended in failure before it could.            *)
Unchained(d) == \E q \in Requests : doc[q] = d /\ d \notin applied[q]
                                   /\ pc[q] \in {"chain_edit", "failed"}
Edited(d, f) ==
    {e \in UNION {UNION {ledger[q][i].delta : i \in {j \in DOMAIN ledger[q] : ledger[q][j].doc = d}} :
                     q \in Requests} : e.field = f}

EditIsChained ==
    \A d \in Docs : \A f \in Fields :
       rows[d][f] # Original /\ ~Unchained(d) =>
          \E e \in Edited(d, f) : e.to = rows[d][f]

(* "The original is preserved in the custody event's delta": what the      *)
(* pipeline wrote can be read back from the chain after any sequence of    *)
(* edits, lost updates between concurrent reviewers included.              *)
OriginalIsPreserved ==
    \A d \in Docs : \A f \in Fields :
       rows[d][f] # Original /\ ~Unchained(d) =>
          \E e \in Edited(d, f) : e.from = Original

(* The chain tells both values of every edit.                              *)
EditsAreKept == EditIsChained /\ OriginalIsPreserved

(* What a chained decision says of the edits agrees with the edits chained *)
(* before it: their number, and whether one overrode a computed field.     *)
DecisionSummarisesEdits ==
    \A q \in Requests : \A i \in DOMAIN ledger[q] :
       ledger[q][i].kind = "disposition" =>
          /\ i = Len(ledger[q])
          /\ ledger[q][i].edits = i - 1
          /\ ledger[q][i].override = \E j \in 1 .. i - 1 : Overrides(ledger[q][j].delta)
=============================================================================
