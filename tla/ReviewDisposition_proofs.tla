---------------------- MODULE ReviewDisposition_proofs ----------------------
(***************************************************************************)
(* Proofs about ReviewDisposition for any number of requests, draft sets   *)
(* and documents, and any edits.                                           *)
(***************************************************************************)
EXTENDS ReviewDisposition, FiniteSetTheorems, TLAPS

(* Where a request stands: nothing is decided, edited or chained before    *)
(* the check, and a document is updated once, then chained once.           *)
PhaseInv ==
    \A q \in Requests :
       /\ pc[q] \in {"new", "read", "refused"} =>
             /\ target[q] = None /\ doc[q] = None
             /\ left[q] = {} /\ applied[q] = {}
             /\ ledger[q] = <<>>
       /\ pc[q] = "chain_edit" => doc[q] \in DOMAIN snapshot[q] \ (applied[q] \cup left[q])
       /\ pc[q] \notin {"chain_edit", "failed"} => doc[q] \in applied[q] \cup {None}
       /\ left[q] \cap applied[q] = {}

TypedPhases == TypeOK /\ PhaseInv

-----------------------------------------------------------------------------
(* What is submitted is typed.                                             *)
LEMMA SubmittedType ==
    ASSUME NEW q \in Requests, NEW s \in SubmittedOf[q]
    PROVE  s.doc \in Docs /\ s.field \in Fields /\ s.value \in Values
BY ReviewAssumption DEF ReviewAssumption, Values

(* The edits a request computes for a document it read.                    *)
LEMMA DeltaType ==
    ASSUME TypeOK, NEW q \in Requests, NEW d \in DOMAIN snapshot[q]
    PROVE  /\ snapshot[q][d] \in [Fields -> Values]
           /\ Delta(q, d) \subseteq Edits
<1>1. snapshot[q] \in Snapshots
  BY DEF TypeOK
<1>2. PICK D \in SUBSET Docs : snapshot[q] \in [D -> [Fields -> Values]]
  BY <1>1 DEF Snapshots
<1>3. snapshot[q][d] \in [Fields -> Values]
  BY <1>2
<1> QED
  BY <1>3, SubmittedType DEF Delta, Edits

(* The domain of a snapshot is a set of documents.                         *)
LEMMA SnapshotDomain ==
    ASSUME TypeOK, NEW q \in Requests
    PROVE  DOMAIN snapshot[q] \subseteq Docs
BY DEF TypeOK, Snapshots

(* The number of documents a request edited is a number.                   *)
LEMMA AppliedFinite ==
    ASSUME TypeOK, NEW q \in Requests
    PROVE  IsFiniteSet(applied[q]) /\ Cardinality(applied[q]) \in Nat
<1>1. applied[q] \in SUBSET Docs
  BY DEF TypeOK
<1> QED
  BY <1>1, FS_Subset, FS_CardinalityType, ReviewAssumption DEF ReviewAssumption

LedgerEvents == [kind : {"human_edit", "disposition"}, doc : Docs \cup {None},
                 delta : SUBSET Edits, override : BOOLEAN, edits : Nat]

(* The events a request chains are typed.                                  *)
LEMMA EventType ==
    ASSUME TypedPhases, NEW q \in Requests
    PROVE  /\ pc[q] = "chain_edit" => EditEvent(q) \in LedgerEvents
           /\ DecisionEvent(q) \in LedgerEvents
<1>1. ASSUME pc[q] = "chain_edit" PROVE EditEvent(q) \in LedgerEvents
  <2>1. doc[q] \in DOMAIN snapshot[q] /\ doc[q] \in Docs
    BY <1>1, SnapshotDomain DEF TypedPhases, PhaseInv
  <2>2. LoggedDelta(q, doc[q]) \in SUBSET Edits
    BY <2>1, DeltaType DEF TypedPhases, LoggedDelta
  <2>3. Overrides(LoggedDelta(q, doc[q])) \in BOOLEAN
    BY DEF Overrides
  <2> QED
    BY <2>1, <2>2, <2>3 DEF EditEvent, LedgerEvents
<1>2. AnyOverride(q) \in BOOLEAN /\ Cardinality(applied[q]) \in Nat
  BY AppliedFinite DEF AnyOverride, TypedPhases
<1> QED
  BY <1>1, <1>2 DEF DecisionEvent, LedgerEvents

-----------------------------------------------------------------------------
(* The initial state is typed and in phase.                                *)
LEMMA InitTyped == Init => TypedPhases
<1> SUFFICES ASSUME Init PROVE TypedPhases
  OBVIOUS
<1>1. <<>> \in [{} -> [Fields -> Values]]
  OBVIOUS
<1>2. <<>> \in Snapshots
  BY <1>1 DEF Snapshots
<1>3. Original \in Values
  BY DEF Values
<1>4. /\ rows \in [Docs -> [Fields -> Values]] /\ snapshot \in [Requests -> Snapshots]
      /\ ledger \in [Requests -> Seq(LedgerEvents)]
  BY <1>2, <1>3 DEF Init
<1>5. TypeOK
  BY <1>4 DEF Init, TypeOK, LedgerEvents
<1>6. PhaseInv
  BY DEF Init, PhaseInv
<1> QED
  BY <1>5, <1>6 DEF TypedPhases

-----------------------------------------------------------------------------
(* Every step keeps the types and the phases.                              *)
LEMMA PersistTyped ==
    ASSUME TypedPhases, NEW d \in Docs, Persist(d) PROVE TypedPhases'
BY DEF TypedPhases, TypeOK, PhaseInv, Persist, requestVars

LEMMA ReadTyped ==
    ASSUME TypedPhases, NEW q \in Requests, Read(q) PROVE TypedPhases'
<1> USE DEF Read, GoTo, draftVars, InFlight
<1>1. snapshot' \in [Requests -> Snapshots]
  <2>1. CASE UNCHANGED snapshot
    BY <2>1 DEF TypedPhases, TypeOK
  <2>2. CASE snapshot' = [snapshot EXCEPT ![q] = [d \in there |-> rows[d]]]
    <3>1. there \in SUBSET Docs /\ [d \in there |-> rows[d]] \in [there -> [Fields -> Values]]
      BY DEF TypedPhases, TypeOK
    <3>2. [d \in there |-> rows[d]] \in Snapshots
      BY <3>1 DEF Snapshots
    <3> QED
      BY <2>2, <3>2 DEF TypedPhases, TypeOK
  <2> QED
    BY <2>1, <2>2
<1>2. \A p \in Requests : left[p] \cup applied[p] \subseteq DOMAIN snapshot'[p]
  BY DEF TypedPhases, TypeOK, PhaseInv
<1>3. TypeOK'
  <2>1. pc' \in [Requests -> {"new", "refused", "failed", "done"} \cup InFlight]
    <3>1. pc \in [Requests -> {"new", "refused", "failed", "done"} \cup InFlight]
      BY DEF TypedPhases, TypeOK
    <3>2. pc' = [pc EXCEPT ![q] = "refused"] \/ pc' = [pc EXCEPT ![q] = "read"]
      OBVIOUS
    <3> HIDE DEF Read
    <3> QED
      BY <3>1, <3>2
  <2>2. UNCHANGED <<mode, there, rows, tagged, status, ledger, target, left, doc, applied>>
    OBVIOUS
  <2> HIDE DEF Read, GoTo, InFlight
  <2> QED
    BY <2>1, <2>2, <1>1, <1>2 DEF TypedPhases, TypeOK
<1>4. \A p \in Requests : p # q => pc'[p] = pc[p] /\ snapshot'[p] = snapshot[p]
  BY DEF TypedPhases, TypeOK
<1>5. pc[q] = "new" /\ pc'[q] \in {"read", "refused"}
  BY DEF TypedPhases, TypeOK
<1>6. PhaseInv'
  BY <1>4, <1>5 DEF TypedPhases, PhaseInv
<1> QED
  BY <1>3, <1>6 DEF TypedPhases

LEMMA CheckTyped ==
    ASSUME TypedPhases, NEW q \in Requests, Check(q) PROVE TypedPhases'
<1> USE DEF Check, GoTo, draftVars, InFlight
<1> DEFINE edited == {d \in DOMAIN snapshot[q] : Delta(q, d) # {}}
<1>1. PICK first \in DOMAIN snapshot[q] :
        \/ /\ pc' = [pc EXCEPT ![q] = "refused"]
           /\ UNCHANGED <<target, left>>
        \/ /\ pc' = [pc EXCEPT ![q] = "edit"]
           /\ target' = [target EXCEPT ![q] = SetOf[first]]
           /\ left' = [left EXCEPT ![q] = edited]
  OBVIOUS
<1>2. DOMAIN snapshot[q] \subseteq Docs /\ SetOf[first] \in Sets
  BY SnapshotDomain, ReviewAssumption DEF TypedPhases, ReviewAssumption
<1>3. edited \subseteq Docs /\ edited \subseteq DOMAIN snapshot[q]
  BY <1>2
<1>4. pc[q] = "read" /\ UNCHANGED <<mode, there, rows, tagged, status, ledger, snapshot, doc, applied>>
  OBVIOUS
<1> HIDE DEF edited, Check
<1>5. left' \in [Requests -> SUBSET Docs] /\ target' \in [Requests -> Sets \cup {None}]
  BY <1>1, <1>2, <1>3 DEF TypedPhases, TypeOK
<1>6. pc' \in [Requests -> {"new", "refused", "failed", "done"} \cup InFlight]
  BY <1>1 DEF TypedPhases, TypeOK
<1>7. \A p \in Requests : left'[p] \subseteq DOMAIN snapshot[p]
  BY <1>1, <1>3 DEF TypedPhases, TypeOK
<1>8. TypeOK'
  BY <1>4, <1>5, <1>6, <1>7 DEF TypedPhases, TypeOK
<1>9. \A p \in Requests : p # q => /\ pc'[p] = pc[p]
                                   /\ target'[p] = target[p] /\ left'[p] = left[p]
  BY <1>1 DEF TypedPhases, TypeOK
<1>10. /\ pc'[q] \in {"refused", "edit"}
       /\ pc'[q] = "refused" => target'[q] = target[q] /\ left'[q] = left[q]
  BY <1>1 DEF TypedPhases, TypeOK
<1>11. PhaseInv'
  BY <1>4, <1>9, <1>10 DEF TypedPhases, PhaseInv
<1> QED
  BY <1>8, <1>11 DEF TypedPhases

(* The new rows of the document a request updates.                         *)
NewRow(q, d) ==
    [f \in Fields |-> IF \E e \in Delta(q, d) : e.field = f
                      THEN (CHOOSE e \in Delta(q, d) : e.field = f).to
                      ELSE snapshot[q][d][f]]

LEMMA NewRowType ==
    ASSUME TypeOK, NEW q \in Requests, NEW d \in DOMAIN snapshot[q]
    PROVE  NewRow(q, d) \in [Fields -> Values]
<1>1. ASSUME NEW f \in Fields, \E e \in Delta(q, d) : e.field = f
      PROVE  (CHOOSE e \in Delta(q, d) : e.field = f).to \in Values
  BY <1>1, DeltaType DEF Edits
<1>2. ASSUME NEW f \in Fields PROVE snapshot[q][d][f] \in Values
  BY DeltaType
<1> QED
  BY <1>1, <1>2 DEF NewRow

LEMMA UpdateDocumentTyped ==
    ASSUME TypedPhases, NEW q \in Requests, UpdateDocument(q) PROVE TypedPhases'
<1>1. PICK d \in left[q] :
        /\ rows' = [rows EXCEPT ![d] = NewRow(q, d)]
        /\ tagged' = [tagged EXCEPT ![d] = {e.field : e \in Delta(q, d)}]
        /\ doc' = [doc EXCEPT ![q] = d]
        /\ left' = [left EXCEPT ![q] = @ \ {d}]
  BY DEF UpdateDocument, NewRow
<1>2. /\ d \in Docs /\ d \in DOMAIN snapshot[q]
      /\ {e.field : e \in Delta(q, d)} \subseteq Fields
      /\ NewRow(q, d) \in [Fields -> Values]
  <2>1. d \in DOMAIN snapshot[q] /\ d \in Docs
    BY <1>1 DEF TypedPhases, TypeOK
  <2>2. Delta(q, d) \subseteq Edits /\ NewRow(q, d) \in [Fields -> Values]
    BY <2>1, DeltaType, NewRowType DEF TypedPhases
  <2>3. {e.field : e \in Delta(q, d)} \subseteq Fields
    BY <2>2 DEF Edits
  <2> QED
    BY <2>1, <2>2, <2>3
<1>3. /\ pc[q] = "edit" /\ pc' = [pc EXCEPT ![q] = "chain_edit"]
      /\ UNCHANGED <<mode, there, status, ledger, snapshot, target, applied>>
  BY DEF UpdateDocument, GoTo
<1>4. rows' \in [Docs -> [Fields -> Values]] /\ tagged' \in [Docs -> SUBSET Fields]
  BY <1>1, <1>2 DEF TypedPhases, TypeOK
<1>5. TypeOK'
  <2>1. pc' \in [Requests -> {"new", "refused", "failed", "done"} \cup InFlight]
    BY <1>3 DEF TypedPhases, TypeOK, InFlight
  <2>2. doc' \in [Requests -> Docs \cup {None}] /\ left' \in [Requests -> SUBSET Docs]
    BY <1>1, <1>2 DEF TypedPhases, TypeOK
  <2>3. \A p \in Requests : left'[p] \subseteq left[p]
    BY <1>1 DEF TypedPhases, TypeOK
  <2> QED
    BY <1>3, <1>4, <2>1, <2>2, <2>3 DEF TypedPhases, TypeOK
<1>6. PhaseInv'
  BY <1>1, <1>2, <1>3 DEF TypedPhases, TypeOK, PhaseInv
<1> QED
  BY <1>5, <1>6 DEF TypedPhases

(* Chaining an event of the right type keeps the ledger's type.            *)
LEMMA ChainTyped ==
    ASSUME TypeOK, NEW q \in Requests, NEW event \in LedgerEvents, Chain(q, event)
    PROVE  ledger' \in [Requests -> Seq(LedgerEvents)]
<1>1. ledger \in [Requests -> Seq(LedgerEvents)]
  BY DEF TypeOK, LedgerEvents
<1>2. Append(ledger[q], event) \in Seq(LedgerEvents)
  BY <1>1
<1> QED
  BY <1>1, <1>2 DEF Chain

LEMMA ChainEditTyped ==
    ASSUME TypedPhases, NEW q \in Requests, ChainEdit(q) PROVE TypedPhases'
<1> USE DEF ChainEdit, GoTo, draftVars, InFlight
<1>1. ledger' \in [Requests -> Seq(LedgerEvents)]
  BY EventType, ChainTyped DEF TypedPhases
<1>2. doc[q] \in DOMAIN snapshot[q] /\ doc[q] \in Docs
  BY SnapshotDomain DEF TypedPhases, PhaseInv
<1>3. TypeOK'
  BY <1>1, <1>2 DEF TypedPhases, TypeOK, LedgerEvents
<1>4. \A p \in Requests : p # q => pc'[p] = pc[p] /\ ledger'[p] = ledger[p] /\ applied'[p] = applied[p]
  BY DEF TypedPhases, TypeOK, Chain
<1>5. pc'[q] = "edit" /\ applied'[q] = applied[q] \cup {doc[q]}
  BY DEF TypedPhases, TypeOK
<1>6. PhaseInv'
  BY <1>2, <1>4, <1>5 DEF TypedPhases, PhaseInv
<1> QED
  BY <1>3, <1>6 DEF TypedPhases

LEMMA UpdateStatusTyped ==
    ASSUME TypedPhases, NEW q \in Requests, UpdateStatus(q) PROVE TypedPhases'
<1> USE DEF UpdateStatus, GoTo, InFlight
<1>1. StatusOf(DecisionOf[q]) \in {"approved", "rejected", "regenerating"}
  BY ReviewAssumption DEF ReviewAssumption, Decisions, StatusOf
<1>2. TypeOK'
  BY <1>1 DEF TypedPhases, TypeOK
<1>3. PhaseInv'
  BY DEF TypedPhases, TypeOK, PhaseInv
<1> QED
  BY <1>2, <1>3 DEF TypedPhases

LEMMA ChainDecisionTyped ==
    ASSUME TypedPhases, NEW q \in Requests, ChainDecision(q) PROVE TypedPhases'
<1> USE DEF ChainDecision, GoTo, draftVars, InFlight
<1>1. ledger' \in [Requests -> Seq(LedgerEvents)]
  BY EventType, ChainTyped DEF TypedPhases
<1>2. TypeOK'
  BY <1>1 DEF TypedPhases, TypeOK, LedgerEvents
<1>3. PhaseInv'
  BY DEF TypedPhases, TypeOK, PhaseInv, Chain
<1> QED
  BY <1>2, <1>3 DEF TypedPhases

LEMMA FailTyped ==
    ASSUME TypedPhases, NEW q \in Requests, Fail(q) PROVE TypedPhases'
<1> USE DEF Fail, GoTo, draftVars
<1>1. ledger' \in [Requests -> Seq(LedgerEvents)]
  <2>1. CASE UNCHANGED ledger
    BY <2>1 DEF TypedPhases, TypeOK, LedgerEvents
  <2>2. CASE ~UNCHANGED ledger
    BY <2>2, EventType, ChainTyped DEF TypedPhases
  <2> QED
    BY <2>1, <2>2
<1>2. TypeOK'
  BY <1>1 DEF TypedPhases, TypeOK, LedgerEvents
<1>3. \A p \in Requests : p # q => pc'[p] = pc[p] /\ ledger'[p] = ledger[p]
  BY DEF TypedPhases, TypeOK, Chain
<1>4. pc'[q] = "failed"
  BY DEF TypedPhases, TypeOK
<1>5. PhaseInv'
  BY <1>3, <1>4 DEF TypedPhases, PhaseInv
<1> QED
  BY <1>2, <1>5 DEF TypedPhases

LEMMA StepTyped == TypedPhases /\ [Next]_vars => TypedPhases'
<1> SUFFICES ASSUME TypedPhases, [Next]_vars PROVE TypedPhases'
  OBVIOUS
<1>1. CASE UNCHANGED vars
  BY <1>1 DEF vars, draftVars, requestVars, TypedPhases, TypeOK, PhaseInv
<1>2. CASE Next
  BY <1>2, PersistTyped, ReadTyped, CheckTyped, UpdateDocumentTyped, ChainEditTyped,
     UpdateStatusTyped, ChainDecisionTyped, FailTyped DEF Next
<1> QED
  BY <1>1, <1>2

(* Every variable keeps its type: a request only ever holds rows, edits    *)
(* and chained events of documents it read.                                *)
THEOREM DispositionTypes == Spec => []TypeOK
<1>1. TypedPhases => TypeOK
  BY DEF TypedPhases
<1> QED
  BY <1>1, InitTyped, StepTyped, PTL DEF Spec

-----------------------------------------------------------------------------
(* What makes decisions explained.  The check decides about one set, and   *)
(* what it established of it stays true; a status changes once a request   *)
(* is past its check, before it chains the decision, and never back.       *)
DecisionInv ==
    /\ \A q \in Requests : pc[q] = "read" => ~Refused(q)
    /\ \A q \in Requests :
          pc[q] \in {"edit", "chain_edit", "chain_decision", "done"} => target[q] \in Sets
    /\ \A q \in Requests :
          target[q] \in Sets /\ DecisionOf[q] = "approve" =>
             mode = "production" /\ Independent(q, target[q])
    /\ \A q \in Requests : pc[q] = "chain_decision" => status[target[q]] # "pending_review"
    /\ \A q \in Requests : ledger[q] # <<>> => target[q] \in Sets
    /\ StatusIsExplained

LEMMA InitDecision == Init => DecisionInv
BY ReviewAssumption DEF ReviewAssumption, Init, DecisionInv, StatusIsExplained

(* A step of the request q that moves no status, and chains no decision,   *)
(* keeps the invariant if it keeps what the check established.             *)
LEMMA QuietStep ==
    ASSUME TypedPhases, DecisionInv, NEW q \in Requests,
           UNCHANGED <<mode, status>>,
           pc' \in [Requests -> {"new", "refused", "failed", "done"} \cup InFlight],
           \A p \in Requests : p # q => /\ pc'[p] = pc[p] /\ target'[p] = target[p]
                                        /\ ledger'[p] = ledger[p],
           Decided(q) => Decided(q)' /\ target'[q] = target[q],
           pc'[q] = "read" => ~Refused(q),
           pc'[q] \in {"edit", "chain_edit", "chain_decision", "done"} => target'[q] \in Sets,
           target'[q] \in Sets /\ DecisionOf[q] = "approve" =>
               mode = "production" /\ Independent(q, target'[q]),
           pc'[q] = "chain_decision" => status[target'[q]] # "pending_review",
           ledger'[q] # <<>> => target'[q] \in Sets,
           \A i \in DOMAIN ledger'[q] :
               ledger'[q][i].kind = "disposition" => status[target'[q]] # "pending_review"
    PROVE  DecisionInv'
<1>1. \A p \in Requests : Decided(p) => Decided(p)' /\ target'[p] = target[p]
  BY DEF Decided
<1>2. StatusIsExplained'
  <2>1. ASSUME NEW s \in Sets, status'[s] # "pending_review"
        PROVE  \E p \in Requests :
                 /\ Decided(p)' /\ target'[p] = s
                 /\ status'[s] = StatusOf(DecisionOf[p])
                 /\ status'[s] = "approved" =>
                       mode' = "production" /\ AuthorOf[s] \notin {NoUser, ReviewerOf[p]}
    BY <2>1, <1>1 DEF DecisionInv, StatusIsExplained
  <2>2. ASSUME NEW p \in Requests, NEW i \in DOMAIN ledger'[p],
               ledger'[p][i].kind = "disposition"
        PROVE  status'[target'[p]] # "pending_review"
    BY <2>2 DEF DecisionInv, StatusIsExplained
  <2> QED
    BY <2>1, <2>2 DEF StatusIsExplained
<1>3. \A p \in Requests : pc'[p] = "read" => ~Refused(p)'
  BY DEF DecisionInv, Refused
<1> QED
  BY <1>2, <1>3 DEF DecisionInv, Independent

LEMMA PersistDecision ==
    ASSUME TypedPhases, DecisionInv, NEW d \in Docs, Persist(d) PROVE DecisionInv'
BY DEF Persist, requestVars, DecisionInv, StatusIsExplained, Refused, Independent, Decided

LEMMA ReadDecision ==
    ASSUME TypedPhases, DecisionInv, NEW q \in Requests, Read(q) PROVE DecisionInv'
<1>1. pc[q] = "new" /\ target[q] \notin Sets
  BY ReviewAssumption DEF Read, TypedPhases, PhaseInv, ReviewAssumption
<1>2. pc'[q] \in {"read", "refused"} /\ (pc'[q] = "read" => ~Refused(q))
  BY DEF Read, GoTo, TypedPhases, TypeOK
<1>3. /\ \A p \in Requests : p # q => pc'[p] = pc[p]
      /\ UNCHANGED <<mode, status, target, ledger>>
  BY DEF Read, GoTo, draftVars, TypedPhases, TypeOK
<1>4. pc' \in [Requests -> {"new", "refused", "failed", "done"} \cup InFlight]
  BY ReadTyped DEF TypedPhases, TypeOK
<1> QED
  BY <1>1, <1>2, <1>3, <1>4, QuietStep DEF Decided, DecisionInv, StatusIsExplained

LEMMA CheckDecision ==
    ASSUME TypedPhases, DecisionInv, NEW q \in Requests, Check(q) PROVE DecisionInv'
<1>1. /\ pc[q] = "read" /\ target[q] \notin Sets /\ ledger[q] = <<>>
      /\ DecisionOf[q] = "approve" => mode = "production"
  BY ReviewAssumption
     DEF Check, TypedPhases, PhaseInv, DecisionInv, Refused, ReviewAssumption, TypeOK
<1>2. PICK first \in DOMAIN snapshot[q] :
        \/ /\ pc' = [pc EXCEPT ![q] = "refused"]
           /\ UNCHANGED target
        \/ /\ ~(DecisionOf[q] = "approve" /\ ~Independent(q, SetOf[first]))
           /\ pc' = [pc EXCEPT ![q] = "edit"]
           /\ target' = [target EXCEPT ![q] = SetOf[first]]
  BY DEF Check, GoTo
<1>3. SetOf[first] \in Sets
  BY SnapshotDomain, ReviewAssumption DEF TypedPhases, ReviewAssumption
<1>4. UNCHANGED <<mode, status, ledger>>
  BY DEF Check, draftVars
<1>5. pc' \in [Requests -> {"new", "refused", "failed", "done"} \cup InFlight]
  BY CheckTyped DEF TypedPhases, TypeOK
<1>6. \A p \in Requests : p # q => pc'[p] = pc[p] /\ target'[p] = target[p]
  BY <1>2 DEF TypedPhases, TypeOK
<1>7. \/ pc'[q] = "refused" /\ target'[q] = target[q]
      \/ /\ pc'[q] = "edit" /\ target'[q] = SetOf[first]
         /\ DecisionOf[q] = "approve" => Independent(q, SetOf[first])
  BY <1>2 DEF TypedPhases, TypeOK
<1> QED
  BY <1>1, <1>3, <1>4, <1>5, <1>6, <1>7, QuietStep DEF Decided

LEMMA UpdateDocumentDecision ==
    ASSUME TypedPhases, DecisionInv, NEW q \in Requests, UpdateDocument(q) PROVE DecisionInv'
<1>1. pc[q] = "edit" /\ pc'[q] = "chain_edit" /\ UNCHANGED <<mode, status, target, ledger>>
  BY DEF UpdateDocument, GoTo, TypedPhases, TypeOK
<1>2. /\ \A p \in Requests : p # q => pc'[p] = pc[p]
      /\ pc' \in [Requests -> {"new", "refused", "failed", "done"} \cup InFlight]
  BY DEF UpdateDocument, GoTo, TypedPhases, TypeOK, InFlight
<1> QED
  BY <1>1, <1>2, QuietStep DEF Decided, DecisionInv, StatusIsExplained

(* Appending to one ledger leaves the others and the older events alone.   *)
LEMMA ChainEffect ==
    ASSUME TypedPhases, NEW q \in Requests, NEW event \in LedgerEvents, Chain(q, event)
    PROVE  /\ ledger[q] \in Seq(LedgerEvents)
           /\ ledger'[q] = Append(ledger[q], event)
           /\ \A p \in Requests : p # q => ledger'[p] = ledger[p]
           /\ \A i \in DOMAIN ledger'[q] :
                 \/ i \in DOMAIN ledger[q] /\ ledger'[q][i] = ledger[q][i]
                 \/ i = Len(ledger[q]) + 1 /\ ledger'[q][i] = event
<1>1. ledger \in [Requests -> Seq(LedgerEvents)]
  BY DEF TypedPhases, TypeOK, LedgerEvents
<1>2. ledger[q] \in Seq(LedgerEvents)
  BY <1>1
<1>3. /\ ledger'[q] = Append(ledger[q], event)
      /\ \A p \in Requests : p # q => ledger'[p] = ledger[p]
  BY <1>1 DEF Chain
<1> QED
  BY <1>2, <1>3

LEMMA ChainEditDecision ==
    ASSUME TypedPhases, DecisionInv, NEW q \in Requests, ChainEdit(q) PROVE DecisionInv'
<1>1. pc[q] = "chain_edit" /\ pc'[q] = "edit" /\ UNCHANGED <<mode, status, target>>
  BY DEF ChainEdit, GoTo, draftVars, TypedPhases, TypeOK
<1>2. /\ \A p \in Requests : p # q => pc'[p] = pc[p]
      /\ pc' \in [Requests -> {"new", "refused", "failed", "done"} \cup InFlight]
  BY DEF ChainEdit, GoTo, TypedPhases, TypeOK, InFlight
<1>3. EditEvent(q) \in LedgerEvents /\ EditEvent(q).kind = "human_edit"
  BY <1>1, EventType DEF EditEvent
<1>4. /\ \A p \in Requests : p # q => ledger'[p] = ledger[p]
      /\ \A i \in DOMAIN ledger'[q] :
            ledger'[q][i].kind = "disposition" =>
               i \in DOMAIN ledger[q] /\ ledger'[q][i] = ledger[q][i]
  BY <1>3, ChainEffect DEF ChainEdit
<1> QED
  BY <1>1, <1>2, <1>4, QuietStep DEF Decided, DecisionInv, StatusIsExplained

LEMMA UpdateStatusDecision ==
    ASSUME TypedPhases, DecisionInv, NEW q \in Requests, UpdateStatus(q) PROVE DecisionInv'
<1>1. /\ pc[q] = "edit" /\ target[q] \in Sets
      /\ UNCHANGED <<mode, ledger, target>>
  BY DEF UpdateStatus, DecisionInv
<1>2. /\ status'[target[q]] = StatusOf(DecisionOf[q])
      /\ \A s \in Sets : s # target[q] => status'[s] = status[s]
      /\ pc'[q] = "chain_decision"
      /\ \A p \in Requests : p # q => pc'[p] = pc[p]
  BY <1>1 DEF UpdateStatus, GoTo, TypedPhases, TypeOK
<1>3. /\ StatusOf(DecisionOf[q]) # "pending_review"
      /\ StatusOf(DecisionOf[q]) = "approved" => DecisionOf[q] = "approve"
  BY ReviewAssumption DEF ReviewAssumption, Decisions, StatusOf
<1>4. \A s \in Sets : status[s] # "pending_review" => status'[s] # "pending_review"
  BY <1>2, <1>3
<1>5. \A p \in Requests : Decided(p) => Decided(p)'
  BY <1>1, <1>2 DEF Decided
<1>6. \A p \in Requests : \A i \in DOMAIN ledger[p] :
         ledger[p][i].kind = "disposition" => status'[target[p]] # "pending_review"
  BY <1>1, <1>2, <1>3 DEF DecisionInv, StatusIsExplained
<1>7. ASSUME NEW s \in Sets, status'[s] # "pending_review"
      PROVE  \E p \in Requests :
               /\ Decided(p)' /\ target'[p] = s
               /\ status'[s] = StatusOf(DecisionOf[p])
               /\ status'[s] = "approved" =>
                     mode' = "production" /\ AuthorOf[s] \notin {NoUser, ReviewerOf[p]}
  <2>1. CASE s = target[q]
    BY <2>1, <1>1, <1>2, <1>3 DEF DecisionInv, Independent, Decided
  <2>2. CASE s # target[q]
    BY <2>2, <1>1, <1>2, <1>5, <1>7 DEF DecisionInv, StatusIsExplained
  <2> QED
    BY <2>1, <2>2
<1>8. StatusIsExplained'
  BY <1>1, <1>6, <1>7 DEF StatusIsExplained
<1>9. \A p \in Requests : pc'[p] = "chain_decision" => status'[target'[p]] # "pending_review"
  BY <1>1, <1>2, <1>3 DEF DecisionInv
<1> QED
  BY <1>1, <1>2, <1>8, <1>9 DEF DecisionInv, Refused, Independent

LEMMA ChainDecisionDecision ==
    ASSUME TypedPhases, DecisionInv, NEW q \in Requests, ChainDecision(q) PROVE DecisionInv'
<1>1. pc[q] = "chain_decision" /\ pc'[q] = "done" /\ UNCHANGED <<mode, status, target>>
  BY DEF ChainDecision, GoTo, draftVars, TypedPhases, TypeOK
<1>2. /\ \A p \in Requests : p # q => pc'[p] = pc[p]
      /\ pc' \in [Requests -> {"new", "refused", "failed", "done"} \cup InFlight]
  BY DEF ChainDecision, GoTo, TypedPhases, TypeOK, InFlight
<1>3. DecisionEvent(q) \in LedgerEvents
  BY EventType
<1>4. \A p \in Requests : p # q => ledger'[p] = ledger[p]
  BY <1>3, ChainEffect DEF ChainDecision
<1>5. status[target[q]] # "pending_review" /\ target[q] \in Sets
  BY <1>1 DEF DecisionInv
<1> QED
  BY <1>1, <1>2, <1>4, <1>5, QuietStep DEF Decided, DecisionInv

LEMMA FailDecision ==
    ASSUME TypedPhases, DecisionInv, NEW q \in Requests, Fail(q) PROVE DecisionInv'
<1>1. pc[q] \in InFlight /\ pc'[q] = "failed" /\ UNCHANGED <<mode, status, target>>
  BY DEF Fail, GoTo, draftVars, TypedPhases, TypeOK
<1>2. /\ \A p \in Requests : p # q => pc'[p] = pc[p]
      /\ pc' \in [Requests -> {"new", "refused", "failed", "done"} \cup InFlight]
  BY DEF Fail, GoTo, TypedPhases, TypeOK
<1>3. /\ \A p \in Requests : p # q => ledger'[p] = ledger[p]
      /\ \A i \in DOMAIN ledger'[q] :
            ledger'[q][i].kind = "disposition" => status[target[q]] # "pending_review"
      /\ ledger'[q] # <<>> => target[q] \in Sets
  <2>1. CASE UNCHANGED ledger
    BY <2>1 DEF DecisionInv, StatusIsExplained
  <2>2. CASE pc[q] = "chain_edit" /\ Chain(q, EditEvent(q))
    <3>1. EditEvent(q) \in LedgerEvents /\ EditEvent(q).kind = "human_edit"
      BY <2>2, EventType DEF EditEvent
    <3> QED
      BY <2>2, <3>1, ChainEffect DEF DecisionInv, StatusIsExplained
  <2>3. CASE pc[q] = "chain_decision" /\ Chain(q, DecisionEvent(q))
    <3>1. DecisionEvent(q) \in LedgerEvents
      BY EventType
    <3> QED
      BY <2>3, <3>1, ChainEffect DEF DecisionInv
  <2> QED
    BY <2>1, <2>2, <2>3 DEF Fail
<1>4. /\ Decided(q) => Decided(q)' /\ target'[q] = target[q]
      /\ target'[q] \in Sets /\ DecisionOf[q] = "approve" =>
            mode = "production" /\ Independent(q, target'[q])
  BY <1>1 DEF Decided, DecisionInv
<1>5. \A p \in Requests : p # q => target'[p] = target[p]
  BY <1>1
<1> QED
  BY <1>1, <1>2, <1>3, <1>4, <1>5, QuietStep

LEMMA StepDecision == TypedPhases /\ DecisionInv /\ [Next]_vars => DecisionInv'
<1> SUFFICES ASSUME TypedPhases, DecisionInv, [Next]_vars PROVE DecisionInv'
  OBVIOUS
<1>1. CASE UNCHANGED vars
  BY <1>1 DEF vars, draftVars, requestVars, DecisionInv, StatusIsExplained, Refused,
              Independent, Decided
<1>2. CASE Next
  BY <1>2, PersistDecision, ReadDecision, CheckDecision, UpdateDocumentDecision,
     ChainEditDecision, UpdateStatusDecision, ChainDecisionDecision, FailDecision DEF Next
<1> QED
  BY <1>1, <1>2

(* A status is what some request past its check decided of that very set;  *)
(* an approved set was approved in production by somebody provably not its *)
(* author; and a chained decision was carried out.                         *)
THEOREM DecisionsExplainedAlways == Spec => []StatusIsExplained
<1>1. DecisionInv => StatusIsExplained
  BY DEF DecisionInv
<1> QED
  BY <1>1, InitTyped, StepTyped, InitDecision, StepDecision, PTL DEF Spec

-----------------------------------------------------------------------------
(* Where edited values come from.  A request wrote a document once it has  *)
(* updated it, chained or not; every value that is not the original, stored *)
(* or read by a request, is the target of a delta of a request that wrote  *)
(* the document, and some such request's delta starts from the original.   *)
Wrote(q, d) == d \in applied[q] \/ (doc[q] = d /\ pc[q] \in {"chain_edit", "failed"})

Source(d, f, v) == \E q \in Requests :
    Wrote(q, d) /\ \E e \in Delta(q, d) : e.field = f /\ e.to = v
Origin(d, f) == \E q \in Requests :
    Wrote(q, d) /\ \E e \in Delta(q, d) : e.field = f /\ e.from = Original

SourcedRow(d, row) ==
    \A f \in Fields : row[f] # Original => Source(d, f, row[f]) /\ Origin(d, f)

ProvenanceInv ==
    /\ \A d \in Docs : SourcedRow(d, rows[d])
    /\ \A q \in Requests : \A d \in DOMAIN snapshot[q] : SourcedRow(d, snapshot[q][d])
    /\ \A q \in Requests : \A d \in applied[q] : \E i \in DOMAIN ledger[q] :
          ledger[q][i].doc = d /\ ledger[q][i].delta = LoggedDelta(q, d)

(* Initially no value is a person's.                                       *)
LEMMA InitProvenance == Init => ProvenanceInv
BY DEF Init, ProvenanceInv, SourcedRow

(* What a request wrote, and its deltas, are never taken back.             *)
LEMMA Lasting ==
    ASSUME TypedPhases, [Next]_vars
    PROVE  \A q \in Requests : \A d \in Docs :
              Wrote(q, d) => Wrote(q, d)' /\ snapshot'[q] = snapshot[q]
<1>1. CASE UNCHANGED vars
  BY <1>1 DEF vars, requestVars, Wrote
<1>2. CASE \E d \in Docs : Persist(d)
  BY <1>2 DEF Persist, requestVars, Wrote
<1>3. ASSUME NEW q \in Requests, Read(q)
      PROVE  \A p \in Requests : \A d \in Docs :
                Wrote(p, d) => Wrote(p, d)' /\ snapshot'[p] = snapshot[p]
  BY <1>3 DEF Read, GoTo, TypedPhases, TypeOK, PhaseInv, Wrote
<1>4. ASSUME NEW q \in Requests, Check(q)
      PROVE  \A p \in Requests : \A d \in Docs :
                Wrote(p, d) => Wrote(p, d)' /\ snapshot'[p] = snapshot[p]
  <2>1. /\ \A p \in Requests : p # q => pc'[p] = pc[p]
        /\ pc[q] = "read" /\ UNCHANGED <<snapshot, doc, applied>>
    BY <1>4 DEF Check, GoTo, TypedPhases, TypeOK
  <2> QED
    BY <2>1 DEF Wrote
<1>5. ASSUME NEW q \in Requests, UpdateDocument(q)
      PROVE  \A p \in Requests : \A d \in Docs :
                Wrote(p, d) => Wrote(p, d)' /\ snapshot'[p] = snapshot[p]
  <2>1. /\ \A p \in Requests : p # q => pc'[p] = pc[p] /\ doc'[p] = doc[p]
        /\ pc[q] = "edit" /\ UNCHANGED <<snapshot, applied>>
    BY <1>5 DEF UpdateDocument, GoTo, TypedPhases, TypeOK
  <2> QED
    BY <2>1 DEF Wrote
<1>6. ASSUME NEW q \in Requests, ChainEdit(q)
      PROVE  \A p \in Requests : \A d \in Docs :
                Wrote(p, d) => Wrote(p, d)' /\ snapshot'[p] = snapshot[p]
  BY <1>6 DEF ChainEdit, GoTo, TypedPhases, TypeOK, Wrote
<1>7. ASSUME NEW q \in Requests, UpdateStatus(q) \/ ChainDecision(q)
      PROVE  \A p \in Requests : \A d \in Docs :
                Wrote(p, d) => Wrote(p, d)' /\ snapshot'[p] = snapshot[p]
  <2>1. pc[q] \in {"edit", "chain_decision"} /\ UNCHANGED <<snapshot, doc, applied>>
    BY <1>7 DEF UpdateStatus, ChainDecision
  <2>2. \A p \in Requests : p # q => pc'[p] = pc[p]
    BY <1>7 DEF UpdateStatus, ChainDecision, GoTo, TypedPhases, TypeOK
  <2> QED
    BY <2>1, <2>2 DEF Wrote
<1>8. ASSUME NEW q \in Requests, Fail(q)
      PROVE  \A p \in Requests : \A d \in Docs :
                Wrote(p, d) => Wrote(p, d)' /\ snapshot'[p] = snapshot[p]
  BY <1>8 DEF Fail, GoTo, TypedPhases, TypeOK, Wrote
<1> QED
  BY <1>1, <1>2, <1>3, <1>4, <1>5, <1>6, <1>7, <1>8 DEF Next

(* So a value keeps its source and its origin.                             *)
LEMMA SourcesLast ==
    ASSUME TypedPhases, [Next]_vars, NEW d \in Docs, NEW row, SourcedRow(d, row)
    PROVE  SourcedRow(d, row)'
<1>1. \A q \in Requests : Wrote(q, d) => Wrote(q, d)' /\ Delta(q, d)' = Delta(q, d)
  BY Lasting DEF Delta
<1> QED
  BY <1>1 DEF SourcedRow, Source, Origin

(* The row a request writes: its own edits are sources, and what it starts *)
(* from is the original or was edited before.                              *)
LEMMA NewRowSourced ==
    ASSUME TypedPhases, ProvenanceInv, NEW q \in Requests, NEW d \in left[q],
           UpdateDocument(q), doc' = [doc EXCEPT ![q] = d]
    PROVE  SourcedRow(d, NewRow(q, d))'
<1>1. d \in DOMAIN snapshot[q] /\ d \in Docs
  BY SnapshotDomain DEF TypedPhases, TypeOK
<1>2. Wrote(q, d)'
  BY DEF UpdateDocument, GoTo, TypedPhases, TypeOK, Wrote
<1>3. Delta(q, d)' = Delta(q, d) /\ NewRow(q, d)' = NewRow(q, d)
  BY DEF UpdateDocument, Delta, NewRow
<1>4. SourcedRow(d, snapshot[q][d])'
  <2>1. SourcedRow(d, snapshot[q][d])
    BY <1>1 DEF ProvenanceInv
  <2>2. \A row : SourcedRow(d, row) => \A f \in Fields : row[f] # Original =>
                     Source(d, f, row[f])' /\ Origin(d, f)'
    BY <1>1, SourcesLast DEF SourcedRow, Next
  <2>3. snapshot' = snapshot
    BY DEF UpdateDocument
  <2> QED
    BY <2>1, <2>2, <2>3 DEF SourcedRow
<1>5. ASSUME NEW f \in Fields, NewRow(q, d)[f] # Original
      PROVE  Source(d, f, NewRow(q, d)[f])' /\ Origin(d, f)'
  <2>1. CASE \E e \in Delta(q, d) : e.field = f
    <3>1. PICK e \in Delta(q, d) : e.field = f /\ e.to = NewRow(q, d)[f]
      BY <2>1 DEF NewRow
    <3>2. Source(d, f, NewRow(q, d)[f])'
      BY <3>1, <1>2, <1>3 DEF Source
    <3>3. e.from = snapshot[q][d][f]
      BY <3>1 DEF Delta
    <3>4. CASE e.from = Original
      BY <3>1, <3>4, <3>2, <1>2, <1>3 DEF Origin
    <3>5. CASE e.from # Original
      <4>1. Origin(d, f)'
        BY <3>3, <3>5, <1>4 DEF SourcedRow, UpdateDocument
      <4> QED
        BY <3>2, <4>1
    <3> QED
      BY <3>4, <3>5
  <2>2. CASE ~\E e \in Delta(q, d) : e.field = f
    <3>1. NewRow(q, d)[f] = snapshot[q][d][f]
      BY <2>2 DEF NewRow
    <3>2. NewRow(q, d)'[f] = snapshot'[q][d][f] /\ snapshot'[q][d][f] # Original
      BY <3>1, <1>3, <1>5 DEF UpdateDocument
    <3> QED
      BY <3>2, <1>4 DEF SourcedRow
  <2> QED
    BY <2>1, <2>2
<1> QED
  BY <1>3, <1>5 DEF SourcedRow

(* The rows that are stored stay sourced.                                  *)
LEMMA RowsSourced ==
    ASSUME TypedPhases, ProvenanceInv, [Next]_vars
    PROVE  \A d \in Docs : SourcedRow(d, rows[d])' 
<1>1. ASSUME NEW d \in Docs, rows'[d] = rows[d] PROVE SourcedRow(d, rows[d])'
  BY <1>1, SourcesLast DEF ProvenanceInv, SourcedRow
<1>2. CASE UNCHANGED rows
  BY <1>1, <1>2
<1>3. CASE \E q \in Requests : UpdateDocument(q)
  <2>1. PICK q \in Requests : UpdateDocument(q)
    BY <1>3
  <2>2. PICK d \in left[q] : rows' = [rows EXCEPT ![d] = NewRow(q, d)]
                             /\ doc' = [doc EXCEPT ![q] = d]
    BY <2>1 DEF UpdateDocument, NewRow
  <2>3. d \in Docs /\ rows'[d] = NewRow(q, d)
    BY <2>2 DEF TypedPhases, TypeOK
  <2>4. NewRow(q, d)' = NewRow(q, d)
    BY <2>1 DEF UpdateDocument, NewRow, Delta
  <2>5. SourcedRow(d, rows[d])'
    BY <2>1, <2>2, <2>3, <2>4, NewRowSourced DEF SourcedRow
  <2>6. \A x \in Docs : x # d => rows'[x] = rows[x]
    BY <2>2 DEF TypedPhases, TypeOK
  <2> QED
    BY <2>5, <2>6, <1>1
<1>4. UNCHANGED rows \/ \E q \in Requests : UpdateDocument(q)
  BY DEF Next, vars, draftVars, Persist, Read, Check, ChainEdit, UpdateStatus, ChainDecision, Fail
<1> QED
  BY <1>2, <1>3, <1>4

(* So do the rows a request read.                                          *)
LEMMA SnapshotsSourced ==
    ASSUME TypedPhases, ProvenanceInv, [Next]_vars
    PROVE  \A q \in Requests : \A d \in DOMAIN snapshot'[q] : SourcedRow(d, snapshot[q][d])'
<1>1. ASSUME NEW q \in Requests, snapshot'[q] = snapshot[q], NEW d \in DOMAIN snapshot'[q]
      PROVE  SourcedRow(d, snapshot[q][d])'
  <2>1. d \in Docs /\ SourcedRow(d, snapshot[q][d])
    BY <1>1, SnapshotDomain DEF ProvenanceInv, TypedPhases
  <2>2. \A row : SourcedRow(d, row) => \A f \in Fields : row[f] # Original =>
                     Source(d, f, row[f])' /\ Origin(d, f)'
    BY <2>1, SourcesLast DEF SourcedRow
  <2> QED
    BY <1>1, <2>1, <2>2 DEF SourcedRow
<1>2. CASE UNCHANGED snapshot
  BY <1>1, <1>2
<1>3. CASE \E q \in Requests : Read(q)
  <2>1. PICK q \in Requests : Read(q)
    BY <1>3
  <2>2. CASE UNCHANGED snapshot
    BY <2>2, <1>1
  <2>3. CASE snapshot' = [snapshot EXCEPT ![q] = [d \in there |-> rows[d]]]
    <3>1. snapshot'[q] = [d \in there |-> rows[d]] /\ there \subseteq Docs
      BY <2>3 DEF TypedPhases, TypeOK
    <3>2. \A p \in Requests : p # q => snapshot'[p] = snapshot[p]
      BY <2>3 DEF TypedPhases, TypeOK
    <3>3. rows' = rows
      BY <2>1 DEF Read, draftVars
    <3>4. ASSUME NEW d \in DOMAIN snapshot'[q] PROVE SourcedRow(d, snapshot[q][d])'
      <4>1. d \in Docs /\ snapshot'[q][d] = rows'[d]
        BY <3>1, <3>3
      <4> QED
        BY <4>1, RowsSourced DEF SourcedRow
    <3> QED
      BY <3>2, <3>4, <1>1
  <2> QED
    BY <2>1, <2>2, <2>3 DEF Read
<1>4. UNCHANGED snapshot \/ \E q \in Requests : Read(q)
  BY DEF Next, vars, requestVars, Persist, Check, UpdateDocument, ChainEdit, UpdateStatus,
         ChainDecision, Fail
<1> QED
  BY <1>2, <1>3, <1>4

(* A chained edit stays in the ledger, as the delta of its request.        *)
EditInLedger(q, d) ==
    \E i \in DOMAIN ledger[q] :
       ledger[q][i].doc = d /\ ledger[q][i].delta = LoggedDelta(q, d)

LEMMA EditsStay ==
    ASSUME TypedPhases, [Next]_vars, NEW q \in Requests, NEW d \in applied[q],
           EditInLedger(q, d)
    PROVE  EditInLedger(q, d)'
<1>1. d \in Docs /\ Wrote(q, d)
  BY DEF TypedPhases, TypeOK, Wrote
<1>2. LoggedDelta(q, d)' = LoggedDelta(q, d)
  BY <1>1, Lasting DEF LoggedDelta, Delta
<1>3. \A i \in DOMAIN ledger[q] : i \in DOMAIN ledger'[q] /\ ledger'[q][i] = ledger[q][i]
  <2>1. ledger[q] \in Seq(LedgerEvents)
    BY DEF TypedPhases, TypeOK, LedgerEvents
  <2>2. CASE UNCHANGED ledger
    BY <2>2
  <2>3. ASSUME NEW p \in Requests, NEW event \in LedgerEvents, Chain(p, event)
        PROVE  \A i \in DOMAIN ledger[q] :
                  i \in DOMAIN ledger'[q] /\ ledger'[q][i] = ledger[q][i]
    BY <2>1, <2>3, ChainEffect
  <2>4. \/ UNCHANGED ledger
        \/ \E p \in Requests :
              \/ pc[p] = "chain_edit" /\ Chain(p, EditEvent(p))
              \/ Chain(p, DecisionEvent(p))
    BY DEF Next, vars, Persist, Read, Check, UpdateDocument, ChainEdit, UpdateStatus,
           ChainDecision, Fail
  <2> QED
    BY <2>2, <2>3, <2>4, EventType
<1> QED
  BY <1>2, <1>3 DEF EditInLedger

LEMMA AppliedInLedger ==
    ASSUME TypedPhases, ProvenanceInv, [Next]_vars
    PROVE  \A q \in Requests : \A d \in applied'[q] : EditInLedger(q, d)'
<1>1. ASSUME NEW q \in Requests, NEW d \in applied[q] PROVE EditInLedger(q, d)'
  BY EditsStay DEF ProvenanceInv, EditInLedger
<1>2. CASE UNCHANGED applied
  BY <1>1, <1>2
<1>3. ASSUME NEW q \in Requests, ChainEdit(q)
      PROVE  \A p \in Requests : \A d \in applied'[p] : EditInLedger(p, d)'
  <2>1. /\ applied'[q] = applied[q] \cup {doc[q]}
        /\ \A p \in Requests : p # q => applied'[p] = applied[p]
    BY <1>3 DEF ChainEdit, TypedPhases, TypeOK
  <2>2. EditEvent(q) \in LedgerEvents
    BY <1>3, EventType DEF ChainEdit
  <2>3. /\ ledger[q] \in Seq(LedgerEvents)
        /\ ledger'[q] = Append(ledger[q], EditEvent(q))
    BY <1>3, <2>2, ChainEffect DEF ChainEdit
  <2>4. /\ EditEvent(q).doc = doc[q]
        /\ EditEvent(q).delta = LoggedDelta(q, doc[q])
    BY DEF EditEvent
  <2>5. \A d : LoggedDelta(q, d)' = LoggedDelta(q, d)
    BY <1>3 DEF ChainEdit, LoggedDelta, Delta
  <2>6. Len(ledger[q]) + 1 \in DOMAIN ledger'[q]
        /\ ledger'[q][Len(ledger[q]) + 1] = EditEvent(q)
    BY <2>2, <2>3
  <2>7. EditInLedger(q, doc[q])'
    BY <2>4, <2>5, <2>6, <1>3 DEF EditInLedger, ChainEdit
  <2> QED
    BY <1>1, <1>3, <2>1, <2>7 DEF ChainEdit
<1>4. UNCHANGED applied \/ \E q \in Requests : ChainEdit(q)
  BY DEF Next, vars, requestVars, Persist, Read, Check, UpdateDocument, UpdateStatus,
         ChainDecision, Fail
<1> QED
  BY <1>2, <1>3, <1>4

LEMMA StepProvenance == TypedPhases /\ ProvenanceInv /\ [Next]_vars => ProvenanceInv'
BY RowsSourced, SnapshotsSourced, AppliedInLedger DEF ProvenanceInv, EditInLedger

(* A value a person typed into a document whose edits are all chained is   *)
(* in the chain, and so is the pipeline's value it replaced.               *)
LEMMA ProvenanceSuffices ==
    ASSUME TypedPhases, ProvenanceInv
    PROVE  EditIsChained /\ OriginalIsPreserved
<1>1. ASSUME NEW d \in Docs, NEW f \in Fields, NEW q \in Requests, Wrote(q, d),
             NEW e \in Delta(q, d), e.field = f, ~Unchained(d)
      PROVE  e \in Edited(d, f)
  <2>1. d \in applied[q]
    BY <1>1 DEF Wrote, Unchained
  <2>2. PICK i \in DOMAIN ledger[q] :
           ledger[q][i].doc = d /\ ledger[q][i].delta = LoggedDelta(q, d)
    BY <2>1 DEF ProvenanceInv
  <2>3. e \in ledger[q][i].delta
    BY <1>1, <2>2 DEF LoggedDelta
  <2>4. i \in {j \in DOMAIN ledger[q] : ledger[q][j].doc = d}
    BY <2>2
  <2> QED
    BY <1>1, <2>3, <2>4 DEF Edited
<1>2. EditIsChained
  BY <1>1 DEF EditIsChained, ProvenanceInv, SourcedRow, Source
<1>3. OriginalIsPreserved
  BY <1>1 DEF OriginalIsPreserved, ProvenanceInv, SourcedRow, Origin
<1> QED
  BY <1>2, <1>3

(* Whatever reviewers overwrite of each other's edits from stale reads, a  *)
(* value a person typed is explained by a chained human_edit event, unless *)
(* its request has yet to chain it or failed before it could.              *)
THEOREM EditsChainedAlways == Spec => []EditIsChained
<1>1. TypedPhases /\ ProvenanceInv => EditIsChained
  BY ProvenanceSuffices
<1> QED
  BY <1>1, InitTyped, StepTyped, InitProvenance, StepProvenance, PTL DEF Spec

(* And the value the pipeline persisted can be read back from the chain.   *)
THEOREM OriginalsPreservedAlways == Spec => []OriginalIsPreserved
<1>1. TypedPhases /\ ProvenanceInv => OriginalIsPreserved
  BY ProvenanceSuffices
<1> QED
  BY <1>1, InitTyped, StepTyped, InitProvenance, StepProvenance, PTL DEF Spec

(* Both: what people typed is told from what the pipeline wrote, for good. *)
THEOREM EditsAreKeptAlways == Spec => []EditsAreKept
<1>1. EditIsChained /\ OriginalIsPreserved => EditsAreKept
  BY DEF EditsAreKept
<1> QED
  BY <1>1, EditsChainedAlways, OriginalsPreservedAlways, PTL

-----------------------------------------------------------------------------
(* Until it chains its decision or fails, a request has chained one edit   *)
(* event for each document it applied, and nothing else.                   *)
OnlyEdits(q) ==
    /\ Len(ledger[q]) = Cardinality(applied[q])
    /\ \A i \in DOMAIN ledger[q] :
          /\ ledger[q][i].kind = "human_edit"
          /\ ledger[q][i].doc \in applied[q]
          /\ ledger[q][i].delta = LoggedDelta(q, ledger[q][i].doc)

Summarised(q) ==
    \A i \in DOMAIN ledger[q] : ledger[q][i].kind = "disposition" =>
       /\ i = Len(ledger[q])
       /\ ledger[q][i].edits = i - 1
       /\ ledger[q][i].override = \E j \in 1 .. i - 1 : Overrides(ledger[q][j].delta)

SummaryInv == \A q \in Requests : Summarised(q) /\ (pc[q] \notin {"done", "failed"} => OnlyEdits(q))

LEMMA InitSummary == Init => SummaryInv
<1> SUFFICES ASSUME Init PROVE SummaryInv
  OBVIOUS
<1>1. Cardinality({}) = 0
  BY FS_EmptySet
<1> QED
  BY <1>1 DEF Init, SummaryInv, Summarised, OnlyEdits

(* The decision's payload agrees with the edits before it.                 *)
LEMMA DecisionSummarised ==
    ASSUME TypedPhases, ProvenanceInv, NEW q \in Requests, OnlyEdits(q),
           Chain(q, DecisionEvent(q))
    PROVE  Summarised(q)'
<1> DEFINE n == Len(ledger[q])
<1>1. DecisionEvent(q) \in LedgerEvents
  BY EventType
<1>2. /\ ledger[q] \in Seq(LedgerEvents)
      /\ ledger'[q] = Append(ledger[q], DecisionEvent(q))
  BY <1>1, ChainEffect
<1>3. /\ n \in Nat /\ DOMAIN ledger[q] = 1 .. n
      /\ Len(ledger'[q]) = n + 1 /\ DOMAIN ledger'[q] = 1 .. n + 1
      /\ ledger'[q][n + 1] = DecisionEvent(q)
      /\ \A i \in 1 .. n : ledger'[q][i] = ledger[q][i]
  BY <1>1, <1>2
<1>4. \A i \in 1 .. n : ledger'[q][i].kind = "human_edit"
  BY <1>3 DEF OnlyEdits
<1>5. AnyOverride(q) = \E j \in 1 .. n : Overrides(ledger'[q][j].delta)
  <2>1. ASSUME AnyOverride(q) PROVE \E j \in 1 .. n : Overrides(ledger'[q][j].delta)
    BY <1>3, <2>1 DEF AnyOverride, ProvenanceInv
  <2>2. ASSUME NEW j \in 1 .. n, Overrides(ledger'[q][j].delta) PROVE AnyOverride(q)
    BY <1>3, <2>2 DEF AnyOverride, OnlyEdits
  <2> QED
    BY <2>1, <2>2 DEF AnyOverride
<1>6. DecisionEvent(q).edits = n /\ DecisionEvent(q).override = AnyOverride(q)
  BY DEF DecisionEvent, OnlyEdits
<1>7. ASSUME NEW i \in DOMAIN ledger'[q], ledger'[q][i].kind = "disposition"
      PROVE  i = n + 1
  BY <1>3, <1>4, <1>7
<1>8. \A delta : Overrides(delta)' = Overrides(delta)
  BY DEF Overrides
<1> HIDE DEF n
<1>9. (n + 1) - 1 = n
  BY <1>3
<1>10. ledger'[q][n + 1].override = \E j \in 1 .. n : Overrides(ledger'[q][j].delta)
  BY <1>3, <1>5, <1>6
<1>11. ledger'[q][n + 1].edits = n
  BY <1>3, <1>6
<1>12. ASSUME NEW i \in DOMAIN ledger'[q], ledger'[q][i].kind = "disposition"
       PROVE  /\ i = Len(ledger'[q]) /\ ledger'[q][i].edits = i - 1
              /\ ledger'[q][i].override = \E j \in 1 .. i - 1 : Overrides(ledger'[q][j].delta)
  <2>1. i = n + 1 /\ i - 1 = n
    BY <1>7, <1>9, <1>12
  <2> QED
    BY <2>1, <1>3, <1>10, <1>11, Zenon
<1> QED
  BY <1>12, <1>8, Zenon DEF Summarised

(* Chaining an edit keeps one event per applied document.                  *)
LEMMA EditChained ==
    ASSUME TypedPhases, NEW q \in Requests, pc[q] = "chain_edit", OnlyEdits(q),
           Chain(q, EditEvent(q)), snapshot' = snapshot
    PROVE  /\ Summarised(q)'
           /\ applied'[q] = applied[q] \cup {doc[q]} => OnlyEdits(q)'
<1>1. EditEvent(q) \in LedgerEvents
  BY EventType
<1>2. /\ ledger[q] \in Seq(LedgerEvents)
      /\ ledger'[q] = Append(ledger[q], EditEvent(q))
  BY <1>1, ChainEffect
<1>3. \A i \in DOMAIN ledger'[q] :
         \/ i \in DOMAIN ledger[q] /\ ledger'[q][i] = ledger[q][i]
         \/ i = Len(ledger[q]) + 1 /\ ledger'[q][i] = EditEvent(q)
  BY <1>1, ChainEffect
<1>4. \A i \in DOMAIN ledger'[q] :
         /\ ledger'[q][i].kind = "human_edit"
         /\ ledger'[q][i].doc \in applied[q] \cup {doc[q]}
         /\ ledger'[q][i].delta = LoggedDelta(q, ledger'[q][i].doc)
  BY <1>3 DEF OnlyEdits, EditEvent
<1>5. doc[q] \notin applied[q] /\ IsFiniteSet(applied[q])
  BY AppliedFinite DEF TypedPhases, PhaseInv
<1>6. Len(ledger'[q]) = Cardinality(applied[q] \cup {doc[q]})
  <2>1. Cardinality(applied[q] \cup {doc[q]}) = Cardinality(applied[q]) + 1
    BY <1>5, FS_AddElement
  <2>2. Len(ledger'[q]) = Len(ledger[q]) + 1
    BY <1>1, <1>2
  <2> QED
    BY <2>1, <2>2 DEF OnlyEdits
<1>7. \A d : LoggedDelta(q, d)' = LoggedDelta(q, d)
  BY DEF LoggedDelta, Delta
<1> QED
  BY <1>4, <1>6, <1>7 DEF Summarised, OnlyEdits

LEMMA StepSummary ==
    TypedPhases /\ ProvenanceInv /\ SummaryInv /\ [Next]_vars => SummaryInv'
<1> SUFFICES ASSUME TypedPhases, ProvenanceInv, SummaryInv, [Next]_vars PROVE SummaryInv'
  OBVIOUS
<1> DEFINE Good(q) == Summarised(q) /\ (pc[q] \notin {"done", "failed"} => OnlyEdits(q))
<1>1. ASSUME NEW q \in Requests, ledger'[q] = ledger[q], applied'[q] = applied[q],
             applied[q] # {} => snapshot'[q] = snapshot[q],
             pc[q] \in {"done", "failed"} => pc'[q] \in {"done", "failed"}
      PROVE  Good(q)'
  <2>1. Summarised(q)'
    <3>1. Summarised(q)
      BY DEF SummaryInv
    <3> QED
      BY <3>1, <1>1 DEF Summarised, Overrides
  <2>2. ASSUME OnlyEdits(q) PROVE OnlyEdits(q)'
    <3>1. ASSUME NEW i \in DOMAIN ledger[q]
          PROVE  ledger[q][i].delta = LoggedDelta(q, ledger[q][i].doc)'
      <4>1. ledger[q][i].delta = LoggedDelta(q, ledger[q][i].doc)
        BY <2>2 DEF OnlyEdits
      <4>2. snapshot'[q] = snapshot[q]
        BY <2>2, <1>1 DEF OnlyEdits
      <4> QED
        BY <4>1, <4>2, <1>1 DEF LoggedDelta, Delta
    <3> QED
      BY <3>1, <2>2, <1>1 DEF OnlyEdits
  <2> QED
    BY <2>1, <2>2, <1>1 DEF SummaryInv
<1>2. \A q \in Requests : \A d \in Docs : d \in applied[q] => snapshot'[q] = snapshot[q]
  BY Lasting DEF Wrote
<1>3. \A q \in Requests : applied[q] # {} => snapshot'[q] = snapshot[q]
  BY <1>2 DEF TypedPhases, TypeOK
<1>4. ASSUME UNCHANGED <<ledger, applied>>,
             \A q \in Requests : pc[q] \in {"done", "failed"} => pc'[q] \in {"done", "failed"}
      PROVE  SummaryInv'
  BY <1>1, <1>3, <1>4 DEF SummaryInv
<1>5. CASE UNCHANGED vars
  BY <1>4, <1>5 DEF vars, requestVars
<1>6. CASE \E d \in Docs : Persist(d)
  BY <1>4, <1>6 DEF Persist, requestVars
<1>7. ASSUME NEW q \in Requests, Read(q) \/ Check(q) \/ UpdateDocument(q) \/ UpdateStatus(q)
      PROVE  SummaryInv'
  <2>1. /\ pc[q] \in {"new", "read", "edit"} /\ UNCHANGED <<ledger, applied>>
        /\ \A p \in Requests : p # q => pc'[p] = pc[p]
    BY <1>7 DEF Read, Check, UpdateDocument, UpdateStatus, GoTo, TypedPhases, TypeOK
  <2> QED
    BY <2>1, <1>4
<1>8. ASSUME NEW q \in Requests, ChainEdit(q) PROVE SummaryInv'
  <2>1. /\ pc[q] = "chain_edit" /\ Chain(q, EditEvent(q)) /\ snapshot' = snapshot
        /\ applied'[q] = applied[q] \cup {doc[q]}
        /\ \A p \in Requests : p # q => pc'[p] = pc[p] /\ applied'[p] = applied[p]
    BY <1>8 DEF ChainEdit, GoTo, TypedPhases, TypeOK
  <2>2. Good(q)'
    BY <2>1, EditChained DEF SummaryInv
  <2>3. \A p \in Requests : p # q => ledger'[p] = ledger[p]
    BY <2>1, EventType, ChainEffect
  <2>4. \A p \in Requests : p # q => Good(p)'
    BY <2>1, <2>3, <1>1, <1>3
  <2> QED
    BY <2>2, <2>4 DEF SummaryInv
<1>9. ASSUME NEW q \in Requests, ChainDecision(q) \/ Fail(q) PROVE SummaryInv'
  <2>1. /\ pc[q] \in InFlight /\ pc'[q] \in {"done", "failed"} /\ UNCHANGED <<snapshot, applied>>
        /\ \A p \in Requests : p # q => pc'[p] = pc[p]
        /\ \/ UNCHANGED ledger
           \/ pc[q] = "chain_edit" /\ Chain(q, EditEvent(q))
           \/ pc[q] = "chain_decision" /\ Chain(q, DecisionEvent(q))
    BY <1>9 DEF ChainDecision, Fail, GoTo, TypedPhases, TypeOK, InFlight
  <2>2. OnlyEdits(q) /\ Summarised(q)
    BY <2>1 DEF SummaryInv, InFlight
  <2>3. CASE UNCHANGED ledger
    <3>1. \A p \in Requests : Good(p)'
      BY <2>1, <2>3, <1>1
    <3> QED
      BY <3>1 DEF SummaryInv
  <2>4. CASE ~UNCHANGED ledger
    <3>1. Good(q)'
      BY <2>1, <2>2, <2>4, EditChained, DecisionSummarised
    <3>2. \A p \in Requests : p # q => ledger'[p] = ledger[p]
      BY <2>1, <2>4, EventType, ChainEffect
    <3>3. \A p \in Requests : p # q => Good(p)'
      BY <2>1, <3>2, <1>1
    <3> QED
      BY <3>1, <3>3 DEF SummaryInv
  <2> QED
    BY <2>3, <2>4
<1> QED
  BY <1>5, <1>6, <1>7, <1>8, <1>9 DEF Next

(* What a chained decision says of the edits before it is true: how many   *)
(* documents were edited, and whether a computed field was overridden.     *)
THEOREM DecisionsSummariseEditsAlways == Spec => []DecisionSummarisesEdits
<1>1. SummaryInv => DecisionSummarisesEdits
  BY DEF SummaryInv, Summarised, DecisionSummarisesEdits
<1> QED
  BY <1>1, InitTyped, StepTyped, InitProvenance, StepProvenance, InitSummary, StepSummary,
     PTL DEF Spec
=============================================================================
