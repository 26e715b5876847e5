-------------------------- MODULE DraftRun_proofs ---------------------------
(***************************************************************************)
(* For any valid recipe, any number of concurrent runs, releases, failures *)
(* and restarts: the chain of a run tells its steps and its draft          *)
(* (EventsTellTheRun), an approval was earned (VerdictEarned), what is     *)
(* used is stored and a refusal forces a review (GatesHold, where every    *)
(* generation is behind a gate), and what custody says was sent was        *)
(* delivered (SendsAreDelivered).  And of any rubric, judge and trace: an  *)
(* approval rests on passing verdicts (ApprovedIsJudged), a forbidden text *)
(* is not approved (ForbiddenIsNeverApproved), and having consulted more   *)
(* never makes a source missing (ConsultingMoreIsNoLess).                  *)
(***************************************************************************)
EXTENDS DraftRun, RubricStatistics, TrajectoryRules,
        SequenceTheorems, FiniteSetTheorems, WellFoundedInduction, TLAPS

(* Where a run can be in a step of its kind.                               *)
Past == {"record", "append"}       \* its handler is through
Stopped == {"halted", "not_ready", "completed"}

Placed ==
    \A r \in Runs :
        /\ pc[r] \in {"new", "started"} => step[r] = 1 /\ events[r] = <<>>
        /\ pc[r] \in {"set", "documents"} => Current(r).kind = "require_human"
        /\ pc[r] \in {"delivering", "delivered"} => Current(r).kind = "act" /\ ~Gated(r)
        /\ pc[r] = "halted" => Current(r).kind = "require_human"

(* The draft of a run is one, and after its documents it is whole.         *)
Drafted ==
    /\ \A d, e \in drafts : d.run = e.run => d = e
    /\ \A d \in drafts :
         /\ Current(d.run).kind = "require_human"
         /\ pc[d.run] \in {"documents", "halted", "failed", "dead"} \cup Past
         /\ d.corr = CorrelationOf[d.run] /\ d.author = AuthorOf[d.run]
         /\ d.verdict = verdict[d.run]
         /\ pc[d.run] \in Past => d.docs = SectionIds(d.run)
         /\ d.docs \subseteq SectionIds(d.run)
    /\ \A r \in Runs :
         Current(r).kind = "require_human" /\ pc[r] \in {"documents", "halted"} \cup Past =>
            \E d \in drafts : d.run = r

(* A decision in the chain is the run's last step.                         *)
Decided ==
    \A r \in Runs : \A i \in DOMAIN events[r] :
       events[r][i].kind = "human_decision" => pc[r] \in {"halted", "failed", "dead"}

(* A row that counts as consulted is of a step that did not fail.          *)
HitsAreOk == \A t \in trace : t.hit => t.status = "ok"

(* The event of a row's step is chained, due, or what its run ended at.    *)
RowsAreChained == \A t \in trace : InChain(t) \/ DueInChain(t)

(* What forces a review has forced it at once.                             *)
ReviewForced ==
    \A r \in Runs :
        /\ verdict[r] = "refused" => review[r]
        /\ \A s \in sections[r] : s.content = "defects" => review[r]
        /\ pc[r] = "not_ready" => review[r]
        /\ Current(r).kind = "act" /\ pc[r] \in Past /\ Gated(r) => review[r]
        /\ Gated(r) /\ (\E i \in DOMAIN events[r] : events[r][i].kind = "action_taken") => review[r]

(* What is gathered is stored, all of it when the step's event is due, and *)
(* behind the gate every required input has a usable value.                *)
Stored ==
    /\ \A r \in Runs :
         /\ \A g \in gathered[r] : Artifact(r, g.input) \in artifacts
         /\ Current(r).kind = "gather" /\ pc[r] \in Past => AllStored(r)
         /\ Current(r).kind = "export" /\ pc[r] \in Past => Artifact(r, Current(r).id) \in artifacts
    /\ \A r \in Runs : \A i \in DOMAIN events[r] : events[r][i].refs \subseteq artifacts

PastGate ==
    \A r \in Runs : \A j \in 1 .. step[r] - 1 : Recipe[j].kind = "check_readiness" =>
        \A n \in RequiredInputs : [input |-> n, value |-> "ok"] \in gathered[r]

(* A delivery is of a step the run has come to, and of an earlier one      *)
(* unless the transport has been called for the current one.               *)
SentFor(key) == \E n \in DOMAIN outbox : outbox[n].key = key
Delivered ==
    /\ outbox \in Seq([key : Correlations \X StepIds, run : Runs])
    /\ \A key \in seen : SentFor(key)
    /\ \A r \in Runs :
         pc[r] = "delivered" \/ (Current(r).kind = "act" /\ pc[r] \in Past /\ ~Gated(r)) =>
            SentFor(Key(r))
    /\ \A n \in DOMAIN outbox : \E j \in 1 .. step[outbox[n].run] :
         /\ outbox[n].key = <<CorrelationOf[outbox[n].run], Recipe[j].id>>
         /\ j = step[outbox[n].run] => pc[outbox[n].run] \notin {"new", "started", "handle", "delivering"}

IInv == /\ TypeOK /\ Placed /\ OneEventPerStep /\ Drafted
        /\ Decided /\ DecisionNamesDraft
        /\ HitsAreOk /\ RowsAreChained /\ VerdictEarned /\ ReviewForced /\ Stored /\ PastGate
        /\ Delivered /\ SendsAreDelivered
-----------------------------------------------------------------------------
(* The recipe, and the step a run is at.                                   *)
LEMMA RecipeType ==
    /\ Steps = 1 .. Len(Recipe) /\ Len(Recipe) \in Nat /\ Len(Recipe) > 0
    /\ \A i \in Steps :
         /\ Recipe[i].id \in StepIds /\ Recipe[i].kind \in Kinds /\ Recipe[i].section \in STRING
         /\ Recipe[i].requests \subseteq Inputs
    /\ \A i, j \in Steps : Recipe[i].id = Recipe[j].id => i = j
    /\ DOMAIN Releases = 1 .. Len(Releases) /\ Len(Releases) \in Nat /\ Len(Releases) > 0
<1> DEFINE S == [id : StepIds, kind : Kinds, section : STRING,
                 requests : SUBSET STRING, inputs : SUBSET StepIds]
<1>1. Recipe \in Seq(S) /\ Recipe # <<>> /\ Releases \in Seq(STRING) /\ Len(Releases) > 0
  BY RunAssumption
<1>2. \A i \in Steps : Recipe[i] \in S
  <2> HIDE DEF S
  <2>1. DOMAIN Recipe = 1 .. Len(Recipe)
    BY <1>1
  <2> QED
    BY <1>1, <2>1, ElementOfSeq DEF Steps
<1>3. \A i, j \in Steps : Recipe[i].id = Recipe[j].id => i = j
  BY RunAssumption DEF ValidRecipe
<1>4. Steps = 1 .. Len(Recipe) /\ Len(Recipe) \in Nat /\ Len(Recipe) > 0
  BY <1>1 DEF Steps
<1>5. \A i \in Steps : Recipe[i].requests \subseteq Inputs
  BY DEF Inputs
<1>6. DOMAIN Releases = 1 .. Len(Releases) /\ Len(Releases) \in Nat
  BY <1>1
<1> QED
  BY <1>1, <1>2, <1>3, <1>4, <1>5, <1>6

LEMMA CurrentType ==
    ASSUME TypeOK, NEW r \in Runs
    PROVE  /\ step[r] \in Nat /\ step[r] \in 1 .. Len(Recipe) /\ Len(Recipe) \in Nat
           /\ Current(r).id \in StepIds /\ Current(r).kind \in Kinds
           /\ Current(r).section \in STRING /\ Current(r).requests \subseteq Inputs
BY RecipeType DEF TypeOK, Current

(* Where a step goes when it moves on.                                     *)
At(r, phase) == pc' = [pc EXCEPT ![r] = phase] /\ step' = step
StepOver(r) ==
    \E phase \in Stopped \cup {"handle"} :
        /\ pc' = [pc EXCEPT ![r] = phase]
        /\ step' = [step EXCEPT ![r] = IF phase = "handle" THEN step[r] + 1 ELSE step[r]]
        /\ phase = "handle" =>
             /\ step[r] + 1 \in Steps /\ Current(r).kind # "require_human"
             /\ Current(r).kind = "check_readiness" => Ready(r)
        /\ phase = "halted" <=> Current(r).kind = "require_human"
        /\ phase = Outcome(r)

LEMMA OverIsOver ==
    ASSUME TypeOK, NEW r \in Runs, MoveOn(r), After(Current(r).kind, pc[r]) = "done"
    PROVE  StepOver(r)
<1>1. Outcome(r) \in Stopped \cup {"handle"}
  BY DEF Outcome, Stopped
<1>2. /\ pc' = [pc EXCEPT ![r] = Outcome(r)]
      /\ step' = [step EXCEPT ![r] = IF Outcome(r) = "handle" THEN step[r] + 1 ELSE step[r]]
  BY DEF MoveOn, GoTo, TypeOK
<1>3. Outcome(r) = "halted" <=> Current(r).kind = "require_human"
  BY DEF Outcome
<1>4. Outcome(r) = "handle" => /\ step[r] # Len(Recipe) /\ Current(r).kind # "require_human"
                               /\ Current(r).kind = "check_readiness" => Ready(r)
  BY DEF Outcome
<1>5. Outcome(r) = "handle" => step[r] + 1 \in Steps
  BY <1>4, CurrentType, RecipeType
<1> QED
  BY <1>1, <1>2, <1>3, <1>4, <1>5 DEF StepOver

LEMMA MovesOn ==
    ASSUME TypeOK, NEW r \in Runs, MoveOn(r)
    PROVE  /\ pc[r] \in {"handle", "delivered"} => At(r, AfterHandler(Current(r).kind))
           /\ pc[r] = "documents" => At(r, "record")
           /\ pc[r] = "record" => IF Current(r).kind = "gather" THEN StepOver(r) ELSE At(r, "append")
           /\ pc[r] = "append" => IF Current(r).kind = "gather" THEN At(r, "record") ELSE StepOver(r)
<1>1. After(Current(r).kind, pc[r]) # "done" => At(r, After(Current(r).kind, pc[r]))
  BY DEF MoveOn, GoTo, At
<1>2. After(Current(r).kind, pc[r]) = "done" => StepOver(r)
  BY OverIsOver
<1>3. pc[r] \in {"handle", "delivered"} =>
        After(Current(r).kind, pc[r]) = AfterHandler(Current(r).kind)
  BY DEF After
<1>4. AfterHandler(Current(r).kind) # "done"
  BY DEF AfterHandler
<1>5. pc[r] = "documents" => After(Current(r).kind, pc[r]) = "record"
  BY DEF After
<1>6. pc[r] = "record" =>
        After(Current(r).kind, pc[r]) = IF Current(r).kind = "gather" THEN "done" ELSE "append"
  BY DEF After, AfterRecord
<1>7. pc[r] = "append" =>
        After(Current(r).kind, pc[r]) = IF Current(r).kind = "gather" THEN "record" ELSE "done"
  BY DEF After
<1> QED
  BY <1>1, <1>2, <1>3, <1>4, <1>5, <1>6, <1>7
(* A step of a run is a step of its own phase, which nothing else touches: *)
(* what it can change of another run is nothing, and what is stored,       *)
(* traced and delivered stays.                                             *)
RunMoves(r) == Request(r) \/ RunStep(r)

(* The release update and a restart leave the runs what they have; one     *)
(* that is at work dies in the restart.                                    *)
NoRunMoves ==
    /\ approver' = approver /\ step' = step /\ review' = review /\ events' = events
    /\ found' = found /\ sections' = sections /\ gathered' = gathered /\ verdict' = verdict
    /\ trace' = trace /\ artifacts' = artifacts /\ drafts' = drafts /\ outbox' = outbox
    /\ seen' \subseteq seen /\ (seen' = seen \/ \E r \in Runs : pc'[r] = "dead")
    /\ pc' \in [Runs -> {"new"} \cup Live \cup Ended]
    /\ \A r \in Runs : pc'[r] = pc[r] \/ (pc'[r] = "dead" /\ pc[r] \in Live)

LEMMA OneRunMoves ==
    ASSUME TypeOK, [Next]_vars
    PROVE  (\E r \in Runs : RunMoves(r)) \/ NoRunMoves
<1>1. CASE \E r \in Runs : Request(r) \/ RunStep(r)
  BY <1>1 DEF RunMoves
<1>2. CASE UpdateRubrics \/ \E v \in unrecorded : RecordUpdate(v)
  <2>1. NoRunMoves
    BY <1>2 DEF UpdateRubrics, RecordUpdate, TypeOK, bagVars, outsideVars, NoRunMoves
  <2> QED
    BY <2>1
<1>3. CASE Crash
  <2>1. NoRunMoves
    BY <1>3 DEF Crash, TypeOK, Live, Ended, bagVars, NoRunMoves
  <2> QED
    BY <2>1
<1>4. CASE UNCHANGED vars
  <2>1. NoRunMoves
    BY <1>4 DEF vars, TypeOK, bagVars, outsideVars, custodyVars, NoRunMoves
  <2> QED
    BY <2>1
<1> QED
  BY <1>1, <1>2, <1>3, <1>4 DEF Next

(* What a step of run r leaves of everything else.                         *)
Frame(r) ==
    /\ \A s \in Runs \ {r} :
         /\ pc'[s] = pc[s] /\ step'[s] = step[s] /\ events'[s] = events[s]
         /\ review'[s] = review[s] /\ sections'[s] = sections[s] /\ found'[s] = found[s]
         /\ gathered'[s] = gathered[s] /\ verdict'[s] = verdict[s] /\ approver'[s] = approver[s]
    /\ pc[r] # "new" => approver' = approver
    /\ artifacts \subseteq artifacts' /\ trace \subseteq trace' /\ seen \subseteq seen'
    /\ pc[r] # "handle" => verdict' = verdict /\ sections' = sections

LEMMA Framed ==
    ASSUME TypeOK, NEW r \in Runs, RunMoves(r)
    PROVE  Frame(r)
<1> USE DEF Frame, TypeOK, custodyVars, bagVars, outsideVars
<1>1. CASE Request(r)
  BY <1>1 DEF Request, GoTo
<1>2. CASE RunStarted(r)
  BY <1>2 DEF RunStarted, Event, GoTo
<1>3. CASE Retrieve(r)
  BY <1>3 DEF Retrieve, MoveOn, GoTo
<1>4. CASE Generate(r)
  BY <1>4 DEF Generate, PutSection, Escalate, AtHandler, MoveOn, GoTo
<1>5. CASE Validate(r)
  BY <1>5 DEF Validate, PutSection, Escalate, AtHandler, MoveOn, GoTo
<1>6. CASE Judge(r)
  BY <1>6 DEF Judge, Escalate, AtHandler, MoveOn, GoTo
<1>7. CASE GatherJoin(r)
  BY <1>7 DEF GatherJoin, AtHandler, MoveOn, GoTo
<1>8. CASE CheckReadiness(r)
  BY <1>8 DEF CheckReadiness, AtHandler, MoveOn, GoTo
<1>9. CASE Export(r)
  BY <1>9 DEF Export, AtHandler, MoveOn, GoTo
<1>10. CASE ActAnswered(r)
  BY <1>10 DEF ActAnswered, Escalate, AtHandler, MoveOn, GoTo
<1>11. CASE ActSend(r)
  BY <1>11 DEF ActSend, KeptAtSend, GoTo, AtHandler
<1>12. CASE Deliver(r)
  BY <1>12 DEF Deliver, GoTo
<1>13. CASE KeepKey(r)
  BY <1>13 DEF KeepKey, MoveOn, GoTo
<1>14. CASE RequireHuman(r)
  BY <1>14 DEF RequireHuman, AtHandler, MoveOn, GoTo
<1>15. CASE PersistSet(r)
  BY <1>15 DEF PersistSet, GoTo
<1>16. CASE PersistDocument(r)
  BY <1>16 DEF PersistDocument
<1>17. CASE Persisted(r)
  BY <1>17 DEF Persisted, MoveOn, GoTo
<1>18. CASE \E i \in Inputs : StoreArtifact(r, i)
  BY <1>18 DEF StoreArtifact
<1>19. CASE Record(r)
  BY <1>19 DEF Record, WriteRow, MoveOn, GoTo
<1>20. CASE AppendStep(r)
  BY <1>20 DEF AppendStep, StepEvent, Event, Escalate, MoveOn, GoTo
<1>21. CASE AppendFails(r)
  BY <1>21 DEF AppendFails, StepEvent, Event, GoTo
<1>22. CASE Throw(r)
  BY <1>22 DEF Throw, WriteRow, GoTo
<1> HIDE DEF Frame, TypeOK, custodyVars, bagVars, outsideVars
<1> QED
  BY <1>1, <1>2, <1>3, <1>4, <1>5, <1>6, <1>7, <1>8, <1>9, <1>10, <1>11, <1>12, <1>13, <1>14, <1>15, <1>16, <1>17, <1>18, <1>19, <1>20, <1>21, <1>22 DEF RunMoves, RunStep, Handler
(* The phases of a step, in order, and its event between them.             *)
GoesQuietly(r) ==
    /\ events' = events
    /\ \/ pc[r] = "new" /\ At(r, "started")
       \/ pc[r] \in {"handle", "delivered"} /\ At(r, AfterHandler(Current(r).kind))
       \/ /\ pc[r] = "handle" /\ Current(r).kind = "act" /\ ~Gated(r)
          /\ At(r, "delivering")
       \/ pc[r] = "delivering" /\ (At(r, "delivered") \/ At(r, "failed"))
       \/ pc[r] = "set" /\ At(r, "documents")
       \/ pc[r] = "documents" /\ At(r, "record")
       \/ pc[r] \in {"documents", "handle", "failed"} /\ pc' = pc /\ step' = step
       \/ pc[r] = "record" /\ IF Current(r).kind = "gather" THEN StepOver(r) ELSE At(r, "append")
       \/ pc[r] \in Live /\ At(r, "failed")
Begins(r) ==
    pc[r] = "started" /\ Event(r, "run_started", {}, {}) /\ (At(r, "handle") \/ At(r, "failed"))
Chains(r) ==
    /\ pc[r] = "append" /\ StepEvent(r)
    /\ \/ IF Current(r).kind = "gather" THEN At(r, "record") ELSE StepOver(r)
       \/ At(r, "failed")
Goes(r) == GoesQuietly(r) \/ Begins(r) \/ Chains(r)

LEMMA RunGoes ==
    ASSUME TypeOK, NEW r \in Runs, RunMoves(r)
    PROVE  Goes(r)
<1> USE MovesOn DEF Goes, GoesQuietly, Begins, Chains, custodyVars
<1>1. CASE Request(r)
  BY <1>1 DEF Request, GoTo, At
<1>2. CASE RunStarted(r)
  BY <1>2 DEF RunStarted, GoTo, At
<1>3. CASE Retrieve(r)
  BY <1>3 DEF Retrieve
<1>4. CASE Generate(r)
  BY <1>4 DEF Generate, PutSection, Escalate, AtHandler
<1>5. CASE Validate(r)
  BY <1>5 DEF Validate, PutSection, Escalate, AtHandler
<1>6. CASE Judge(r)
  BY <1>6 DEF Judge, Escalate, AtHandler
<1>7. CASE GatherJoin(r)
  BY <1>7 DEF GatherJoin, AtHandler
<1>8. CASE CheckReadiness(r)
  BY <1>8 DEF CheckReadiness, AtHandler
<1>9. CASE Export(r)
  BY <1>9 DEF Export, AtHandler
<1>10. CASE ActAnswered(r)
  BY <1>10 DEF ActAnswered, Escalate, AtHandler
<1>11. CASE ActSend(r)
  BY <1>11 DEF ActSend, KeptAtSend, GoTo, AtHandler, At
<1>12. CASE Deliver(r)
  BY <1>12 DEF Deliver, GoTo, At
<1>13. CASE KeepKey(r)
  BY <1>13 DEF KeepKey
<1>14. CASE RequireHuman(r)
  BY <1>14 DEF RequireHuman, AtHandler
<1>15. CASE PersistSet(r)
  BY <1>15 DEF PersistSet, GoTo, At
<1>16. CASE PersistDocument(r)
  BY <1>16 DEF PersistDocument, Live
<1>17. CASE Persisted(r)
  BY <1>17 DEF Persisted
<1>18. CASE \E i \in Inputs : StoreArtifact(r, i)
  BY <1>18 DEF StoreArtifact
<1>19. CASE Record(r)
  BY <1>19 DEF Record, WriteRow
<1>20. CASE AppendStep(r)
  BY <1>20 DEF AppendStep, Escalate
<1>21. CASE AppendFails(r)
  BY <1>21 DEF AppendFails, GoTo, At, Live
<1>22. CASE Throw(r)
  BY <1>22 DEF Throw, WriteRow, GoTo, At, Live
<1> HIDE MovesOn DEF Goes, GoesQuietly, Begins, Chains, custodyVars
<1> QED
  BY <1>1, <1>2, <1>3, <1>4, <1>5, <1>6, <1>7, <1>8, <1>9, <1>10, <1>11, <1>12, <1>13, <1>14, <1>15, <1>16, <1>17, <1>18, <1>19, <1>20, <1>21, <1>22 DEF RunMoves, RunStep, Handler
-----------------------------------------------------------------------------
(* Types.                                                                  *)
Phases == {"new"} \cup Live \cup Ended
ChainEvents == [kind : EventTypes, refs : SUBSET Artifacts, docs : SUBSET StepIds]

LEMMA PhaseTypes ==
    ASSUME TypeOK, NEW r \in Runs, Goes(r)
    PROVE  pc' \in [Runs -> Phases] /\ step' \in [Runs -> Steps]
<1> USE DEF Phases
<1>1. pc \in [Runs -> Phases] /\ step \in [Runs -> Steps]
  BY DEF TypeOK
<1>2. ASSUME NEW p \in Phases, At(r, p)
      PROVE  pc' \in [Runs -> Phases] /\ step' \in [Runs -> Steps]
  BY <1>1, <1>2 DEF At
<1>3. CASE StepOver(r)
  <2>1. PICK p \in Stopped \cup {"handle"} :
          /\ pc' = [pc EXCEPT ![r] = p]
          /\ step' = [step EXCEPT ![r] = IF p = "handle" THEN step[r] + 1 ELSE step[r]]
          /\ p = "handle" => step[r] + 1 \in Steps
    BY <1>3 DEF StepOver
  <2>2. pc' \in [Runs -> Phases]
    BY <1>1, <2>1 DEF Stopped, Live, Ended
  <2>3. step' \in [Runs -> Steps]
    BY <1>1, <2>1
  <2> QED
    BY <2>2, <2>3
<1>4. AfterHandler(Current(r).kind) \in Phases
  BY DEF AfterHandler, Live
<1>5. {"started", "delivering", "delivered", "handle", "record", "append", "documents", "failed"}
         \subseteq Phases
  BY DEF Live, Ended
<1> HIDE DEF Phases
<1> QED
  BY <1>1, <1>2, <1>3, <1>4, <1>5 DEF Goes, GoesQuietly, Begins, Chains

(* A set of step numbers has a first.                                      *)
LEMMA FirstOf ==
    ASSUME NEW S \in SUBSET Nat, S # {}
    PROVE  \E i \in S : \A j \in S : i <= j
<1> DEFINE R == OpToRel(<, Nat)
<1>1. IsWellFoundedOn(R, Nat)
  BY NatLessThanWellFounded
<1>2. \A i, j \in Nat : i < j => <<i, j>> \in R
  BY DEF OpToRel
<1> HIDE DEF R
<1>3. PICK i \in S : \A j \in S : ~(<<j, i>> \in R)
  BY <1>1, WFMin
<1>4. \A j \in S : ~(j < i)
  <2> SUFFICES ASSUME NEW j \in S, j < i PROVE FALSE
    OBVIOUS
  <2>1. i \in Nat /\ j \in Nat
    OBVIOUS
  <2>2. <<j, i>> \in R
    BY <1>2, <2>1
  <2> QED
    BY <1>3, <2>2
<1>5. \A m, n \in Nat : ~(n < m) => m <= n
  OBVIOUS
<1> QED
  BY <1>4, <1>5

LEMMA AffirmedType ==
    ASSUME TypeOK, NEW r \in Runs
    PROVE  Affirmed(r) \in {"clean", "defects", "empty"}
<1> DEFINE prior == {i \in 1 .. step[r] - 1 :
                       \E s \in sections[r] : /\ s.id = Recipe[i].id
                                              /\ s.section = Current(r).section}
           first == CHOOSE i \in prior : \A j \in prior : i <= j
<1>1. CASE prior = {}
  BY <1>1 DEF Affirmed
<1>2. CASE prior # {}
  <2>1. prior \subseteq Nat
    BY CurrentType
  <2>2. \E i \in prior : \A j \in prior : i <= j
    <3> HIDE DEF prior
    <3> QED
      BY <1>2, <2>1, FirstOf
  <2>3. first \in prior
    <3> HIDE DEF prior
    <3> QED
      BY <2>2
  <2>4. PICK s \in sections[r] : s.id = Recipe[first].id
    <3> HIDE DEF first
    <3> QED
      BY <2>3
  <2>5. (CHOOSE t \in sections[r] : t.id = Recipe[first].id) \in sections[r]
    <3> HIDE DEF first
    <3> QED
      BY <2>4
  <2>6. Affirmed(r) = (CHOOSE t \in sections[r] : t.id = Recipe[first].id).content
    <3>1. Affirmed(r) = IF prior = {} THEN "empty"
             ELSE (CHOOSE t \in sections[r] : t.id = Recipe[first].id).content
      BY DEF Affirmed
    <3> HIDE DEF prior, first
    <3> QED
      BY <1>2, <3>1
  <2> HIDE DEF prior, first
  <2>7. sections[r] \subseteq Sections
    BY DEF TypeOK
  <2> QED
    BY <2>5, <2>6, <2>7 DEF Sections
<1> QED
  BY <1>1, <1>2
LEMMA DocsType ==
    ASSUME TypeOK, NEW r \in Runs
    PROVE  DocsOf(r) \subseteq StepIds
<1>1. CASE \E d \in drafts : d.run = r
  <2>1. DraftOf(r) \in drafts
    BY <1>1 DEF DraftOf
  <2> QED
    BY <1>1, <2>1 DEF DocsOf, TypeOK, DraftSets
<1> QED
  BY <1>1 DEF DocsOf

LEMMA RefsType ==
    ASSUME TypeOK, NEW r \in Runs
    PROVE  Refs(r) \subseteq Artifacts
<1>1. /\ Current(r).requests \subseteq Inputs /\ Current(r).id \in StepIds
      /\ gathered[r] \subseteq [input : Inputs, value : {"ok", "null", "out_of_range"}]
  BY CurrentType DEF TypeOK
<1>3. \A g \in gathered[r] : g.input \in Inputs
  BY <1>1
<1>2. \A what \in Inputs \cup StepIds : Artifact(r, what) \in Artifacts
  BY DEF Artifact, Artifacts
<1> QED
  BY <1>1, <1>2, <1>3 DEF Refs, Consumed

LEMMA EventsType ==
    ASSUME TypeOK, NEW r \in Runs, events' = events \/ Event(r, "run_started", {}, {}) \/ StepEvent(r)
    PROVE  events' \in [Runs -> Seq(ChainEvents)]
<1>1. events \in [Runs -> Seq(ChainEvents)]
  BY DEF TypeOK, ChainEvents
<1>2. ASSUME NEW e \in ChainEvents, events' = [events EXCEPT ![r] = Append(@, e)]
      PROVE  events' \in [Runs -> Seq(ChainEvents)]
  <2> HIDE DEF ChainEvents
  <2>1. Append(events[r], e) \in Seq(ChainEvents)
    BY <1>1
  <2> QED
    BY <1>1, <1>2, <2>1
<1>3. CASE Event(r, "run_started", {}, {})
  <2>1. [kind |-> "run_started", refs |-> {}, docs |-> {}] \in ChainEvents
    BY DEF ChainEvents, EventTypes
  <2> QED
    BY <1>2, <1>3, <2>1 DEF Event
<1>4. CASE StepEvent(r)
  <2> DEFINE docs == IF Current(r).kind = "require_human" THEN DocsOf(r) ELSE {}
             kind == EventType(Current(r).kind)
  <2>1. docs \subseteq StepIds
    BY DocsType
  <2>2. kind \in EventTypes
    BY CurrentType DEF EventTypes
  <2> HIDE DEF docs, kind
  <2>3. [kind |-> kind, refs |-> Refs(r), docs |-> docs] \in ChainEvents
    BY RefsType, <2>1, <2>2 DEF ChainEvents
  <2> QED
    BY <1>2, <1>4, <2>3 DEF StepEvent, Event, docs, kind
<1> QED
  BY <1>1, <1>3, <1>4

(* The types of what the handlers leave in the bag and outside.            *)
BagType == /\ found \in [Runs -> BOOLEAN] /\ review \in [Runs -> BOOLEAN]
           /\ sections \in [Runs -> SUBSET Sections]
           /\ gathered \in [Runs -> SUBSET [input : Inputs,
                                             value : {"ok", "null", "out_of_range"}]]
           /\ verdict \in [Runs -> {"none", "approved", "refused"}]
OutsideType == /\ artifacts \subseteq Artifacts
               /\ trace \subseteq RunSteps /\ drafts \subseteq DraftSets

LEMMA BagTypeStep ==
    ASSUME TypeOK, NEW r \in Runs, RunMoves(r)
    PROVE  BagType'
<1>1. BagType
  BY DEF TypeOK, BagType
<1>2. Affirmed(r) \in {"clean", "defects", "empty"} /\ Current(r).id \in StepIds
      /\ Current(r).section \in STRING
  BY AffirmedType, CurrentType
<1>3. ASSUME NEW content \in {"clean", "defects", "empty"}, PutSection(r, content)
      PROVE  sections' \in [Runs -> SUBSET Sections] /\ review' \in [Runs -> BOOLEAN]
  <2>1. [id |-> Current(r).id, section |-> Current(r).section, content |-> content] \in Sections
    BY <1>2 DEF Sections
  <2>2. sections \in [Runs -> SUBSET Sections] /\ review \in [Runs -> BOOLEAN]
    BY <1>1 DEF BagType
  <2>3. review' = [review EXCEPT ![r] = review[r] \/ Defective(content)]
    BY <1>3, <2>2 DEF PutSection, Escalate
  <2>4. sections' = [sections EXCEPT ![r] = sections[r] \cup
             {[id |-> Current(r).id, section |-> Current(r).section, content |-> content]}]
    BY <1>3, <2>2 DEF PutSection
  <2> HIDE DEF Sections
  <2>5. sections' \in [Runs -> SUBSET Sections]
    BY <2>1, <2>2, <2>4
  <2>6. (review[r] \/ Defective(content)) \in BOOLEAN
    OBVIOUS
  <2>7. review' \in [Runs -> BOOLEAN]
    BY <2>2, <2>3, <2>6, Zenon
  <2> QED
    BY <2>5, <2>7
<1> USE DEF custodyVars, bagVars, outsideVars
<1>4. CASE Request(r)
  BY <1>4, <1>1 DEF BagType, Request, GoTo
<1>5. CASE RunStarted(r)
  BY <1>5, <1>1 DEF BagType, RunStarted, Event, GoTo
<1>6. CASE Retrieve(r)
  BY <1>6, <1>1 DEF BagType, Retrieve
<1>7. CASE Generate(r)
  BY <1>7, <1>1, <1>2, <1>3 DEF BagType, Generate
<1>8. CASE Validate(r)
  BY <1>8, <1>1, <1>2, <1>3 DEF BagType, Validate
<1>9. CASE Judge(r)
  BY <1>9, <1>1 DEF BagType, Judge, Escalate, AtHandler
<1>10. CASE GatherJoin(r)
  BY <1>10, <1>1 DEF BagType, GatherJoin, AtHandler
<1>11. CASE CheckReadiness(r)
  BY <1>11, <1>1 DEF BagType, CheckReadiness, AtHandler
<1>12. CASE Export(r)
  BY <1>12, <1>1 DEF BagType, Export, AtHandler
<1>13. CASE ActAnswered(r)
  BY <1>13, <1>1 DEF BagType, ActAnswered, Escalate, AtHandler
<1>14. CASE ActSend(r)
  BY <1>14, <1>1 DEF BagType, ActSend, KeptAtSend, GoTo, AtHandler
<1>15. CASE Deliver(r)
  BY <1>15, <1>1 DEF BagType, Deliver, GoTo
<1>16. CASE KeepKey(r)
  BY <1>16, <1>1 DEF BagType, KeepKey
<1>17. CASE RequireHuman(r)
  BY <1>17, <1>1 DEF BagType, RequireHuman, AtHandler
<1>18. CASE PersistSet(r)
  BY <1>18, <1>1 DEF BagType, PersistSet, GoTo
<1>19. CASE PersistDocument(r)
  BY <1>19, <1>1 DEF BagType, PersistDocument
<1>20. CASE Persisted(r)
  BY <1>20, <1>1 DEF BagType, Persisted
<1>21. CASE \E i \in Inputs : StoreArtifact(r, i)
  BY <1>21, <1>1 DEF BagType, StoreArtifact
<1>22. CASE Record(r)
  BY <1>22, <1>1 DEF BagType, Record, WriteRow
<1>23. CASE AppendStep(r)
  BY <1>23, <1>1 DEF BagType, AppendStep, StepEvent, Event, Escalate
<1>24. CASE AppendFails(r)
  BY <1>24, <1>1 DEF BagType, AppendFails, StepEvent, Event, GoTo
<1>25. CASE Throw(r)
  BY <1>25, <1>1 DEF BagType, Throw, WriteRow, GoTo
<1> HIDE DEF custodyVars, bagVars, outsideVars
<1> QED
  BY <1>4, <1>5, <1>6, <1>7, <1>8, <1>9, <1>10, <1>11, <1>12, <1>13, <1>14, <1>15, <1>16, <1>17, <1>18, <1>19, <1>20, <1>21, <1>22, <1>23, <1>24, <1>25 DEF RunMoves, RunStep, Handler

(* While the documents of a draft are written it is there, and it is the   *)
(* only one of its run.                                                    *)
LEMMA DraftThere ==
    ASSUME Placed, Drafted, NEW r \in Runs,
           pc[r] \in {"documents", "halted"} \cup Past, Current(r).kind = "require_human"
    PROVE  /\ DraftOf(r) \in drafts /\ DraftOf(r).run = r /\ DocsOf(r) = DraftOf(r).docs
           /\ \A d \in drafts : d.run = r => d = DraftOf(r)
<1>1. \E d \in drafts : d.run = r
  BY DEF Drafted
<1>2. DraftOf(r) \in drafts /\ DraftOf(r).run = r
  BY <1>1 DEF DraftOf
<1> QED
  BY <1>1, <1>2 DEF Drafted, DocsOf

LEMMA OutsideTypeStep ==
    ASSUME TypeOK, Placed, Drafted, NEW r \in Runs, RunMoves(r)
    PROVE  OutsideType'
<1>1. OutsideType
  BY DEF TypeOK, OutsideType
<1>2. Current(r).id \in StepIds /\ Current(r).kind \in Kinds
  BY CurrentType
<1>3. ASSUME NEW status \in {"ok", "error"}, WriteRow(r, status)
      PROVE  trace' \subseteq RunSteps
  <2>1. CASE Current(r).kind \in Retrieval /\ trace' = trace \cup {Row(r, status)}
    <3>1. (status = "ok" /\ found[r]) \in BOOLEAN /\ CorrelationOf[r] \in Correlations
      BY DEF Correlations
    <3>2. Row(r, status) \in RunSteps
      BY <1>2, <2>1, <3>1, Zenon DEF Row, RunSteps
    <3> QED
      BY <1>1, <2>1, <3>2 DEF OutsideType
  <2> QED
    BY <1>1, <1>3, <2>1 DEF WriteRow, OutsideType
<1> USE DEF custodyVars, bagVars, outsideVars
<1>4. CASE Request(r)
  BY <1>4, <1>1 DEF OutsideType, Request, GoTo
<1>5. CASE RunStarted(r)
  BY <1>5, <1>1 DEF OutsideType, RunStarted, Event, GoTo
<1>6. CASE Retrieve(r)
  BY <1>6, <1>1 DEF OutsideType, Retrieve
<1>7. CASE Generate(r)
  BY <1>7, <1>1 DEF OutsideType, Generate, PutSection, Escalate, AtHandler
<1>8. CASE Validate(r)
  BY <1>8, <1>1 DEF OutsideType, Validate, PutSection, Escalate, AtHandler
<1>9. CASE Judge(r)
  BY <1>9, <1>1 DEF OutsideType, Judge, Escalate, AtHandler
<1>10. CASE GatherJoin(r)
  BY <1>10, <1>1 DEF OutsideType, GatherJoin, AtHandler
<1>11. CASE CheckReadiness(r)
  BY <1>11, <1>1 DEF OutsideType, CheckReadiness, AtHandler
<1>12. CASE Export(r)
  BY <1>12, <1>1, <1>2 DEF OutsideType, Artifact, Artifacts, Export, AtHandler
<1>13. CASE ActAnswered(r)
  BY <1>13, <1>1 DEF OutsideType, ActAnswered, Escalate, AtHandler
<1>14. CASE ActSend(r)
  BY <1>14, <1>1 DEF OutsideType, ActSend, KeptAtSend, GoTo, AtHandler
<1>15. CASE Deliver(r)
  BY <1>15, <1>1 DEF OutsideType, Deliver, GoTo
<1>16. CASE KeepKey(r)
  BY <1>16, <1>1 DEF OutsideType, KeepKey
<1>17. CASE RequireHuman(r)
  BY <1>17, <1>1 DEF OutsideType, RequireHuman, AtHandler
<1>18. CASE PersistSet(r)
  <2>1. /\ verdict[r] \in {"none", "approved", "refused"} /\ version \in DOMAIN Releases
        /\ CorrelationOf[r] \in Correlations
    BY DEF TypeOK, Correlations
  <2>2. [run |-> r, corr |-> CorrelationOf[r], author |-> AuthorOf[r], rubric |-> Releases[version],
         verdict |-> verdict[r], docs |-> {}] \in DraftSets
    BY <2>1 DEF DraftSets
  <2> QED
    BY <1>18, <1>1, <2>2 DEF OutsideType, PersistSet
<1>19. CASE PersistDocument(r)
  <2>1. PICK j \in Steps : drafts' = (drafts \ {DraftOf(r)}) \cup
                               {[DraftOf(r) EXCEPT !.docs = @ \cup {Recipe[j].id}]}
    BY <1>19 DEF PersistDocument
  <2>2. DraftOf(r) \in DraftSets
    BY <1>19, DraftThere, <1>1 DEF PersistDocument, OutsideType, Placed
  <2>3. [DraftOf(r) EXCEPT !.docs = @ \cup {Recipe[j].id}] \in DraftSets
    BY <2>2 DEF DraftSets, StepIds
  <2> QED
    BY <1>19, <1>1, <2>1, <2>3 DEF OutsideType, PersistDocument
<1>20. CASE Persisted(r)
  BY <1>20, <1>1 DEF OutsideType, Persisted
<1>21. CASE \E i \in Inputs : StoreArtifact(r, i)
  BY <1>21, <1>1, <1>2 DEF OutsideType, Artifact, Artifacts, StoreArtifact
<1>22. CASE Record(r)
  BY <1>22, <1>1, <1>3 DEF OutsideType, Record
<1>23. CASE AppendStep(r)
  BY <1>23, <1>1 DEF OutsideType, AppendStep, StepEvent, Event, Escalate
<1>24. CASE AppendFails(r)
  BY <1>24, <1>1 DEF OutsideType, AppendFails, StepEvent, Event, GoTo
<1>25. CASE Throw(r)
  BY <1>25, <1>1, <1>3 DEF OutsideType, Throw
<1> HIDE DEF custodyVars, bagVars, outsideVars
<1> QED
  BY <1>4, <1>5, <1>6, <1>7, <1>8, <1>9, <1>10, <1>11, <1>12, <1>13, <1>14, <1>15, <1>16, <1>17, <1>18, <1>19, <1>20, <1>21, <1>22, <1>23, <1>24, <1>25 DEF RunMoves, RunStep, Handler
Deliveries == [key : Correlations \X StepIds, run : Runs]

LEMMA SendType ==
    ASSUME TypeOK, outbox \in Seq(Deliveries), NEW r \in Runs
    PROVE  /\ [key |-> Key(r), run |-> r] \in Deliveries
           /\ Append(outbox, [key |-> Key(r), run |-> r]) \in Seq(Deliveries)
<1>1. Key(r) \in Correlations \X StepIds
  BY CurrentType DEF Key, Correlations
<1>2. [key |-> Key(r), run |-> r] \in Deliveries
  BY <1>1 DEF Deliveries
<1> HIDE DEF Deliveries
<1> QED
  BY <1>2

LEMMA RestTypeStep ==
    ASSUME TypeOK, outbox \in Seq(Deliveries), NEW r \in Runs, RunMoves(r)
    PROVE  /\ version' = version /\ unrecorded' = unrecorded /\ recorded' = recorded
           /\ approver' \in [Runs -> Approvers \cup {NoUser}]
           /\ \/ outbox' = outbox
              \/ outbox' = Append(outbox, [key |-> Key(r), run |-> r]) /\ pc[r] = "delivering"
           /\ outbox' \in Seq(Deliveries)
<1> USE SendType DEF custodyVars, bagVars, outsideVars
<1>0. approver \in [Runs -> Approvers \cup {NoUser}]
  BY DEF TypeOK
<1>1. CASE Request(r)
  BY <1>0, <1>1 DEF Request, GoTo
<1>2. CASE RunStarted(r)
  BY <1>0, <1>2 DEF RunStarted, Event, GoTo
<1>3. CASE Retrieve(r)
  BY <1>0, <1>3 DEF Retrieve
<1>4. CASE Generate(r)
  BY <1>0, <1>4 DEF Generate, PutSection, Escalate, AtHandler
<1>5. CASE Validate(r)
  BY <1>0, <1>5 DEF Validate, PutSection, Escalate, AtHandler
<1>6. CASE Judge(r)
  BY <1>0, <1>6 DEF Judge, Escalate, AtHandler
<1>7. CASE GatherJoin(r)
  BY <1>0, <1>7 DEF GatherJoin, AtHandler
<1>8. CASE CheckReadiness(r)
  BY <1>0, <1>8 DEF CheckReadiness, AtHandler
<1>9. CASE Export(r)
  BY <1>0, <1>9 DEF Export, AtHandler
<1>10. CASE ActAnswered(r)
  BY <1>0, <1>10 DEF ActAnswered, Escalate, AtHandler
<1>11. CASE ActSend(r)
  BY <1>0, <1>11 DEF ActSend, KeptAtSend, GoTo, AtHandler
<1>12. CASE Deliver(r)
  BY <1>0, <1>12 DEF Deliver, GoTo
<1>13. CASE KeepKey(r)
  BY <1>0, <1>13 DEF KeepKey
<1>14. CASE RequireHuman(r)
  BY <1>0, <1>14 DEF RequireHuman, AtHandler
<1>15. CASE PersistSet(r)
  BY <1>0, <1>15 DEF PersistSet, GoTo
<1>16. CASE PersistDocument(r)
  BY <1>0, <1>16 DEF PersistDocument
<1>17. CASE Persisted(r)
  BY <1>0, <1>17 DEF Persisted
<1>18. CASE \E i \in Inputs : StoreArtifact(r, i)
  BY <1>0, <1>18 DEF StoreArtifact
<1>19. CASE Record(r)
  BY <1>0, <1>19 DEF Record, WriteRow
<1>20. CASE AppendStep(r)
  BY <1>0, <1>20 DEF AppendStep, StepEvent, Event, Escalate
<1>21. CASE AppendFails(r)
  BY <1>0, <1>21 DEF AppendFails, StepEvent, Event, GoTo
<1>22. CASE Throw(r)
  BY <1>0, <1>22 DEF Throw, WriteRow, GoTo
<1> HIDE SendType DEF custodyVars, bagVars, outsideVars
<1> QED
  BY <1>1, <1>2, <1>3, <1>4, <1>5, <1>6, <1>7, <1>8, <1>9, <1>10, <1>11, <1>12, <1>13, <1>14, <1>15, <1>16, <1>17, <1>18, <1>19, <1>20, <1>21, <1>22 DEF RunMoves, RunStep, Handler

LEMMA TypeStep ==
    ASSUME TypeOK, Placed, Drafted, outbox \in Seq(Deliveries), [Next]_vars
    PROVE  TypeOK' /\ outbox' \in Seq(Deliveries)
<1>0. TypeOK <=> /\ version \in DOMAIN Releases
                 /\ unrecorded \subseteq DOMAIN Releases /\ recorded \subseteq DOMAIN Releases
                 /\ approver \in [Runs -> Approvers \cup {NoUser}]
                 /\ pc \in [Runs -> Phases] /\ step \in [Runs -> Steps]
                 /\ BagType /\ OutsideType
                 /\ events \in [Runs -> Seq(ChainEvents)]
                 /\ \A i \in DOMAIN outbox : outbox[i].run \in Runs
  BY DEF TypeOK, BagType, OutsideType, ChainEvents, Phases
<1>1. TypeOK' <=> /\ version' \in DOMAIN Releases
                  /\ unrecorded' \subseteq DOMAIN Releases /\ recorded' \subseteq DOMAIN Releases
                  /\ approver' \in [Runs -> Approvers \cup {NoUser}]
                  /\ pc' \in [Runs -> Phases] /\ step' \in [Runs -> Steps]
                  /\ BagType' /\ OutsideType'
                  /\ events' \in [Runs -> Seq(ChainEvents)]
                  /\ \A i \in DOMAIN outbox' : outbox'[i].run \in Runs
  BY DEF TypeOK, BagType, OutsideType, ChainEvents, Phases
<1>2. ASSUME NEW o \in Seq(Deliveries)
      PROVE  \A i \in DOMAIN o : o[i].run \in Runs
  <2>1. \A i \in DOMAIN o : o[i] \in Deliveries
    <3> HIDE DEF Deliveries
    <3> QED
      BY ElementOfSeq
  <2> QED
    BY <2>1 DEF Deliveries
<1>3. CASE \E r \in Runs : RunMoves(r)
  <2>1. PICK r \in Runs : RunMoves(r)
    BY <1>3
  <2>2. events' = events \/ Event(r, "run_started", {}, {}) \/ StepEvent(r)
    BY <2>1, RunGoes DEF Goes, GoesQuietly, Begins, Chains
  <2>3. Goes(r)
    BY <2>1, RunGoes
  <2> QED
    BY <1>0, <1>1, <1>2, <2>1, <2>2, <2>3, PhaseTypes, BagTypeStep, OutsideTypeStep, EventsType,
       RestTypeStep
<1>4. CASE UpdateRubrics
  <2>1. version + 1 \in DOMAIN Releases
    BY <1>0, <1>4, RecipeType DEF UpdateRubrics
  <2>2. UNCHANGED <<approver, pc, step, review, events, recorded, found, sections, gathered,
                    verdict, trace, artifacts, drafts, seen, outbox>>
    BY <1>4 DEF UpdateRubrics, bagVars, outsideVars
  <2>3. version' = version + 1 /\ unrecorded' = unrecorded \cup {version + 1}
    BY <1>4 DEF UpdateRubrics
  <2>4. BagType' /\ OutsideType'
    BY <1>0, <2>2 DEF BagType, OutsideType
  <2> QED
    BY <1>0, <1>1, <2>1, <2>2, <2>3, <2>4
<1>5. CASE \E v \in unrecorded : RecordUpdate(v)
  <2>1. UNCHANGED <<version, approver, pc, step, review, events, found, sections, gathered,
                    verdict, trace, artifacts, drafts, seen, outbox>>
    BY <1>5 DEF RecordUpdate, bagVars, outsideVars
  <2>2. unrecorded' \subseteq DOMAIN Releases /\ recorded' \subseteq DOMAIN Releases
    BY <1>0, <1>5 DEF RecordUpdate
  <2>3. BagType' /\ OutsideType'
    BY <1>0, <2>1 DEF BagType, OutsideType
  <2> QED
    BY <1>0, <1>1, <2>1, <2>2, <2>3
<1>6. CASE Crash
  <2>1. UNCHANGED <<version, approver, step, review, events, recorded, found, sections, gathered,
                    verdict, trace, artifacts, drafts, outbox>> /\ unrecorded' = {}
    BY <1>6 DEF Crash, bagVars
  <2>2. pc' \in [Runs -> Phases]
    BY <1>0, <1>6 DEF Crash, Phases, Ended
  <2>3. BagType' /\ OutsideType'
    BY <1>0, <2>1 DEF BagType, OutsideType
  <2> QED
    BY <1>0, <1>1, <2>1, <2>2, <2>3
<1>7. CASE UNCHANGED vars
  <2>1. UNCHANGED <<version, approver, pc, step, review, events, recorded, unrecorded, found,
                    sections, gathered, verdict, trace, artifacts, drafts, outbox>>
    BY <1>7 DEF vars, bagVars, outsideVars, custodyVars
  <2>2. BagType' /\ OutsideType'
    BY <1>0, <2>1 DEF BagType, OutsideType
  <2> QED
    BY <1>0, <1>1, <2>1, <2>2
<1> QED
  BY <1>3, <1>4, <1>5, <1>6, <1>7 DEF Next, RunMoves

-----------------------------------------------------------------------------
(* The chain of a run.                                                     *)
LEMMA PlacedStep ==
    ASSUME TypeOK, Placed, [Next]_vars
    PROVE  Placed'
<1>1. CASE NoRunMoves
  BY <1>1 DEF NoRunMoves, Placed, Live, Current, Gated
<1>2. CASE \E r \in Runs : RunMoves(r)
  <2>1. PICK r \in Runs : RunMoves(r)
    BY <1>2
  <2>2. Frame(r) /\ Goes(r)
    BY <2>1, Framed, RunGoes
  <2> DEFINE P(s) == /\ pc[s] \in {"new", "started"} => step[s] = 1 /\ events[s] = <<>>
                     /\ pc[s] \in {"set", "documents"} => Current(s).kind = "require_human"
                     /\ pc[s] \in {"delivering", "delivered"} => Current(s).kind = "act" /\ ~Gated(s)
                     /\ pc[s] = "halted" => Current(s).kind = "require_human"
  <2>3. ASSUME NEW s \in Runs \ {r} PROVE P(s)'
    BY <2>2, <2>3 DEF Frame, Placed, Current, Gated
  <2>4. P(r)'
    <3>1. P(r) /\ pc \in [Runs -> Phases] /\ step \in [Runs -> Steps]
      BY DEF Placed, TypeOK, Phases
    <3>2. step'[r] = step[r] => Current(r)' = Current(r)
      BY DEF Current
    <3>3. pc[r] # "new" => Gated(r)' = Gated(r)
      BY <2>2 DEF Frame, Gated
    <3>4. \/ pc'[r] \notin {"new", "started", "set", "documents", "delivering", "delivered", "halted"}
          \/ pc'[r] = pc[r] /\ step'[r] = step[r] /\ pc[r] # "new" /\ events' = events
          \/ pc[r] = "new" /\ pc'[r] = "started" /\ step'[r] = step[r] /\ events' = events
          \/ pc[r] = "handle" /\ pc'[r] = "set" /\ step'[r] = step[r] /\ Current(r).kind = "require_human"
          \/ pc[r] = "delivered" /\ Current(r).kind # "act"
          \/ pc[r] = "handle" /\ pc'[r] = "delivering" /\ step'[r] = step[r] /\ Current(r).kind = "act" /\ ~Gated(r)
          \/ pc[r] = "delivering" /\ pc'[r] = "delivered" /\ step'[r] = step[r]
          \/ pc[r] = "set" /\ pc'[r] = "documents" /\ step'[r] = step[r]
          \/ pc'[r] = "halted" /\ step'[r] = step[r] /\ Current(r).kind = "require_human"
      <4>1. \A phase : At(r, phase) => pc'[r] = phase /\ step'[r] = step[r]
        BY <3>1 DEF At
      <4>2. StepOver(r) => \/ pc'[r] \in {"completed", "not_ready", "handle"}
                           \/ pc'[r] = "halted" /\ step'[r] = step[r] /\ Current(r).kind = "require_human"
        BY <3>1 DEF StepOver, Stopped
      <4>3. \/ AfterHandler(Current(r).kind) = "set" /\ Current(r).kind = "require_human"
            \/ AfterHandler(Current(r).kind) \in {"append", "record"}
        BY DEF AfterHandler
      <4> QED
        BY <2>2, <4>1, <4>2, <4>3 DEF Goes, GoesQuietly, Begins, Chains
    <3> QED
      BY <3>1, <3>2, <3>3, <3>4
  <2> QED
    BY <2>3, <2>4 DEF Placed
<1> QED
  BY <1>1, <1>2, OneRunMoves
ChainTells(s) ==
    /\ \A i \in DOMAIN events[s] :
          /\ i <= step[s] + 1
          /\ events[s][i].kind = IF i = 1 THEN "run_started" ELSE EventType(Recipe[i - 1].kind)
    /\ pc[s] \notin {"new", "started", "failed", "dead"} =>
          Len(events[s]) = step[s] + IF Recorded(s) THEN 1 ELSE 0

(* An event is added at the end, and is the step's.                        *)
LEMMA EventAdded ==
    ASSUME TypeOK, NEW r \in Runs, StepEvent(r)
    PROVE  /\ events[r] \in Seq(ChainEvents)
           /\ Len(events'[r]) = Len(events[r]) + 1 /\ DOMAIN events'[r] = 1 .. Len(events[r]) + 1
           /\ \A i \in DOMAIN events[r] : i \in DOMAIN events'[r] /\ events'[r][i] = events[r][i]
           /\ events'[r][Len(events[r]) + 1].kind = EventType(Current(r).kind)
           /\ events'[r][Len(events[r]) + 1].refs = Refs(r)
           /\ events'[r][Len(events[r]) + 1].docs =
                IF Current(r).kind = "require_human" THEN DocsOf(r) ELSE {}
           /\ \A s \in Runs \ {r} : events'[s] = events[s]
<1> DEFINE e == [kind |-> EventType(Current(r).kind), refs |-> Refs(r),
                 docs |-> IF Current(r).kind = "require_human" THEN DocsOf(r) ELSE {}]
<1>1. events \in [Runs -> Seq(ChainEvents)]
  BY DEF TypeOK, ChainEvents
<1>2. events' = [events EXCEPT ![r] = Append(events[r], e)]
  BY <1>1 DEF StepEvent, Event
<1> HIDE DEF e, ChainEvents
<1>3. events[r] \in Seq(ChainEvents) /\ events'[r] = Append(events[r], e)
      /\ \A s \in Runs \ {r} : events'[s] = events[s]
  BY <1>1, <1>2
<1>4. Len(events'[r]) = Len(events[r]) + 1 /\ DOMAIN events'[r] = 1 .. Len(events[r]) + 1
      /\ (\A i \in 1 .. Len(events[r]) : events'[r][i] = events[r][i])
      /\ events'[r][Len(events[r]) + 1] = e
  BY <1>3
<1>5. DOMAIN events[r] = 1 .. Len(events[r]) /\ Len(events[r]) \in Nat
  BY <1>3
<1>6. /\ e.kind = EventType(Current(r).kind) /\ e.refs = Refs(r)
      /\ e.docs = IF Current(r).kind = "require_human" THEN DocsOf(r) ELSE {}
  BY DEF e
<1> QED
  BY <1>3, <1>4, <1>5, <1>6

LEMMA RunStartAdded ==
    ASSUME TypeOK, NEW r \in Runs, Event(r, "run_started", {}, {}), events[r] = <<>>
    PROVE  /\ Len(events'[r]) = 1 /\ DOMAIN events'[r] = {1}
           /\ events'[r][1] = [kind |-> "run_started", refs |-> {}, docs |-> {}]
           /\ \A s \in Runs \ {r} : events'[s] = events[s]
<1>1. events \in [Runs -> Seq(ChainEvents)]
  BY DEF TypeOK, ChainEvents
<1> HIDE DEF ChainEvents
<1> DEFINE e == [kind |-> "run_started", refs |-> {}, docs |-> {}]
<1>2. events' = [events EXCEPT ![r] = Append(events[r], e)]
  BY <1>1 DEF Event
<1> HIDE DEF e
<1>3. events'[r] = <<e>> /\ \A s \in Runs \ {r} : events'[s] = events[s]
  BY <1>1, <1>2
<1>4. Len(events'[r]) = 1 /\ DOMAIN events'[r] = {1} /\ events'[r][1] = e
  BY <1>3
<1> QED
  BY <1>3, <1>4 DEF e

LEMMA ChainStep ==
    ASSUME TypeOK, Placed, OneEventPerStep, [Next]_vars
    PROVE  OneEventPerStep'
<1>0. (OneEventPerStep <=> \A s \in Runs : ChainTells(s))
      /\ (OneEventPerStep' <=> \A s \in Runs : ChainTells(s)')
  BY DEF OneEventPerStep, ChainTells
<1>1. CASE NoRunMoves
  <2> SUFFICES ASSUME NEW s \in Runs PROVE ChainTells(s)'
    BY <1>0
  <2>1. events'[s] = events[s] /\ step'[s] = step[s] /\ (pc'[s] = pc[s] \/ pc'[s] = "dead")
    BY <1>1 DEF NoRunMoves
  <2> QED
    BY <1>0, <2>1 DEF ChainTells, Recorded, Current
<1>2. CASE \E r \in Runs : RunMoves(r)
  <2>1. PICK r \in Runs : RunMoves(r)
    BY <1>2
  <2>2. Frame(r) /\ Goes(r)
    BY <2>1, Framed, RunGoes
  <2>3. ASSUME NEW s \in Runs \ {r} PROVE ChainTells(s)'
    BY <1>0, <2>2, <2>3 DEF Frame, ChainTells, Recorded, Current
  <2>4. ChainTells(r)'
    <3>0. /\ pc \in [Runs -> Phases] /\ step \in [Runs -> Steps]
          /\ events \in [Runs -> Seq(ChainEvents)]
      BY DEF TypeOK, Phases, ChainEvents
    <3>8. /\ events[r] \in Seq(ChainEvents) /\ DOMAIN events[r] = 1 .. Len(events[r])
          /\ Len(events[r]) \in Nat
      BY <3>0
    <3>1. /\ pc \in [Runs -> Phases] /\ step \in [Runs -> Steps]
          /\ step[r] \in Nat /\ step[r] > 0
          /\ DOMAIN events[r] = 1 .. Len(events[r])
          /\ Len(events[r]) \in Nat /\ ChainTells(r)
      BY <1>0, <3>0, <3>8, CurrentType
    <3>2. \A phase : At(r, phase) => pc'[r] = phase /\ step'[r] = step[r]
      BY <3>1 DEF At
    <3>3. StepOver(r) => \/ pc'[r] \in Stopped /\ step'[r] = step[r]
                         \/ pc'[r] = "handle" /\ step'[r] = step[r] + 1
      BY <3>1 DEF StepOver, Stopped
    <3>4. step'[r] = step[r] => Current(r)' = Current(r)
      BY DEF Current
    <3>5. CASE GoesQuietly(r)
      <4>1. \/ /\ pc'[r] \in {"handle", "failed", "delivering", "delivered", "documents", "append", "record", "set", "started"}
               /\ step'[r] = step[r] /\ (pc'[r] = "record" => Current(r).kind # "gather")
               /\ \/ pc'[r] \in {"failed", "started"}
                  \/ pc[r] \in Live \ {"new", "started"} /\ ~Recorded(r)
            \/ pc'[r] \in Stopped /\ step'[r] = step[r] /\ pc[r] = "record" /\ Recorded(r)
            \/ pc'[r] = "handle" /\ step'[r] = step[r] + 1 /\ pc[r] = "record" /\ Recorded(r)
        <5>1. CASE pc[r] = "new" /\ At(r, "started")
          BY <3>2, <5>1
        <5>2. CASE pc[r] \in {"handle", "delivered"} /\ At(r, AfterHandler(Current(r).kind))
          BY <3>2, <5>2 DEF AfterHandler, Live, Recorded
        <5>3. CASE pc[r] = "handle" /\ At(r, "delivering")
          BY <3>2, <5>3 DEF Live, Recorded
        <5>4. CASE pc[r] = "delivering" /\ (At(r, "delivered") \/ At(r, "failed"))
          BY <3>2, <5>4 DEF Live, Recorded
        <5>5. CASE pc[r] = "set" /\ At(r, "documents")
          BY <3>2, <5>5 DEF Live, Recorded
        <5>6. CASE pc[r] = "documents" /\ At(r, "record")
          BY <3>2, <5>6 DEF Live, Recorded, Placed
        <5>7. CASE pc[r] \in {"documents", "handle", "failed"} /\ pc' = pc /\ step' = step
          BY <5>7 DEF Live, Recorded
        <5>8. CASE pc[r] = "record" /\ Current(r).kind = "gather" /\ StepOver(r)
          BY <3>3, <5>8 DEF Recorded
        <5>9. CASE pc[r] = "record" /\ Current(r).kind # "gather" /\ At(r, "append")
          BY <3>2, <5>9 DEF Live, Recorded
        <5>10. CASE pc[r] \in Live /\ At(r, "failed")
          BY <3>2, <5>10
        <5> QED
          BY <3>5, <5>1, <5>2, <5>3, <5>4, <5>5, <5>6, <5>7, <5>8, <5>9, <5>10 DEF GoesQuietly
      <4>2. events'[r] = events[r]
        BY <3>5 DEF GoesQuietly
      <4>0. /\ \A i \in DOMAIN events[r] : i <= step[r] + 1
            /\ \A i \in DOMAIN events[r] :
                  events[r][i].kind = IF i = 1 THEN "run_started" ELSE EventType(Recipe[i - 1].kind)
            /\ pc[r] \notin {"new", "started", "failed", "dead"} =>
                  Len(events[r]) = step[r] + IF Recorded(r) THEN 1 ELSE 0
        BY <3>1 DEF ChainTells
      <4>9. \A i \in DOMAIN events[r] : i <= step[r] + 2
        BY <3>1, <4>0
      <4>3. /\ \A i \in DOMAIN events'[r] : i <= step[r] + 1 /\ i <= step[r] + 2
            /\ \A i \in DOMAIN events'[r] :
                  events'[r][i].kind = IF i = 1 THEN "run_started" ELSE EventType(Recipe[i - 1].kind)
            /\ pc[r] \notin {"new", "started", "failed", "dead"} =>
                  Len(events'[r]) = step[r] + IF Recorded(r) THEN 1 ELSE 0
        BY <4>0, <4>2, <4>9
      <4>4. Recorded(r)' <=> \/ pc'[r] \in Stopped
                             \/ pc'[r] = "record" /\ Current(r)'.kind = "gather"
        BY DEF Recorded, Stopped
      <4>5. ~(pc[r] = "record" /\ pc[r] \in {"new", "started", "failed", "dead"})
        OBVIOUS
      <4>6. CASE pc'[r] \in Stopped /\ step'[r] = step[r] /\ pc[r] = "record" /\ Recorded(r)
        BY <3>1, <4>3, <4>4, <4>6 DEF ChainTells, Stopped
      <4>7. CASE pc'[r] = "handle" /\ step'[r] = step[r] + 1 /\ pc[r] = "record" /\ Recorded(r)
        BY <3>1, <4>3, <4>4, <4>7 DEF ChainTells, Stopped
      <4>8. CASE /\ step'[r] = step[r] /\ (pc'[r] = "record" => Current(r).kind # "gather")
                 /\ pc'[r] \notin Stopped
                 /\ \/ pc'[r] \in {"failed", "started"}
                    \/ pc[r] \in Live \ {"new", "started"} /\ ~Recorded(r)
        BY <3>1, <3>4, <4>3, <4>4, <4>8 DEF ChainTells, Live
      <4> QED
        BY <4>1, <4>6, <4>7, <4>8 DEF Stopped
    <3>6. CASE Begins(r)
      <4>1. step[r] = 1 /\ events[r] = <<>>
        BY <3>6 DEF Placed, Begins
      <4>2. (pc'[r] = "handle" \/ pc'[r] = "failed") /\ step'[r] = step[r]
        BY <3>2, <3>6 DEF Begins
      <4>3. /\ Len(events'[r]) = 1 /\ DOMAIN events'[r] = {1}
            /\ events'[r][1].kind = "run_started"
        BY <3>6, <4>1, RunStartAdded DEF Begins
      <4> QED
        BY <3>4, <4>1, <4>2, <4>3 DEF ChainTells, Recorded
    <3>7. CASE Chains(r)
      <4>1. Len(events[r]) = step[r]
        BY <3>1, <3>7 DEF ChainTells, Recorded, Chains
      <4>2. \/ pc'[r] = "failed" /\ step'[r] = step[r]
            \/ pc'[r] = "record" /\ Current(r).kind = "gather" /\ step'[r] = step[r]
            \/ pc'[r] \in Stopped /\ step'[r] = step[r]
            \/ pc'[r] = "handle" /\ step'[r] = step[r] + 1
        BY <3>2, <3>3, <3>7 DEF Chains
      <4>3. \A i \in DOMAIN events'[r] :
              /\ i <= step[r] + 1
              /\ events'[r][i].kind = IF i = 1 THEN "run_started" ELSE EventType(Recipe[i - 1].kind)
        <5> SUFFICES ASSUME NEW i \in DOMAIN events'[r]
                     PROVE  /\ i <= step[r] + 1
                            /\ events'[r][i].kind = IF i = 1 THEN "run_started" ELSE EventType(Recipe[i - 1].kind)
          OBVIOUS
        <5>1. CASE i \in DOMAIN events[r]
          <6>1. events'[r][i] = events[r][i]
            BY <3>7, <5>1, EventAdded DEF Chains
          <6> QED
            BY <3>1, <5>1, <6>1 DEF ChainTells
        <5>2. CASE i = Len(events[r]) + 1
          <6>1. events'[r][i].kind = EventType(Current(r).kind)
            BY <3>7, <5>2, EventAdded DEF Chains
          <6>2. i = step[r] + 1 /\ i # 1 /\ i - 1 = step[r]
            BY <3>1, <4>1, <5>2
          <6>3. Recipe[i - 1] = Current(r)
            BY <6>2 DEF Current
          <6> QED
            BY <3>1, <6>1, <6>2, <6>3
        <5>3. i \in 1 .. Len(events[r]) + 1
          BY <3>7, EventAdded DEF Chains
        <5> QED
          BY <3>1, <5>1, <5>2, <5>3
      <4>4. Len(events'[r]) = step[r] + 1
        BY <3>7, <4>1, EventAdded DEF Chains
      <4> QED
        BY <3>1, <3>4, <4>2, <4>3, <4>4 DEF ChainTells, Recorded, Stopped
    <3> QED
      BY <2>2, <3>5, <3>6, <3>7 DEF Goes
  <2> QED
    BY <1>0, <2>3, <2>4
<1> QED
  BY <1>1, <1>2, OneRunMoves
-----------------------------------------------------------------------------
(* The draft of a run.                                                     *)
NewDraft(r) == [run |-> r, corr |-> CorrelationOf[r], author |-> AuthorOf[r],
                rubric |-> Releases[version], verdict |-> verdict[r], docs |-> {}]

LEMMA DraftMoves ==
    ASSUME TypeOK, NEW r \in Runs, RunMoves(r)
    PROVE  \/ /\ pc[r] = "set" /\ At(r, "documents")
              /\ drafts' = drafts \cup {NewDraft(r)}
           \/ PersistDocument(r)
           \/ /\ drafts' = drafts
              /\ pc[r] = "set" => pc'[r] = "failed"
              /\ pc[r] = "documents" =>
                   \/ pc'[r] = "failed"
                   \/ pc'[r] = "record" /\ SectionIds(r) \subseteq DocsOf(r)
<1>0. pc \in [Runs -> Phases] /\ (pc[r] = "documents" /\ MoveOn(r) => pc'[r] = "record")
  BY MovesOn DEF TypeOK, Phases, At
<1> USE DEF outsideVars
<1>1. CASE Request(r)
  BY <1>0, <1>1 DEF Request, GoTo
<1>2. CASE RunStarted(r)
  BY <1>0, <1>2 DEF RunStarted, Event, GoTo
<1>3. CASE Retrieve(r)
  BY <1>0, <1>3 DEF Retrieve
<1>4. CASE Generate(r)
  BY <1>0, <1>4 DEF Generate, PutSection, Escalate, AtHandler
<1>5. CASE Validate(r)
  BY <1>0, <1>5 DEF Validate, PutSection, Escalate, AtHandler
<1>6. CASE Judge(r)
  BY <1>0, <1>6 DEF Judge, Escalate, AtHandler
<1>7. CASE GatherJoin(r)
  BY <1>0, <1>7 DEF GatherJoin, AtHandler
<1>8. CASE CheckReadiness(r)
  BY <1>0, <1>8 DEF CheckReadiness, AtHandler
<1>9. CASE Export(r)
  BY <1>0, <1>9 DEF Export, AtHandler
<1>10. CASE ActAnswered(r)
  BY <1>0, <1>10 DEF ActAnswered, Escalate, AtHandler
<1>11. CASE ActSend(r)
  BY <1>0, <1>11 DEF ActSend, KeptAtSend, GoTo, AtHandler
<1>12. CASE Deliver(r)
  BY <1>0, <1>12 DEF Deliver, GoTo
<1>13. CASE KeepKey(r)
  BY <1>0, <1>13 DEF KeepKey
<1>14. CASE RequireHuman(r)
  BY <1>0, <1>14 DEF RequireHuman, AtHandler
<1>15. CASE PersistSet(r)
  BY <1>0, <1>15 DEF PersistSet, GoTo, At, NewDraft
<1>16. CASE PersistDocument(r)
  BY <1>0, <1>16 DEF PersistDocument
<1>17. CASE Persisted(r)
  BY <1>0, <1>17 DEF Persisted
<1>18. CASE \E i \in Inputs : StoreArtifact(r, i)
  BY <1>0, <1>18 DEF StoreArtifact
<1>19. CASE Record(r)
  BY <1>0, <1>19 DEF Record, WriteRow
<1>20. CASE AppendStep(r)
  BY <1>0, <1>20 DEF AppendStep, StepEvent, Event, Escalate
<1>21. CASE AppendFails(r)
  BY <1>0, <1>21 DEF AppendFails, StepEvent, Event, GoTo
<1>22. CASE Throw(r)
  BY <1>0, <1>22 DEF Throw, WriteRow, GoTo
<1> HIDE DEF outsideVars
<1> QED
  BY <1>1, <1>2, <1>3, <1>4, <1>5, <1>6, <1>7, <1>8, <1>9, <1>10, <1>11, <1>12, <1>13, <1>14, <1>15, <1>16, <1>17, <1>18, <1>19, <1>20, <1>21, <1>22 DEF RunMoves, RunStep, Handler

(* Writing documents replaces the draft of the run by one with another.    *)
LEMMA DocumentWritten ==
    ASSUME Placed, Drafted, TypeOK, NEW r \in Runs, PersistDocument(r)
    PROVE  \E d \in drafts, e \in drafts' :
             /\ d.run = r /\ e.run = r /\ drafts' = (drafts \ {d}) \cup {e}
             /\ e.corr = d.corr /\ e.author = d.author /\ e.verdict = d.verdict
             /\ d.docs \subseteq SectionIds(r) => e.docs \subseteq SectionIds(r)
             /\ \A f \in drafts : f.run = r => f = d
<1> DEFINE d == DraftOf(r)
<1>1. PICK j \in Steps : /\ Recipe[j].id \in SectionIds(r)
                         /\ drafts' = (drafts \ {d}) \cup {[d EXCEPT !.docs = @ \cup {Recipe[j].id}]}
  BY DEF PersistDocument
<1>2. pc[r] = "documents" /\ Current(r).kind = "require_human"
  BY DEF PersistDocument, Placed
<1>3. /\ d \in drafts /\ d.run = r
      /\ \A f \in drafts : f.run = r => f = d
  BY <1>2, DraftThere
<1>4. d \in DraftSets
  BY <1>3 DEF TypeOK
<1> DEFINE e == [d EXCEPT !.docs = @ \cup {Recipe[j].id}]
<1>5. e.run = d.run /\ e.corr = d.corr /\ e.author = d.author /\ e.verdict = d.verdict
      /\ e.docs = d.docs \cup {Recipe[j].id}
  BY <1>4 DEF DraftSets
<1>6. e \in drafts' /\ drafts' = (drafts \ {d}) \cup {e}
  BY <1>1
<1> HIDE DEF d, e
<1> QED
  BY <1>1, <1>3, <1>5, <1>6

DraftFits(d) ==
    /\ Current(d.run).kind = "require_human"
    /\ pc[d.run] \in {"documents", "halted", "failed", "dead"} \cup Past
    /\ d.corr = CorrelationOf[d.run] /\ d.author = AuthorOf[d.run]
    /\ d.verdict = verdict[d.run]
    /\ pc[d.run] \in Past => d.docs = SectionIds(d.run)
    /\ d.docs \subseteq SectionIds(d.run)
DraftHeld(r) ==
    Current(r).kind = "require_human" /\ pc[r] \in {"documents", "halted"} \cup Past =>
       \E d \in drafts : d.run = r

(* The phases of the step that makes the draft.                            *)
LEMMA HumanStep ==
    ASSUME TypeOK, NEW r \in Runs, Goes(r), Current(r).kind = "require_human"
    PROVE  /\ step'[r] = step[r] /\ Current(r)' = Current(r)
           /\ pc[r] \in {"documents"} => pc'[r] \in {"documents", "record", "failed"}
           /\ pc[r] = "record" => pc'[r] \in {"append", "failed"}
           /\ pc[r] = "append" => pc'[r] \in {"halted", "failed"}
           /\ pc[r] = "failed" => pc'[r] = "failed"
           /\ pc[r] \notin {"halted", "dead"}
           /\ pc'[r] \in {"documents", "halted"} \cup Past =>
                pc[r] \in {"set", "documents", "delivered"} \cup Past
<1>1. pc \in [Runs -> Phases] /\ step \in [Runs -> Steps]
  BY DEF TypeOK, Phases
<1>2. \A phase : At(r, phase) => pc'[r] = phase /\ step'[r] = step[r]
  BY <1>1 DEF At
<1>3. StepOver(r) => pc'[r] = "halted" /\ step'[r] = step[r]
  BY <1>1 DEF StepOver
<1>4. AfterHandler(Current(r).kind) = "set"
  BY DEF AfterHandler
<1>5. step'[r] = step[r] => Current(r)' = Current(r)
  BY DEF Current
<1>6. CASE GoesQuietly(r)
  BY <1>2, <1>3, <1>4, <1>5, <1>6 DEF GoesQuietly, Past, Live
<1>7. CASE Begins(r)
  BY <1>2, <1>5, <1>7 DEF Begins, Past
<1>8. CASE Chains(r)
  BY <1>2, <1>3, <1>5, <1>8 DEF Chains, Past
<1> QED
  BY <1>6, <1>7, <1>8 DEF Goes

(* A run that has a draft, or is about to have one, keeps its verdict and  *)
(* its sections.                                                           *)
LEMMA DraftedStep ==
    ASSUME TypeOK, Placed, Drafted, [Next]_vars
    PROVE  Drafted'
<1>0. /\ Drafted <=> /\ \A d, e \in drafts : d.run = e.run => d = e
                     /\ \A d \in drafts : DraftFits(d)
                     /\ \A r \in Runs : DraftHeld(r)
      /\ Drafted' <=> /\ \A d, e \in drafts' : d.run = e.run => d = e
                      /\ \A d \in drafts' : DraftFits(d)'
                      /\ \A r \in Runs : DraftHeld(r)'
  BY DEF Drafted, DraftFits, DraftHeld
<1>1. \A d \in drafts : d.run \in Runs
  BY DEF TypeOK, DraftSets
<1>2. CASE NoRunMoves
  <2>1. ASSUME NEW d \in drafts PROVE DraftFits(d)'
    <3>1. d.run \in Runs /\ DraftFits(d)
      BY <1>0, <1>1
    <3> QED
      BY <1>2, <3>1 DEF NoRunMoves, DraftFits, Past, Current, SectionIds
  <2>2. ASSUME NEW r \in Runs PROVE DraftHeld(r)'
    BY <1>0, <1>2 DEF NoRunMoves, DraftHeld, Past, Current
  <2> QED
    BY <1>0, <1>2, <2>1, <2>2 DEF NoRunMoves
<1>3. CASE \E r \in Runs : RunMoves(r)
  <2>1. PICK r \in Runs : RunMoves(r)
    BY <1>3
  <2>2. Frame(r) /\ Goes(r)
    BY <2>1, Framed, RunGoes
  <2>3. ASSUME NEW d \in drafts, d.run # r PROVE DraftFits(d)'
    <3>1. d.run \in Runs \ {r} /\ DraftFits(d)
      BY <1>0, <1>1, <2>3
    <3> QED
      BY <2>2, <3>1 DEF Frame, DraftFits, Current, SectionIds
  <2>4. pc[r] # "handle" => verdict'[r] = verdict[r] /\ SectionIds(r)' = SectionIds(r)
    BY <2>2 DEF Frame, SectionIds
  <2>5. ASSUME NEW s \in Runs \ {r},
               \A d \in drafts : d.run # r => d \in drafts'
        PROVE  DraftHeld(s)'
    <3>1. DraftHeld(s)
      BY <1>0
    <3> QED
      BY <2>2, <2>5, <3>1 DEF Frame, DraftHeld, Current
  <2>6. CASE pc[r] = "set" /\ At(r, "documents") /\ drafts' = drafts \cup {NewDraft(r)}
    <3>0. PICK e : e = NewDraft(r)
      OBVIOUS
    <3>1. /\ e.run = r /\ e.corr = CorrelationOf[r] /\ e.author = AuthorOf[r]
          /\ e.verdict = verdict[r] /\ e.docs = {}
      BY <3>0 DEF NewDraft
    <3>2. Current(r).kind = "require_human"
      BY <2>6 DEF Placed
    <3>3. pc'[r] = "documents" /\ Current(r)' = Current(r)
      BY <2>6 DEF At, Current, TypeOK
    <3>4. \A d \in drafts : d.run # r
      BY <1>0, <2>6 DEF DraftFits, Past
    <3>5. verdict'[r] = verdict[r]
      BY <2>4, <2>6
    <3>6. DraftFits(e)'
      BY <3>1, <3>2, <3>3, <3>5 DEF DraftFits, Past
    <3>7. drafts' = drafts \cup {e}
      BY <2>6, <3>0
    <3>8. \A d \in drafts' : DraftFits(d)'
      BY <2>3, <3>4, <3>6, <3>7
    <3>9. \A d, f \in drafts' : d.run = f.run => d = f
      BY <1>0, <3>1, <3>4, <3>7
    <3>10. DraftHeld(r)'
      BY <3>1, <3>7 DEF DraftHeld
    <3>11. \A s \in Runs \ {r} : DraftHeld(s)'
      BY <2>5, <3>7
    <3> QED
      BY <1>0, <3>8, <3>9, <3>10, <3>11
  <2>7. CASE PersistDocument(r)
    <3>1. PICK d \in drafts, e \in drafts' :
             /\ d.run = r /\ e.run = r /\ drafts' = (drafts \ {d}) \cup {e}
             /\ e.corr = d.corr /\ e.author = d.author /\ e.verdict = d.verdict
             /\ d.docs \subseteq SectionIds(r) => e.docs \subseteq SectionIds(r)
             /\ \A f \in drafts : f.run = r => f = d
      BY <2>7, DocumentWritten
    <3>2. /\ pc' = pc /\ step' = step /\ pc[r] = "documents" /\ verdict' = verdict
          /\ sections' = sections
      BY <2>7 DEF PersistDocument, bagVars
    <3>3. DraftFits(d)
      BY <1>0
    <3>4. DraftFits(e)'
      BY <3>1, <3>2, <3>3 DEF DraftFits, Past, Current, SectionIds
    <3>5. \A f \in drafts' : f = e \/ (f \in drafts /\ f.run # r)
      BY <3>1
    <3>6. \A f \in drafts' : DraftFits(f)'
      BY <2>3, <3>4, <3>5
    <3>7. \A f, g \in drafts' : f.run = g.run => f = g
      BY <1>0, <3>1, <3>5
    <3>8. DraftHeld(r)'
      BY <3>1 DEF DraftHeld
    <3>9. \A s \in Runs \ {r} : DraftHeld(s)'
      BY <2>5, <3>1
    <3> QED
      BY <1>0, <3>6, <3>7, <3>8, <3>9
  <2>8. CASE /\ drafts' = drafts
             /\ pc[r] = "set" => pc'[r] = "failed"
             /\ pc[r] = "documents" =>
                  \/ pc'[r] = "failed"
                  \/ pc'[r] = "record" /\ SectionIds(r) \subseteq DocsOf(r)
    <3>1. ASSUME NEW d \in drafts, d.run = r PROVE DraftFits(d)'
      <4>1. DraftFits(d)
        BY <1>0
      <4>2. Current(r).kind = "require_human"
            /\ pc[r] \in {"documents", "halted", "failed", "dead"} \cup Past
        BY <3>1, <4>1 DEF DraftFits
      <4>3. /\ Current(r)' = Current(r)
            /\ pc[r] = "documents" => pc'[r] \in {"record", "failed"}
            /\ pc[r] = "record" => pc'[r] \in {"append", "failed"}
            /\ pc[r] = "append" => pc'[r] \in {"halted", "failed"}
            /\ pc[r] = "failed" => pc'[r] = "failed"
            /\ pc[r] \notin {"halted", "dead"}
        BY <2>2, <2>8, <4>2, HumanStep
      <4>4. verdict'[r] = verdict[r] /\ SectionIds(r)' = SectionIds(r)
        BY <2>4, <4>2 DEF Past
      <4>5. pc[r] = "documents" /\ pc'[r] = "record" => d.docs = SectionIds(r)
        <5> SUFFICES ASSUME pc[r] = "documents", pc'[r] = "record" PROVE d.docs = SectionIds(r)
          OBVIOUS
        <5>1. DocsOf(r) = d.docs
          BY <3>1, <4>2, DraftThere
        <5>2. d.docs \subseteq SectionIds(r)
          BY <3>1, <4>1 DEF DraftFits
        <5>3. SectionIds(r) \subseteq DocsOf(r)
          BY <2>8
        <5> QED
          BY <5>1, <5>2, <5>3
      <4> QED
        BY <3>1, <4>1, <4>2, <4>3, <4>4, <4>5 DEF DraftFits, Past
    <3>2. DraftHeld(r)'
      <4> SUFFICES ASSUME Current(r)'.kind = "require_human",
                          pc'[r] \in {"documents", "halted"} \cup Past
                   PROVE  \E d \in drafts : d.run = r
        BY <2>8 DEF DraftHeld, Past
      <4>1. CASE Current(r).kind = "require_human"
        <5>1. pc[r] \in {"documents"} \cup Past
          BY <2>2, <2>8, <4>1, HumanStep DEF Placed, Past
        <5> QED
          BY <1>0, <4>1, <5>1 DEF DraftHeld
      <4>2. CASE Current(r).kind # "require_human"
        <5>1. step'[r] # step[r]
          BY <4>2 DEF Current
        <5>2. pc'[r] = "handle"
          BY <2>2, <5>1 DEF Goes, GoesQuietly, Begins, Chains, At, StepOver, TypeOK
        <5> QED
          BY <5>2 DEF Past
      <4> QED
        BY <4>1, <4>2
    <3>3. \A d \in drafts : DraftFits(d)'
      BY <2>3, <3>1
    <3>4. \A s \in Runs \ {r} : DraftHeld(s)'
      BY <2>5, <2>8
    <3> QED
      BY <1>0, <2>8, <3>2, <3>3, <3>4
  <2> QED
    BY <2>1, <2>6, <2>7, <2>8, DraftMoves
<1> QED
  BY <1>2, <1>3, OneRunMoves
LEMMA EventTypeOf ==
    ASSUME NEW kind \in Kinds
    PROVE  /\ EventType(kind) = "human_decision" <=> kind = "require_human"
           /\ EventType(kind) = "generation" <=> kind = "generate_section"
           /\ EventType(kind) = "action_taken" <=> kind = "act"
           /\ EventType(kind) # "run_started"
BY DEF EventType

(* What becomes of the events of the run that moves: the old ones stay,    *)
(* and one may come that is the run's start or its current step's.         *)
LEMMA EventsMove ==
    ASSUME TypeOK, Placed, NEW r \in Runs, Goes(r), NEW i \in DOMAIN events'[r]
    PROVE  \/ i \in DOMAIN events[r] /\ events'[r][i] = events[r][i]
           \/ events'[r][i].kind = "run_started" /\ events'[r][i].refs = {}
           \/ /\ pc[r] = "append" /\ i = Len(events[r]) + 1 /\ StepEvent(r)
              /\ events'[r][i].kind = EventType(Current(r).kind)
              /\ events'[r][i].refs = Refs(r)
              /\ events'[r][i].docs = IF Current(r).kind = "require_human" THEN DocsOf(r) ELSE {}
              /\ \/ IF Current(r).kind = "gather" THEN At(r, "record") ELSE StepOver(r)
                 \/ At(r, "failed")
<1>1. CASE GoesQuietly(r)
  BY <1>1 DEF GoesQuietly
<1>2. CASE Begins(r)
  <2>1. events[r] = <<>>
    BY <1>2 DEF Begins, Placed
  <2>2. DOMAIN events'[r] = {1} /\ events'[r][1] = [kind |-> "run_started", refs |-> {}, docs |-> {}]
    BY <1>2, <2>1, RunStartAdded DEF Begins
  <2> QED
    BY <2>2
<1>3. CASE Chains(r)
  <2>1. StepEvent(r)
    BY <1>3 DEF Chains
  <2>2. i \in 1 .. Len(events[r]) + 1 /\ events[r] \in Seq(ChainEvents)
    BY <2>1, EventAdded
  <2>3. i \in DOMAIN events[r] \/ i = Len(events[r]) + 1
    <3> HIDE DEF ChainEvents
    <3> QED
      BY <2>2
  <2> QED
    BY <1>3, <2>1, <2>3, EventAdded DEF Chains
<1> QED
  BY <1>1, <1>2, <1>3 DEF Goes

LEMMA DecidedStep ==
    ASSUME TypeOK, Placed, Decided, [Next]_vars
    PROVE  Decided'
<1> SUFFICES ASSUME NEW s \in Runs, NEW i \in DOMAIN events'[s],
                    events'[s][i].kind = "human_decision"
             PROVE  pc'[s] \in {"halted", "failed", "dead"}
  BY DEF Decided
<1>1. CASE NoRunMoves
  BY <1>1 DEF NoRunMoves, Decided
<1>2. CASE \E r \in Runs : RunMoves(r)
  <2>1. PICK r \in Runs : RunMoves(r)
    BY <1>2
  <2>2. Frame(r) /\ Goes(r)
    BY <2>1, Framed, RunGoes
  <2>3. CASE s # r
    BY <2>2, <2>3 DEF Frame, Decided
  <2>4. CASE s = r
    <3>1. CASE i \in DOMAIN events[r] /\ events'[r][i] = events[r][i]
      <4>1. pc[r] \in {"halted", "failed", "dead"}
        BY <2>4, <3>1 DEF Decided
      <4> QED
        BY <2>2, <2>4, <4>1 DEF Goes, GoesQuietly, Begins, Chains, Live, At, TypeOK
    <3>2. CASE /\ pc[r] = "append" /\ events'[r][i].kind = EventType(Current(r).kind)
               /\ \/ IF Current(r).kind = "gather" THEN At(r, "record") ELSE StepOver(r)
                  \/ At(r, "failed")
      <4>1. Current(r).kind = "require_human"
        BY <2>4, <3>2, CurrentType, EventTypeOf
      <4> QED
        BY <2>2, <2>4, <3>2, <4>1, HumanStep
    <3> QED
      BY <2>2, <2>4, <3>1, <3>2, EventsMove
  <2> QED
    BY <2>3, <2>4
<1> QED
  BY <1>1, <1>2, OneRunMoves

DecisionNames(s, i) ==
    \E d \in drafts : /\ d.run = s /\ d.corr = CorrelationOf[s]
                      /\ d.author = AuthorOf[s] /\ d.verdict = verdict[s]
                      /\ d.docs = SectionIds(s) /\ events[s][i].docs = d.docs

LEMMA DecisionStep ==
    ASSUME TypeOK, Placed, Drafted, Decided, DecisionNamesDraft, [Next]_vars
    PROVE  DecisionNamesDraft'
<1> SUFFICES ASSUME NEW s \in Runs, NEW i \in DOMAIN events'[s],
                    events'[s][i].kind = "human_decision"
             PROVE  DecisionNames(s, i)'
  BY DEF DecisionNamesDraft, DecisionNames
<1>0. \A j \in DOMAIN events[s] : events[s][j].kind = "human_decision" => DecisionNames(s, j)
  BY DEF DecisionNamesDraft, DecisionNames
<1>1. CASE NoRunMoves
  BY <1>0, <1>1 DEF NoRunMoves, DecisionNames, SectionIds
<1>2. CASE \E r \in Runs : RunMoves(r)
  <2>1. PICK r \in Runs : RunMoves(r)
    BY <1>2
  <2>2. Frame(r) /\ Goes(r)
    BY <2>1, Framed, RunGoes
  <2>3. CASE s # r
    <3>1. \A d \in drafts : d.run = s => d \in drafts'
      BY <2>1, <2>3, DraftMoves, DocumentWritten
    <3>2. events'[s] = events[s] /\ verdict'[s] = verdict[s] /\ SectionIds(s)' = SectionIds(s)
      BY <2>2, <2>3 DEF Frame, SectionIds
    <3>3. DecisionNames(s, i)
      BY <1>0, <3>2
    <3> QED
      BY <3>1, <3>2, <3>3 DEF DecisionNames
  <2>4. CASE s = r
    <3>0. pc[r] \notin {"set", "documents", "handle"} =>
            drafts' = drafts /\ verdict'[r] = verdict[r] /\ SectionIds(r)' = SectionIds(r)
      BY <2>1, <2>2, DraftMoves DEF PersistDocument, Frame, SectionIds
    <3>1. CASE i \in DOMAIN events[r] /\ events'[r][i] = events[r][i]
      <4>1. pc[r] \in {"halted", "failed", "dead"} /\ DecisionNames(r, i)
        BY <1>0, <2>4, <3>1 DEF Decided
      <4> QED
        BY <2>4, <3>0, <3>1, <4>1 DEF DecisionNames
    <3>2. CASE /\ pc[r] = "append" /\ events'[r][i].kind = EventType(Current(r).kind)
               /\ events'[r][i].docs = IF Current(r).kind = "require_human" THEN DocsOf(r) ELSE {}
      <4>1. Current(r).kind = "require_human"
        BY <2>4, <3>2, CurrentType, EventTypeOf
      <4>2. DraftOf(r) \in drafts /\ DraftOf(r).run = r /\ DocsOf(r) = DraftOf(r).docs
        BY <3>2, <4>1, DraftThere DEF Past
      <4>3. PICK d \in drafts : d.run = r /\ DocsOf(r) = d.docs
        BY <4>2
      <4>4. /\ d.corr = CorrelationOf[r] /\ d.author = AuthorOf[r]
            /\ d.verdict = verdict[r] /\ d.docs = SectionIds(r)
        BY <3>2, <4>3 DEF Drafted, Past
      <4>5. events'[r][i].docs = d.docs
        BY <3>2, <4>1, <4>3
      <4> QED
        BY <2>4, <3>0, <3>2, <4>3, <4>4, <4>5 DEF DecisionNames
    <3> QED
      BY <2>2, <2>4, <3>1, <3>2, EventsMove
  <2> QED
    BY <2>3, <2>4
<1> QED
  BY <1>1, <1>2, OneRunMoves
-----------------------------------------------------------------------------
(* The verdict, and what forces a review.                                  *)
NewRow(r, t) ==
    /\ t.hit => t.status = "ok"
    /\ t.run = r /\ t.step = Current(r).id
    /\ step' = step /\ pc'[r] \in {"append", "failed"}

LEMMA VerdictMoves ==
    ASSUME TypeOK, NEW r \in Runs, RunMoves(r)
    PROVE  /\ verdict'[r] = "approved" =>
                verdict[r] = "approved" \/ (TrajectoryPassed(r) /\ pc[r] = "handle")
           /\ \A t \in trace' : t \in trace \/ NewRow(r, t)
<1>0. ASSUME NEW status, WriteRow(r, status), At(r, "append") \/ At(r, "failed") \/ Current(r).kind = "gather"
      PROVE  \A t \in trace' : t \in trace \/ NewRow(r, t)
  <2>1. /\ Row(r, status).status = status /\ (Row(r, status).hit = (status = "ok" /\ found[r]))
        /\ Row(r, status).run = r /\ Row(r, status).step = Current(r).id
    BY Zenon DEF Row
  <2>2. trace' = trace \/ (trace' = trace \cup {Row(r, status)} /\ Current(r).kind # "gather")
    BY <1>0 DEF WriteRow, Retrieval
  <2>3. Row(r, status).hit => Row(r, status).status = "ok"
    BY <2>1, Zenon
  <2>4. At(r, "append") \/ At(r, "failed") => step' = step /\ pc'[r] \in {"append", "failed"}
    BY DEF At, TypeOK
  <2> QED
    BY <1>0, <2>1, <2>2, <2>3, <2>4 DEF NewRow
<1>r. Record(r) => At(r, "append") \/ Current(r).kind = "gather"
  BY MovesOn DEF Record
<1>t. Throw(r) => At(r, "failed")
  BY DEF Throw, GoTo, At
<1>j. ASSUME Judge(r) PROVE verdict'[r] = "approved" => TrajectoryPassed(r) /\ pc[r] = "handle"
  <2>1. verdict \in [Runs -> {"none", "approved", "refused"}]
    BY DEF TypeOK
  <2>2. CASE ~TrajectoryPassed(r)
    <3>1. TrajectoryPassed(r) <=> FALSE
      BY <2>2
    <3>2. verdict' = [verdict EXCEPT ![r] = "refused"]
      BY <1>j, <3>1 DEF Judge
    <3> QED
      BY <2>1, <3>2
  <2>3. pc[r] = "handle"
    BY <1>j DEF Judge, AtHandler
  <2> QED
    BY <2>2, <2>3
<1> USE DEF bagVars, outsideVars
<1>1. CASE Request(r)
  BY <1>1 DEF Request, GoTo
<1>2. CASE RunStarted(r)
  BY <1>2 DEF RunStarted, Event, GoTo
<1>3. CASE Retrieve(r)
  BY <1>3 DEF Retrieve
<1>4. CASE Generate(r)
  BY <1>4 DEF Generate, PutSection, Escalate, AtHandler
<1>5. CASE Validate(r)
  BY <1>5 DEF Validate, PutSection, Escalate, AtHandler
<1>6. CASE Judge(r)
  BY <1>6, <1>j DEF Judge
<1>7. CASE GatherJoin(r)
  BY <1>7 DEF GatherJoin, AtHandler
<1>8. CASE CheckReadiness(r)
  BY <1>8 DEF CheckReadiness, AtHandler
<1>9. CASE Export(r)
  BY <1>9 DEF Export, AtHandler
<1>10. CASE ActAnswered(r)
  BY <1>10 DEF ActAnswered, Escalate, AtHandler
<1>11. CASE ActSend(r)
  BY <1>11 DEF ActSend, KeptAtSend, GoTo, AtHandler
<1>12. CASE Deliver(r)
  BY <1>12 DEF Deliver, GoTo
<1>13. CASE KeepKey(r)
  BY <1>13 DEF KeepKey
<1>14. CASE RequireHuman(r)
  BY <1>14 DEF RequireHuman, AtHandler
<1>15. CASE PersistSet(r)
  BY <1>15 DEF PersistSet, GoTo
<1>16. CASE PersistDocument(r)
  BY <1>16 DEF PersistDocument
<1>17. CASE Persisted(r)
  BY <1>17 DEF Persisted
<1>18. CASE \E i \in Inputs : StoreArtifact(r, i)
  BY <1>18 DEF StoreArtifact
<1>19. CASE Record(r)
  BY <1>0, <1>r, <1>19 DEF Record
<1>20. CASE AppendStep(r)
  BY <1>20 DEF AppendStep, StepEvent, Event, Escalate
<1>21. CASE AppendFails(r)
  BY <1>21 DEF AppendFails, StepEvent, Event, GoTo
<1>22. CASE Throw(r)
  BY <1>0, <1>t, <1>22 DEF Throw
<1> HIDE DEF bagVars, outsideVars
<1> QED
  BY <1>1, <1>2, <1>3, <1>4, <1>5, <1>6, <1>7, <1>8, <1>9, <1>10, <1>11, <1>12, <1>13, <1>14, <1>15, <1>16, <1>17, <1>18, <1>19, <1>20, <1>21, <1>22 DEF RunMoves, RunStep, Handler

(* What is chained stays so, and what was due is chained or still due.     *)
LEMMA ChainedStays ==
    ASSUME TypeOK, Placed, OneEventPerStep, NEW r \in Runs, RunMoves(r), NEW t, t.run \in Runs
    PROVE  /\ InChain(t) => InChain(t)'
           /\ DueInChain(t) => InChain(t)' \/ DueInChain(t)'
<1>1. Frame(r) /\ Goes(r)
  BY Framed, RunGoes
<1>2. CASE t.run # r
  BY <1>1, <1>2 DEF Frame, InChain, DueInChain, Current
<1>3. CASE t.run = r
  <2>1. DOMAIN events[r] \subseteq DOMAIN events'[r]
    <3>1. CASE GoesQuietly(r)
      BY <3>1 DEF GoesQuietly
    <3>2. CASE Begins(r)
      BY <3>2 DEF Begins, Placed
    <3>3. CASE Chains(r)
      BY <3>3, EventAdded DEF Chains
    <3> QED
      BY <1>1, <3>1, <3>2, <3>3 DEF Goes
  <2>2. ASSUME DueInChain(t) PROVE InChain(t)' \/ DueInChain(t)'
    <3>1. pc[r] \in {"append", "failed", "dead"} /\ Recipe[step[r]].id = t.step
      BY <1>3, <2>2 DEF DueInChain, Current
    <3>2. CASE GoesQuietly(r)
      <4>1. (pc' = pc \/ At(r, "failed")) /\ step' = step
        BY <3>1, <3>2 DEF GoesQuietly, Live, At
      <4>2. pc'[r] \in {"append", "failed", "dead"}
        BY <3>1, <4>1 DEF At, TypeOK
      <4> QED
        BY <1>3, <3>1, <4>1, <4>2 DEF DueInChain, Current
    <3>3. CASE Chains(r)
      <4>1. Len(events[r]) = step[r] + 0 /\ step[r] \in Steps
        BY <3>3, CurrentType, RecipeType DEF Chains, OneEventPerStep, Recorded
      <4>2. step[r] + 1 \in DOMAIN events'[r]
        BY <3>3, <4>1, EventAdded, CurrentType DEF Chains
      <4> QED
        BY <1>3, <3>1, <4>1, <4>2 DEF InChain
    <3>4. ~Begins(r)
      BY <3>1 DEF Begins
    <3> QED
      BY <1>1, <3>2, <3>3, <3>4 DEF Goes
  <2> QED
    BY <1>3, <2>1, <2>2 DEF InChain
<1> QED
  BY <1>2, <1>3

LEMMA VerdictStep ==
    ASSUME TypeOK, Placed, OneEventPerStep, HitsAreOk, RowsAreChained, VerdictEarned, [Next]_vars
    PROVE  HitsAreOk' /\ RowsAreChained' /\ VerdictEarned'
<1>0. \A t \in trace : t.run \in Runs
  BY DEF TypeOK, RunSteps
<1>1. CASE NoRunMoves
  <2>1. /\ trace' = trace /\ verdict' = verdict
        /\ \A t : InChain(t)' <=> InChain(t)
    BY <1>1 DEF NoRunMoves, InChain
  <2>2. \A t \in trace : DueInChain(t) => DueInChain(t)'
    BY <1>0, <1>1 DEF NoRunMoves, DueInChain, Current
  <2>3. \A s : TraceOf(s)' = TraceOf(s) /\ TraceOf(s) \subseteq trace
    BY <2>1 DEF TraceOf
  <2>4. HitsAreOk' /\ RowsAreChained'
    BY <2>1, <2>2 DEF HitsAreOk, RowsAreChained
  <2>5. VerdictEarned'
    BY <2>1, <2>2, <2>3 DEF VerdictEarned
  <2> QED
    BY <2>4, <2>5
<1>2. CASE \E r \in Runs : RunMoves(r)
  <2>1. PICK r \in Runs : RunMoves(r)
    BY <1>2
  <2>2. Frame(r)
    BY <2>1, Framed
  <2>3. HitsAreOk'
    BY <2>1, VerdictMoves DEF HitsAreOk, NewRow
  <2>4. \A t \in trace : /\ InChain(t) => InChain(t)'
                         /\ DueInChain(t) => InChain(t)' \/ DueInChain(t)'
    BY <1>0, <2>1, ChainedStays
  <2>5. RowsAreChained'
    <3>1. ASSUME NEW t \in trace', NewRow(r, t) PROVE DueInChain(t)'
      BY <3>1 DEF NewRow, DueInChain, Current
    <3> QED
      BY <2>1, <2>4, <3>1, VerdictMoves DEF RowsAreChained
  <2>6. ASSUME NEW s \in Runs, verdict'[s] = "approved"
        PROVE  /\ TraceOf(s)' # {}
               /\ \A id \in RequiredSources : \E t \in TraceOf(s)' :
                     /\ t.step = id /\ t.status = "ok" /\ (t.hit \/ t.kind = "recall_prior")
                     /\ InChain(t)' \/ (t.run # s /\ DueInChain(t)')
    <3>1. TraceOf(s) \subseteq TraceOf(s)' /\ TraceOf(s) \subseteq trace
      BY <2>2 DEF Frame, TraceOf
    <3>2. CASE verdict[s] = "approved"
      BY <2>4, <3>1, <3>2 DEF VerdictEarned
    <3>3. CASE TrajectoryPassed(s) /\ pc[s] = "handle"
      <4>1. \A t \in TraceOf(s) : t.hit => t.status = "ok"
        BY DEF TraceOf, HitsAreOk
      <4>2. TraceOf(s) # {} /\ \A id \in RequiredSources : \E t \in TraceOf(s) :
              t.step = id /\ ((t.kind = "recall_prior" /\ t.status = "ok") \/ t.hit)
        BY <3>3 DEF TrajectoryPassed, Consulted
      <4>3. \A t \in TraceOf(s) : InChain(t) \/ (t.run # s /\ DueInChain(t))
        BY <3>1, <3>3 DEF RowsAreChained, DueInChain
      <4> QED
        BY <2>4, <3>1, <4>1, <4>2, <4>3
    <3> QED
      BY <2>1, <2>2, <2>6, <3>2, <3>3, VerdictMoves DEF Frame
  <2> QED
    BY <2>3, <2>5, <2>6 DEF VerdictEarned
<1> QED
  BY <1>1, <1>2, OneRunMoves

(* What a step leaves that calls for a review has called for it.           *)
LEMMA ReviewMoves ==
    ASSUME TypeOK, Placed, NEW r \in Runs, RunMoves(r)
    PROVE  /\ review[r] => review'[r]
           /\ verdict'[r] = "refused" => verdict[r] = "refused" \/ review'[r]
           /\ \A s \in sections'[r] : s.content = "defects" => s \in sections[r] \/ review'[r]
           /\ pc'[r] = "not_ready" => review'[r]
           /\ pc'[r] \in Past /\ pc[r] \notin Past /\ Current(r).kind = "act" /\ Gated(r) => review'[r]
<1>0. pc \in [Runs -> Phases] /\ review \in [Runs -> BOOLEAN] /\ sections \in [Runs -> SUBSET Sections]
      /\ verdict \in [Runs -> {"none", "approved", "refused"}]
  BY DEF TypeOK, Phases
<1>p. ASSUME NEW content, PutSection(r, content)
      PROVE  /\ review[r] => review'[r]
             /\ \A s \in sections'[r] : s.content = "defects" => s \in sections[r] \/ review'[r]
  <2>1. review[r] \/ content = "defects" => review'[r]
    BY <1>0, <1>p, Zenon DEF PutSection, Escalate, Defective
  <2>2. sections'[r] = sections[r] \cup {[id |-> Current(r).id, section |-> Current(r).section,
                                          content |-> content]}
    BY <1>0, <1>p DEF PutSection
  <2>3. ASSUME NEW s \in sections'[r], s.content = "defects"
        PROVE  s \in sections[r] \/ content = "defects"
    BY <2>2, <2>3
  <2> QED
    BY <2>1, <2>3
<1>j. ASSUME Judge(r)
      PROVE  (review[r] => review'[r]) /\ (verdict'[r] = "refused" => review'[r])
  BY <1>0, <1>j DEF Judge, Escalate
<1>a. Goes(r)
  BY RunGoes
<1>b. \/ pc'[r] # "not_ready"
      \/ pc[r] = "not_ready"
      \/ pc[r] \in {"record", "append"} /\ Outcome(r) = "not_ready"
  <2>1. \A phase : At(r, phase) => pc'[r] = phase
    BY <1>0 DEF At
  <2>2. StepOver(r) => pc'[r] = Outcome(r)
    BY <1>0 DEF StepOver
  <2>3. AfterHandler(Current(r).kind) # "not_ready"
    BY DEF AfterHandler
  <2> QED
    BY <1>a, <2>1, <2>2, <2>3 DEF Goes, GoesQuietly, Begins, Chains
<1>c. Outcome(r) = "not_ready" => Current(r).kind = "check_readiness"
  BY DEF Outcome
<1>d. pc[r] = "record" /\ Outcome(r) = "not_ready" => pc'[r] # "not_ready"
  <2> SUFFICES ASSUME pc[r] = "record", Current(r).kind = "check_readiness"
               PROVE  pc'[r] # "not_ready"
    BY <1>c
  <2> QED
    BY <1>0, <1>a DEF Goes, GoesQuietly, Begins, Chains, At
<1>e. pc[r] = "not_ready" => FALSE
  BY <1>a DEF Goes, GoesQuietly, Begins, Chains, Live
<1>f. pc'[r] = "not_ready" => pc[r] = "append" /\ Outcome(r) = "not_ready"
  BY <1>b, <1>d, <1>e
<1>g. pc'[r] \in Past /\ pc[r] \notin Past =>
         pc[r] \in {"handle", "delivered", "documents"}
  <2>1. \A phase : At(r, phase) => pc'[r] = phase
    BY <1>0 DEF At
  <2> QED
    BY <1>0, <1>a, <2>1 DEF Goes, GoesQuietly, Begins, Chains, Past
<1>h. pc[r] \in {"delivered", "documents"} => ~(Current(r).kind = "act" /\ Gated(r))
  BY DEF Placed
<1>k. ASSUME NEW b \in BOOLEAN, Escalate(r, b) PROVE (review[r] \/ b) => review'[r]
  BY <1>0, <1>k DEF Escalate
<1>l. pc'[r] = "not_ready" => AppendStep(r) \/ AppendFails(r)
  BY <1>f DEF RunMoves, RunStep, Handler, Request, RunStarted, Retrieve, Generate, Validate, Judge,
              GatherJoin, CheckReadiness, Export, ActAnswered, ActSend, Deliver, KeepKey,
              RequireHuman, PersistSet, PersistDocument, Persisted, StoreArtifact, Record, Throw,
              AtHandler
<1>m. AppendFails(r) => pc'[r] # "not_ready"
  BY <1>0 DEF AppendFails, GoTo
<1>n. pc'[r] = "not_ready" => review'[r]
  BY <1>f, <1>k, <1>l, <1>m DEF AppendStep
<1>o. pc'[r] \in Past /\ pc[r] \notin Past /\ Current(r).kind = "act" /\ Gated(r) => ActAnswered(r)
  <2> SUFFICES ASSUME pc'[r] \in Past, pc[r] = "handle", Current(r).kind = "act"
               PROVE  ActAnswered(r)
    BY <1>g, <1>h
  <2>1. ActAnswered(r) \/ ActSend(r) \/ Throw(r)
    BY DEF RunMoves, RunStep, Handler, Request, RunStarted, Retrieve, Generate, Validate, Judge,
           GatherJoin, CheckReadiness, Export, Deliver, KeepKey, RequireHuman, PersistSet,
           PersistDocument, Persisted, StoreArtifact, Record, AppendStep, AppendFails, AtHandler,
           Retrieval
  <2>2. ActSend(r) \/ Throw(r) => pc'[r] \in {"delivering", "failed"}
    BY <1>0 DEF ActSend, Throw, GoTo
  <2> QED
    BY <2>1, <2>2 DEF Past
<1>q. ActAnswered(r) => (Gated(r) => review'[r]) /\ (review[r] => review'[r])
  <2>1. Gated(r) \in BOOLEAN
    BY DEF Gated
  <2> QED
    BY <1>k, <2>1 DEF ActAnswered
<1>r. AppendStep(r) => (review[r] => review'[r])
  BY <1>k DEF AppendStep
<1>s. /\ review[r] => review'[r]
      /\ verdict'[r] = "refused" => verdict[r] = "refused" \/ review'[r]
      /\ \A s \in sections'[r] : s.content = "defects" => s \in sections[r] \/ review'[r]
  <2> USE DEF bagVars, outsideVars
  <2>1. CASE Request(r)
    BY <2>1 DEF Request, GoTo
  <2>2. CASE RunStarted(r)
    BY <2>2 DEF RunStarted, Event, GoTo
  <2>3. CASE Retrieve(r)
    BY <2>3 DEF Retrieve
  <2>4. CASE Generate(r)
    BY <2>4, <1>p DEF Generate
  <2>5. CASE Validate(r)
    BY <2>5, <1>p DEF Validate
  <2>6. CASE Judge(r)
    BY <2>6, <1>j DEF Judge
  <2>7. CASE GatherJoin(r)
    BY <2>7 DEF GatherJoin, AtHandler
  <2>8. CASE CheckReadiness(r)
    BY <2>8 DEF CheckReadiness, AtHandler
  <2>9. CASE Export(r)
    BY <2>9 DEF Export, AtHandler
  <2>10. CASE ActAnswered(r)
    BY <2>10, <1>q DEF ActAnswered
  <2>11. CASE ActSend(r)
    BY <2>11 DEF ActSend, KeptAtSend, GoTo, AtHandler
  <2>12. CASE Deliver(r)
    BY <2>12 DEF Deliver, GoTo
  <2>13. CASE KeepKey(r)
    BY <2>13 DEF KeepKey
  <2>14. CASE RequireHuman(r)
    BY <2>14 DEF RequireHuman, AtHandler
  <2>15. CASE PersistSet(r)
    BY <2>15 DEF PersistSet, GoTo
  <2>16. CASE PersistDocument(r)
    BY <2>16 DEF PersistDocument
  <2>17. CASE Persisted(r)
    BY <2>17 DEF Persisted
  <2>18. CASE \E i \in Inputs : StoreArtifact(r, i)
    BY <2>18 DEF StoreArtifact
  <2>19. CASE Record(r)
    BY <2>19 DEF Record, WriteRow
  <2>20. CASE AppendStep(r)
    BY <2>20, <1>r DEF AppendStep
  <2>21. CASE AppendFails(r)
    BY <2>21 DEF AppendFails, StepEvent, Event, GoTo
  <2>22. CASE Throw(r)
    BY <2>22 DEF Throw, WriteRow, GoTo
  <2> HIDE DEF bagVars, outsideVars
  <2> QED
    BY <2>1, <2>2, <2>3, <2>4, <2>5, <2>6, <2>7, <2>8, <2>9, <2>10, <2>11, <2>12, <2>13, <2>14, <2>15, <2>16, <2>17, <2>18, <2>19, <2>20, <2>21, <2>22 DEF RunMoves, RunStep, Handler
<1> QED
  BY <1>n, <1>o, <1>q, <1>s
Forced(s) ==
    /\ verdict[s] = "refused" => review[s]
    /\ \A t \in sections[s] : t.content = "defects" => review[s]
    /\ pc[s] = "not_ready" => review[s]
    /\ Current(s).kind = "act" /\ pc[s] \in Past /\ Gated(s) => review[s]
    /\ Gated(s) /\ (\E i \in DOMAIN events[s] : events[s][i].kind = "action_taken") => review[s]

LEMMA ReviewStep ==
    ASSUME TypeOK, Placed, ReviewForced, [Next]_vars
    PROVE  ReviewForced'
<1>0. (ReviewForced <=> \A s \in Runs : Forced(s)) /\ (ReviewForced' <=> \A s \in Runs : Forced(s)')
  BY DEF ReviewForced, Forced
<1>1. CASE NoRunMoves
  BY <1>0, <1>1 DEF NoRunMoves, Forced, Past, Current, Gated, Live
<1>2. CASE \E r \in Runs : RunMoves(r)
  <2>1. PICK r \in Runs : RunMoves(r)
    BY <1>2
  <2>2. Frame(r) /\ Goes(r)
    BY <2>1, Framed, RunGoes
  <2>3. ASSUME NEW s \in Runs \ {r} PROVE Forced(s)'
    BY <1>0, <2>2, <2>3 DEF Frame, Forced, Current, Gated
  <2>4. Forced(r)'
    <3>0. pc \in [Runs -> Phases] /\ step \in [Runs -> Steps]
      BY DEF TypeOK, Phases
    <3>1. Forced(r)
      BY <1>0
    <3>2. pc'[r] \in Past => Current(r)' = Current(r)
      <4>1. step'[r] = step[r] \/ pc'[r] = "handle"
        BY <2>2, <3>0 DEF Goes, GoesQuietly, Begins, Chains, At, StepOver
      <4> QED
        BY <4>1 DEF Past, Current
    <3>3. pc[r] # "new" => (Gated(r)' <=> Gated(r))
      BY <2>2 DEF Frame, Gated
    <3>4. pc[r] = "new" => pc'[r] \notin Past /\ events'[r] = <<>>
      BY <2>2, <3>0 DEF Goes, GoesQuietly, Begins, Chains, At, Past, Placed, Live
    <3>5. (verdict'[r] = "refused" => review'[r])
          /\ (\A t \in sections'[r] : t.content = "defects" => review'[r])
          /\ (pc'[r] = "not_ready" => review'[r])
      BY <2>1, <3>1, ReviewMoves DEF Forced
    <3>6. Current(r)'.kind = "act" /\ pc'[r] \in Past /\ Gated(r)' => review'[r]
      BY <2>1, <3>1, <3>2, <3>3, <3>4, ReviewMoves DEF Forced
    <3>7. ASSUME Gated(r)', NEW i \in DOMAIN events'[r], events'[r][i].kind = "action_taken"
          PROVE  review'[r]
      <4>1. pc[r] # "new" /\ Gated(r)
        BY <3>3, <3>4, <3>7
      <4>2. CASE i \in DOMAIN events[r] /\ events'[r][i] = events[r][i]
        BY <2>1, <3>1, <3>7, <4>1, <4>2, ReviewMoves DEF Forced
      <4>3. CASE pc[r] = "append" /\ events'[r][i].kind = EventType(Current(r).kind)
        <5>1. Current(r).kind = "act"
          BY <3>7, <4>3, CurrentType, EventTypeOf
        <5> QED
          BY <2>1, <3>1, <4>1, <4>3, <5>1, ReviewMoves DEF Forced, Past
      <4> QED
        BY <2>2, <3>7, <4>2, <4>3, EventsMove
    <3> QED
      BY <3>5, <3>6, <3>7 DEF Forced
  <2> QED
    BY <1>0, <2>3, <2>4
<1> QED
  BY <1>1, <1>2, OneRunMoves

LEMMA ForcedIsFailure ==
    ASSUME ReviewForced
    PROVE  FailureForcesReview
BY DEF ReviewForced, FailureForcesReview, MustReview

-----------------------------------------------------------------------------
(* What is gathered, stored, and used.                                     *)
LEMMA StoreMoves ==
    ASSUME TypeOK, NEW r \in Runs, RunMoves(r)
    PROVE  /\ gathered[r] \subseteq gathered'[r]
           /\ \A g \in gathered'[r] : g \in gathered[r] \/ Artifact(r, g.input) \in artifacts'
           /\ pc[r] \notin {"handle", "failed"} => gathered'[r] = gathered[r]
           /\ pc'[r] \in Past /\ pc[r] \notin Past =>
                /\ Current(r).kind = "gather" /\ pc[r] = "handle" => AllStored(r)
                /\ Current(r).kind = "export" /\ pc[r] = "handle" => Artifact(r, Current(r).id) \in artifacts'
<1>0. pc \in [Runs -> Phases]
      /\ gathered \in [Runs -> SUBSET [input : Inputs, value : {"ok", "null", "out_of_range"}]]
  BY DEF TypeOK, Phases
<1> USE DEF bagVars, outsideVars, Past
<1>1. CASE Request(r)
  BY <1>0, <1>1 DEF Request, GoTo
<1>2. CASE RunStarted(r)
  BY <1>0, <1>2 DEF RunStarted, Event, GoTo
<1>3. CASE Retrieve(r)
  BY <1>0, <1>3 DEF Retrieve, Retrieval
<1>4. CASE Generate(r)
  BY <1>0, <1>4 DEF Generate, PutSection, Escalate, AtHandler
<1>5. CASE Validate(r)
  BY <1>0, <1>5 DEF Validate, PutSection, Escalate, AtHandler
<1>6. CASE Judge(r)
  BY <1>0, <1>6 DEF Judge, Escalate, AtHandler
<1>7. CASE GatherJoin(r)
  BY <1>0, <1>7 DEF GatherJoin, AtHandler
<1>8. CASE CheckReadiness(r)
  BY <1>0, <1>8 DEF CheckReadiness, AtHandler
<1>9. CASE Export(r)
  BY <1>0, <1>9 DEF Export, AtHandler
<1>10. CASE ActAnswered(r)
  BY <1>0, <1>10 DEF ActAnswered, Escalate, AtHandler
<1>11. CASE ActSend(r)
  BY <1>0, <1>11 DEF ActSend, KeptAtSend, GoTo, AtHandler
<1>12. CASE Deliver(r)
  BY <1>0, <1>12 DEF Deliver, GoTo
<1>13. CASE KeepKey(r)
  BY <1>0, <1>13 DEF KeepKey
<1>14. CASE RequireHuman(r)
  BY <1>0, <1>14 DEF RequireHuman, AtHandler
<1>15. CASE PersistSet(r)
  BY <1>0, <1>15 DEF PersistSet, GoTo
<1>16. CASE PersistDocument(r)
  BY <1>0, <1>16 DEF PersistDocument
<1>17. CASE Persisted(r)
  BY <1>0, <1>17 DEF Persisted
<1>18. CASE \E i \in Inputs : StoreArtifact(r, i)
  BY <1>0, <1>18 DEF StoreArtifact
<1>19. CASE Record(r)
  BY <1>0, <1>19 DEF Record, WriteRow
<1>20. CASE AppendStep(r)
  BY <1>0, <1>20 DEF AppendStep, StepEvent, Event, Escalate
<1>21. CASE AppendFails(r)
  BY <1>0, <1>21 DEF AppendFails, StepEvent, Event, GoTo
<1>22. CASE Throw(r)
  BY <1>0, <1>22 DEF Throw, WriteRow, GoTo
<1> HIDE DEF bagVars, outsideVars, Past
<1> QED
  BY <1>1, <1>2, <1>3, <1>4, <1>5, <1>6, <1>7, <1>8, <1>9, <1>10, <1>11, <1>12, <1>13, <1>14, <1>15, <1>16, <1>17, <1>18, <1>19, <1>20, <1>21, <1>22 DEF RunMoves, RunStep, Handler
Held(s) ==
    /\ \A g \in gathered[s] : Artifact(s, g.input) \in artifacts
    /\ Current(s).kind = "gather" /\ pc[s] \in Past => AllStored(s)
    /\ Current(s).kind = "export" /\ pc[s] \in Past => Artifact(s, Current(s).id) \in artifacts
    /\ \A i \in DOMAIN events[s] : events[s][i].refs \subseteq artifacts

(* Past its handler, the step of a run is the one it was.                  *)
LEMMA PastStaysAtStep ==
    ASSUME TypeOK, Placed, NEW r \in Runs, Goes(r), pc'[r] \in Past
    PROVE  /\ Current(r)' = Current(r)
           /\ pc[r] \in Past \cup {"handle", "delivered", "documents"}
           /\ pc[r] = "delivered" => Current(r).kind = "act"
           /\ pc[r] = "documents" => Current(r).kind = "require_human"
<1>0. pc \in [Runs -> Phases] /\ step \in [Runs -> Steps]
  BY DEF TypeOK, Phases
<1>1. step'[r] = step[r] \/ pc'[r] = "handle"
  BY <1>0 DEF Goes, GoesQuietly, Begins, Chains, At, StepOver
<1>2. Current(r)' = Current(r)
  BY <1>1 DEF Past, Current
<1>3. \A phase : At(r, phase) => pc'[r] = phase
  BY <1>0 DEF At
<1>4. pc[r] \in Past \cup {"handle", "delivered", "documents"}
  BY <1>0, <1>3 DEF Goes, GoesQuietly, Begins, Chains, Past
<1> QED
  BY <1>2, <1>4 DEF Placed

LEMMA RefsAreStored ==
    ASSUME TypeOK, NEW r \in Runs, Held(r), pc[r] = "append"
    PROVE  Refs(r) \subseteq artifacts
<1>1. Consumed(r) \subseteq artifacts
  BY DEF Held, Consumed
<1>2. Current(r).kind = "gather" => {Artifact(r, i) : i \in Current(r).requests} \subseteq artifacts
  BY DEF Held, AllStored, Past
<1>3. Current(r).kind = "export" => Artifact(r, Current(r).id) \in artifacts
  BY DEF Held, Past
<1> QED
  BY <1>1, <1>2, <1>3 DEF Refs

LEMMA StoredStep ==
    ASSUME TypeOK, Placed, Stored, [Next]_vars
    PROVE  Stored'
<1>0. (Stored <=> \A s \in Runs : Held(s)) /\ (Stored' <=> \A s \in Runs : Held(s)')
  BY DEF Stored, Held
<1>1. CASE NoRunMoves
  <2> SUFFICES ASSUME NEW s \in Runs PROVE Held(s)'
    BY <1>0
  <2>1. Held(s) /\ (pc'[s] \in Past => pc[s] = pc'[s]) /\ Current(s)' = Current(s)
    BY <1>0, <1>1 DEF NoRunMoves, Past, Current
  <2>2. AllStored(s)' <=> AllStored(s)
    BY <1>1, <2>1 DEF NoRunMoves, AllStored, Artifact
  <2>3. events' = events /\ gathered' = gathered /\ artifacts' = artifacts
    BY <1>1 DEF NoRunMoves
  <2>4. \A w : Artifact(s, w)' = Artifact(s, w)
    BY DEF Artifact
  <2> QED
    BY <2>1, <2>2, <2>3, <2>4 DEF Held, Artifact
<1>2. CASE \E r \in Runs : RunMoves(r)
  <2>1. PICK r \in Runs : RunMoves(r)
    BY <1>2
  <2>2. Frame(r) /\ Goes(r) /\ artifacts \subseteq artifacts'
    BY <2>1, Framed, RunGoes DEF Frame
  <2>3. ASSUME NEW s \in Runs \ {r} PROVE Held(s)'
    <3>1. Held(s)
      BY <1>0
    <3>2. /\ Current(s)' = Current(s) /\ pc'[s] = pc[s] /\ events'[s] = events[s]
          /\ gathered'[s] = gathered[s]
      BY <2>2, <2>3 DEF Frame, Current
    <3>3. AllStored(s) => AllStored(s)'
      BY <2>2, <3>2 DEF AllStored, Artifact
    <3>4. \A i \in DOMAIN events'[s] : events'[s][i].refs \subseteq artifacts'
      BY <2>2, <3>1, <3>2 DEF Held
    <3> QED
      BY <2>2, <3>1, <3>2, <3>3, <3>4 DEF Held, Artifact
  <2>4. Held(r)'
    <3>1. Held(r)
      BY <1>0
    <3>2. \A g \in gathered'[r] : Artifact(r, g.input) \in artifacts'
      BY <2>1, <2>2, <3>1, StoreMoves DEF Held
    <3>3. ASSUME pc'[r] \in Past
          PROVE  /\ Current(r)'.kind = "gather" => AllStored(r)'
                 /\ Current(r)'.kind = "export" => Artifact(r, Current(r)'.id) \in artifacts'
      <4>1. /\ Current(r)' = Current(r) /\ pc[r] \in Past \cup {"handle", "delivered", "documents"}
            /\ pc[r] = "delivered" => Current(r).kind = "act"
            /\ pc[r] = "documents" => Current(r).kind = "require_human"
        BY <2>2, <3>3, PastStaysAtStep
      <4>2. AllStored(r) => AllStored(r)'
        BY <2>2, <4>1 DEF AllStored, Artifact
      <4> QED
        BY <2>1, <2>2, <3>1, <3>3, <4>1, <4>2, StoreMoves DEF Held
    <3>4. ASSUME NEW i \in DOMAIN events'[r] PROVE events'[r][i].refs \subseteq artifacts'
      <4>1. CASE i \in DOMAIN events[r] /\ events'[r][i] = events[r][i]
        BY <2>2, <3>1, <4>1 DEF Held
      <4>2. CASE pc[r] = "append" /\ events'[r][i].refs = Refs(r)
        BY <2>2, <3>1, <4>2, RefsAreStored
      <4> QED
        BY <2>2, <4>1, <4>2, EventsMove
    <3> QED
      BY <3>2, <3>3, <3>4 DEF Held, Artifact
  <2> QED
    BY <1>0, <2>3, <2>4
<1> QED
  BY <1>1, <1>2, OneRunMoves

(* Ready, every required input has a usable value.                         *)
LEMMA ReadyIsUsable ==
    ASSUME TypeOK, NEW r \in Runs, Ready(r), NEW n \in RequiredInputs
    PROVE  [input |-> n, value |-> "ok"] \in gathered[r]
<1>1. gathered[r] \subseteq [input : Inputs, value : {"ok", "null", "out_of_range"}]
  BY DEF TypeOK
<1>2. PICK g \in gathered[r] : g.input = n /\ g.value # "null"
  BY DEF Ready
<1>3. g.value # "out_of_range"
  BY DEF Ready
<1>4. g \in [input : Inputs, value : {"ok", "null", "out_of_range"}]
  BY <1>1
<1>5. g.value = "ok"
  BY <1>2, <1>3, <1>4
<1>6. g = [input |-> g.input, value |-> g.value]
  BY <1>4
<1> QED
  BY <1>2, <1>5, <1>6

Usable(s) == \A n \in RequiredInputs : [input |-> n, value |-> "ok"] \in gathered[s]

LEMMA GateStep ==
    ASSUME TypeOK, PastGate, [Next]_vars
    PROVE  PastGate'
<1>0. (PastGate <=> \A s \in Runs : \A j \in 1 .. step[s] - 1 :
                       Recipe[j].kind = "check_readiness" => Usable(s))
      /\ (PastGate' <=> \A s \in Runs : \A j \in 1 .. step'[s] - 1 :
                       Recipe[j].kind = "check_readiness" => Usable(s)')
  BY DEF PastGate, Usable
<1>1. CASE NoRunMoves
  BY <1>0, <1>1 DEF NoRunMoves, Usable
<1>2. CASE \E r \in Runs : RunMoves(r)
  <2>1. PICK r \in Runs : RunMoves(r)
    BY <1>2
  <2>2. Frame(r) /\ Goes(r)
    BY <2>1, Framed, RunGoes
  <2>3. \A s \in Runs : Usable(s) => Usable(s)'
    BY <2>1, <2>2, StoreMoves DEF Usable, Frame
  <2>4. \A s \in Runs \ {r} : step'[s] = step[s]
    BY <2>2 DEF Frame
  <2>5. \/ step'[r] = step[r]
        \/ step'[r] = step[r] + 1 /\ (Current(r).kind = "check_readiness" => Ready(r))
    BY <2>2 DEF Goes, GoesQuietly, Begins, Chains, At, StepOver, TypeOK
  <2>6. ASSUME NEW j \in 1 .. step'[r] - 1, Recipe[j].kind = "check_readiness" PROVE Usable(r)
    <3>1. step[r] \in Nat
      BY CurrentType
    <3>2. j \in 1 .. step[r] - 1 \/ (j = step[r] /\ (Current(r).kind = "check_readiness" => Ready(r)))
      BY <2>5, <3>1
    <3>3. Ready(r) => Usable(r)
      BY ReadyIsUsable DEF Usable
    <3> QED
      BY <1>0, <2>6, <3>2, <3>3 DEF Current
  <2> QED
    BY <1>0, <2>3, <2>4, <2>6
<1> QED
  BY <1>1, <1>2, OneRunMoves

(* The recipe of a document type with required inputs checks them before   *)
(* it generates.                                                           *)
GatedRecipe ==
    RequiredInputs # {} =>
       \A i \in Steps : Recipe[i].kind = "generate_section" =>
          \E j \in 1 .. i - 1 : Recipe[j].kind = "check_readiness"

Supplied(s, i) == \A n \in RequiredInputs : /\ Artifact(s, n) \in events[s][i].refs
                                            /\ [input |-> n, value |-> "ok"] \in gathered[s]

LEMMA SupplyStep ==
    ASSUME TypeOK, Placed, PastGate, GatedRecipe, GenerationIsSupplied, [Next]_vars
    PROVE  GenerationIsSupplied'
<1> SUFFICES ASSUME NEW s \in Runs, NEW i \in DOMAIN events'[s], events'[s][i].kind = "generation"
             PROVE  Supplied(s, i)'
  BY DEF GenerationIsSupplied, Supplied
<1>0. \A j \in DOMAIN events[s] : events[s][j].kind = "generation" => Supplied(s, j)
  BY DEF GenerationIsSupplied, Supplied
<1>1. CASE NoRunMoves
  BY <1>0, <1>1 DEF NoRunMoves, Supplied, Artifact
<1>2. CASE \E r \in Runs : RunMoves(r)
  <2>1. PICK r \in Runs : RunMoves(r)
    BY <1>2
  <2>2. Frame(r) /\ Goes(r) /\ gathered[s] \subseteq gathered'[s]
    BY <2>1, Framed, RunGoes, StoreMoves DEF Frame
  <2>3. CASE i \in DOMAIN events[s] /\ events'[s][i] = events[s][i]
    BY <1>0, <2>2, <2>3 DEF Supplied, Artifact
  <2>4. CASE s = r /\ events'[s][i].kind = EventType(Current(r).kind) /\ events'[s][i].refs = Refs(r)
    <3>1. Current(r).kind = "generate_section"
      BY <2>4, CurrentType, EventTypeOf
    <3>2. events'[r][i].refs = Consumed(r)
      BY <2>4, <3>1 DEF Refs
    <3>3. RequiredInputs # {} => \E j \in 1 .. step[r] - 1 : Recipe[j].kind = "check_readiness"
      BY <3>1 DEF GatedRecipe, TypeOK, Current
    <3>4. \A n \in RequiredInputs : [input |-> n, value |-> "ok"] \in gathered[r]
      BY <3>3 DEF PastGate
    <3>5. \A n \in RequiredInputs : Artifact(r, n) \in Consumed(r)
      <4> DEFINE g(n) == [input |-> n, value |-> "ok"]
      <4>1. \A n \in RequiredInputs : g(n) \in gathered[r] /\ g(n).input = n
        BY <3>4
      <4> HIDE DEF g
      <4> QED
        BY <4>1 DEF Consumed
    <3> QED
      BY <2>2, <2>4, <3>2, <3>4, <3>5 DEF Supplied, Artifact
  <2> QED
    BY <2>2, <2>3, <2>4, EventsMove DEF Frame
<1> QED
  BY <1>1, <1>2, OneRunMoves
-----------------------------------------------------------------------------
(* The actioner's deliveries.                                              *)
Delivery(r) == [key |-> Key(r), run |-> r]
NotSending == {"new", "started", "handle", "delivering"}

LEMMA SendMoves ==
    ASSUME TypeOK, NEW r \in Runs, RunMoves(r)
    PROVE  /\ \/ outbox' = outbox /\ (pc'[r] = "delivered" => FALSE)
              \/ /\ outbox' = Append(outbox, Delivery(r)) /\ pc[r] = "delivering"
                 /\ pc'[r] \in {"delivered", "failed"} /\ step' = step
           /\ seen' = seen \/ (seen' = seen \cup {Key(r)} /\ pc[r] = "delivered")
           /\ pc[r] = "delivered" => Key(r) \in seen'
           /\ pc[r] = "handle" /\ Current(r).kind = "act" /\ pc'[r] \in Past =>
                Gated(r) \/ Key(r) \in seen
<1>0. pc \in [Runs -> Phases] /\ \A phase : At(r, phase) => pc'[r] = phase
  BY DEF TypeOK, Phases, At
<1>1. MoveOn(r) /\ pc[r] \in {"handle", "delivered"} => pc'[r] \in {"append", "record", "set"}
  BY <1>0, MovesOn DEF AfterHandler
<1>2. MoveOn(r) /\ pc[r] \in {"documents", "record", "append"} => pc'[r] # "delivered"
  <2>1. StepOver(r) => pc'[r] # "delivered"
    BY <1>0 DEF StepOver, Stopped
  <2> QED
    BY <1>0, <2>1, MovesOn
<1> USE DEF outsideVars, Past
<1>3. CASE Request(r)
  BY <1>0, <1>1, <1>2, <1>3 DEF Request, GoTo
<1>4. CASE RunStarted(r)
  BY <1>0, <1>1, <1>2, <1>4 DEF RunStarted, Event, GoTo
<1>5. CASE Retrieve(r)
  BY <1>0, <1>1, <1>2, <1>5 DEF Retrieve, Retrieval
<1>6. CASE Generate(r)
  BY <1>0, <1>1, <1>2, <1>6 DEF Generate, PutSection, Escalate, AtHandler
<1>7. CASE Validate(r)
  BY <1>0, <1>1, <1>2, <1>7 DEF Validate, PutSection, Escalate, AtHandler
<1>8. CASE Judge(r)
  BY <1>0, <1>1, <1>2, <1>8 DEF Judge, Escalate, AtHandler
<1>9. CASE GatherJoin(r)
  BY <1>0, <1>1, <1>2, <1>9 DEF GatherJoin, AtHandler
<1>10. CASE CheckReadiness(r)
  BY <1>0, <1>1, <1>2, <1>10 DEF CheckReadiness, AtHandler
<1>11. CASE Export(r)
  BY <1>0, <1>1, <1>2, <1>11 DEF Export, AtHandler
<1>12. CASE ActAnswered(r)
  BY <1>0, <1>1, <1>2, <1>12 DEF ActAnswered, Escalate, AtHandler
<1>13. CASE ActSend(r)
  BY <1>0, <1>1, <1>2, <1>13 DEF ActSend, KeptAtSend, GoTo, AtHandler
<1>14. CASE Deliver(r)
  BY <1>0, <1>1, <1>2, <1>14 DEF Deliver, GoTo, Delivery
<1>15. CASE KeepKey(r)
  BY <1>0, <1>1, <1>2, <1>15 DEF KeepKey
<1>16. CASE RequireHuman(r)
  BY <1>0, <1>1, <1>2, <1>16 DEF RequireHuman, AtHandler
<1>17. CASE PersistSet(r)
  BY <1>0, <1>1, <1>2, <1>17 DEF PersistSet, GoTo
<1>18. CASE PersistDocument(r)
  BY <1>0, <1>1, <1>2, <1>18 DEF PersistDocument
<1>19. CASE Persisted(r)
  BY <1>0, <1>1, <1>2, <1>19 DEF Persisted
<1>20. CASE \E i \in Inputs : StoreArtifact(r, i)
  BY <1>0, <1>1, <1>2, <1>20 DEF StoreArtifact
<1>21. CASE Record(r)
  BY <1>0, <1>1, <1>2, <1>21 DEF Record, WriteRow
<1>22. CASE AppendStep(r)
  BY <1>0, <1>1, <1>2, <1>22 DEF AppendStep, StepEvent, Event, Escalate
<1>23. CASE AppendFails(r)
  BY <1>0, <1>1, <1>2, <1>23 DEF AppendFails, StepEvent, Event, GoTo
<1>24. CASE Throw(r)
  BY <1>0, <1>1, <1>2, <1>24 DEF Throw, WriteRow, GoTo
<1> HIDE DEF outsideVars, Past
<1> QED
  BY <1>3, <1>4, <1>5, <1>6, <1>7, <1>8, <1>9, <1>10, <1>11, <1>12, <1>13, <1>14, <1>15, <1>16, <1>17, <1>18, <1>19, <1>20, <1>21, <1>22, <1>23, <1>24 DEF RunMoves, RunStep, Handler
SentHere(s) == pc[s] = "delivered" \/ (Current(s).kind = "act" /\ pc[s] \in Past /\ ~Gated(s))
Reached(d) ==
    \E j \in 1 .. step[d.run] :
        /\ d.key = <<CorrelationOf[d.run], Recipe[j].id>>
        /\ j = step[d.run] => pc[d.run] \notin NotSending

(* Deliveries only come, at the end.                                       *)
LEMMA OutboxGrows ==
    ASSUME TypeOK, outbox \in Seq(Deliveries), NEW r \in Runs,
           outbox' = outbox \/ outbox' = Append(outbox, Delivery(r))
    PROVE  /\ \A n \in DOMAIN outbox : n \in DOMAIN outbox' /\ outbox'[n] = outbox[n]
           /\ \A n \in DOMAIN outbox' : n \in DOMAIN outbox \/ (n = Len(outbox) + 1 /\ outbox'[n] = Delivery(r))
           /\ outbox' = Append(outbox, Delivery(r)) =>
                Len(outbox) + 1 \in DOMAIN outbox' /\ outbox'[Len(outbox) + 1] = Delivery(r)
           /\ Len(outbox) + 1 \notin DOMAIN outbox
           /\ \A key : SentFor(key) => SentFor(key)'
<1>1. Delivery(r) \in Deliveries /\ Append(outbox, Delivery(r)) \in Seq(Deliveries)
  BY SendType DEF Delivery
<1>2. PICK d \in Deliveries : d = Delivery(r)
  BY <1>1
<1> HIDE DEF Deliveries
<1>3. /\ Len(Append(outbox, d)) = Len(outbox) + 1 /\ Len(outbox) \in Nat
      /\ DOMAIN outbox = 1 .. Len(outbox) /\ DOMAIN Append(outbox, d) = 1 .. Len(outbox) + 1
      /\ \A n \in 1 .. Len(outbox) : Append(outbox, d)[n] = outbox[n]
      /\ Append(outbox, d)[Len(outbox) + 1] = d
  BY <1>2
<1>4. \A n \in DOMAIN outbox : n \in DOMAIN outbox' /\ outbox'[n] = outbox[n]
  BY <1>2, <1>3
<1>5. \A n \in DOMAIN outbox' : n \in DOMAIN outbox \/ (n = Len(outbox) + 1 /\ outbox'[n] = Delivery(r))
  BY <1>2, <1>3
<1>6. \A key : SentFor(key) => SentFor(key)'
  BY <1>4 DEF SentFor
<1> QED
  BY <1>2, <1>3, <1>4, <1>5, <1>6

LEMMA DeliveredStep ==
    ASSUME TypeOK, Placed, Delivered, [Next]_vars
    PROVE  /\ \A key \in seen' : SentFor(key)'
           /\ \A s \in Runs : SentHere(s)' => SentFor(Key(s))'
           /\ \A n \in DOMAIN outbox' : Reached(outbox[n])'
<1>0. /\ outbox \in Seq(Deliveries)
      /\ \A key \in seen : SentFor(key)
      /\ \A s \in Runs : SentHere(s) => SentFor(Key(s))
      /\ \A n \in DOMAIN outbox : Reached(outbox[n]) /\ outbox[n].run \in Runs
  BY DEF Delivered, SentHere, Reached, Deliveries, NotSending, TypeOK
<1>1. CASE NoRunMoves
  <2>1. \A key : SentFor(key)' <=> SentFor(key)
    BY <1>1 DEF NoRunMoves, SentFor
  <2>2. \A s \in Runs : pc'[s] \in NotSending => pc[s] \in NotSending
    BY <1>1 DEF NoRunMoves, NotSending
  <2>3. \A n \in DOMAIN outbox : Reached(outbox[n])'
    BY <1>0, <1>1, <2>2 DEF NoRunMoves, Reached
  <2>4. outbox' = outbox /\ seen' \subseteq seen
    BY <1>1 DEF NoRunMoves
  <2>5. \A key \in seen' : SentFor(key)'
    BY <1>0, <2>1, <2>4
  <2>6. ASSUME NEW s \in Runs, SentHere(s)' PROVE SentFor(Key(s))'
    <3>1. SentHere(s) /\ Key(s)' = Key(s)
      BY <1>1, <2>6 DEF NoRunMoves, Key, SentHere, Current, Gated, Past
    <3> QED
      BY <1>0, <2>1, <3>1
  <2>7. \A n \in DOMAIN outbox' : Reached(outbox[n])'
    BY <2>3, <2>4
  <2> QED
    BY <2>5, <2>6, <2>7
<1>2. CASE \E r \in Runs : RunMoves(r)
  <2>1. PICK r \in Runs : RunMoves(r)
    BY <1>2
  <2>2. Frame(r) /\ Goes(r)
    BY <2>1, Framed, RunGoes
  <2>3. \A key : SentFor(key) => SentFor(key)'
    BY <1>0, <2>1, OutboxGrows, SendMoves
  <2>4. pc \in [Runs -> Phases] /\ step \in [Runs -> Steps] /\ step[r] \in Nat
    BY CurrentType DEF TypeOK, Phases
  <2>5. pc[r] # "new" => (Gated(r)' <=> Gated(r))
    BY <2>2 DEF Frame, Gated
  <2>6. pc[r] = "delivered" => SentFor(Key(r))
    BY <1>0 DEF SentHere
  <2>7. \A key \in seen' : SentFor(key)'
    BY <1>0, <2>1, <2>3, <2>6, SendMoves
  <2>8. ASSUME NEW s \in Runs \ {r}, SentHere(s)' PROVE SentFor(Key(s))'
    <3>1. SentHere(s) /\ Key(s)' = Key(s)
      BY <2>2, <2>8 DEF Frame, SentHere, Current, Gated, Key
    <3> QED
      BY <1>0, <2>3, <3>1
  <2>9. ASSUME SentHere(r)' PROVE SentFor(Key(r))'
    <3>1. CASE pc'[r] = "delivered"
      <4>1. outbox' = Append(outbox, Delivery(r)) /\ step' = step
        BY <2>1, <3>1, SendMoves
      <4>2. Key(r)' = Key(r)
        BY <4>1 DEF Key, Current
      <4>3. Len(outbox) + 1 \in DOMAIN outbox' /\ outbox'[Len(outbox) + 1] = Delivery(r)
        BY <1>0, <4>1, OutboxGrows
      <4>4. Delivery(r).key = Key(r)
        BY DEF Delivery
      <4> QED
        BY <4>2, <4>3, <4>4 DEF SentFor
    <3>2. CASE Current(r)'.kind = "act" /\ pc'[r] \in Past /\ ~Gated(r)'
      <4>1. /\ Current(r)' = Current(r) /\ pc[r] \in Past \cup {"handle", "delivered", "documents"}
            /\ pc[r] = "documents" => Current(r).kind = "require_human"
        BY <2>2, <3>2, PastStaysAtStep
      <4>2. Key(r)' = Key(r) /\ ~Gated(r) /\ Current(r).kind = "act"
        BY <2>5, <3>2, <4>1 DEF Key, Past
      <4>3. SentFor(Key(r))
        BY <1>0, <2>1, <3>2, <4>1, <4>2, SendMoves DEF SentHere
      <4> QED
        BY <2>3, <4>2, <4>3
    <3> QED
      BY <2>9, <3>1, <3>2 DEF SentHere
  <2>10. \/ step'[r] = step[r] /\ (pc'[r] \in NotSending => pc[r] \in NotSending)
         \/ step'[r] = step[r] + 1
    <3>1. \A phase : At(r, phase) => pc'[r] = phase /\ step'[r] = step[r]
      BY <2>4 DEF At
    <3>2. StepOver(r) => \/ step'[r] = step[r] /\ pc'[r] \in Stopped
                         \/ step'[r] = step[r] + 1
      BY <2>4 DEF StepOver
    <3>3. AfterHandler(Current(r).kind) \notin NotSending
      BY DEF AfterHandler, NotSending
    <3> QED
      BY <2>2, <3>1, <3>2, <3>3 DEF Goes, GoesQuietly, Begins, Chains, NotSending, Stopped
  <2>11. ASSUME NEW d, d.run \in Runs, Reached(d) PROVE Reached(d)'
    <3>1. PICK j \in 1 .. step[d.run] :
             /\ d.key = <<CorrelationOf[d.run], Recipe[j].id>>
             /\ j = step[d.run] => pc[d.run] \notin NotSending
      BY <2>11 DEF Reached
    <3>2. CASE d.run = r
      <4>1. j \in 1 .. step'[r] /\ (j = step'[r] => pc'[r] \notin NotSending)
        BY <2>4, <2>10, <3>1, <3>2
      <4> QED
        BY <3>1, <3>2, <4>1 DEF Reached
    <3>3. CASE d.run # r
      BY <2>2, <2>11, <3>1, <3>3 DEF Frame, Reached
    <3> QED
      BY <3>2, <3>3
  <2>12. ASSUME NEW n \in DOMAIN outbox' PROVE Reached(outbox[n])'
    <3>1. CASE n \in DOMAIN outbox
      <4>1. PICK d : d = outbox[n]
        OBVIOUS
      <4>2. d.run \in Runs /\ Reached(d)
        BY <1>0, <3>1, <4>1
      <4>3. outbox'[n] = d
        BY <1>0, <2>1, <3>1, <4>1, OutboxGrows, SendMoves
      <4>4. Reached(d)'
        BY <2>11, <4>2
      <4> QED
        BY <4>3, <4>4 DEF Reached
    <3>2. CASE n \notin DOMAIN outbox
      <4>1. outbox' = Append(outbox, Delivery(r)) /\ pc'[r] \in {"delivered", "failed"} /\ step' = step
            /\ outbox'[n] = Delivery(r)
        BY <1>0, <2>1, <2>12, <3>2, OutboxGrows, SendMoves
      <4>2. Delivery(r).key = <<CorrelationOf[r], Recipe[step[r]].id>> /\ Delivery(r).run = r
        BY DEF Delivery, Key, Current
      <4>3. step[r] \in 1 .. step'[r] /\ pc'[r] \notin NotSending
        BY <2>4, <4>1, CurrentType DEF NotSending
      <4>4. PICK d : d = Delivery(r)
        OBVIOUS
      <4>5. Reached(d)'
        BY <4>2, <4>3, <4>4 DEF Reached
      <4> QED
        BY <4>1, <4>4, <4>5 DEF Reached
    <3> QED
      BY <3>1, <3>2
  <2> QED
    BY <2>7, <2>8, <2>9, <2>12
<1> QED
  BY <1>1, <1>2, OneRunMoves
LEMMA DeliveredHolds ==
    ASSUME TypeOK, Placed, Drafted, Delivered, [Next]_vars
    PROVE  Delivered'
<1>1. outbox \in Seq(Deliveries)
  BY DEF Delivered, Deliveries
<1>2. outbox' \in Seq(Deliveries)
  BY <1>1, TypeStep
<1> QED
  BY <1>2, DeliveredStep DEF Delivered, SentHere, Reached, Deliveries, NotSending

SentAs(s, i) == \E n \in DOMAIN outbox : outbox[n].key = <<CorrelationOf[s], Recipe[i - 1].id>>

(* A run that has sent is not new, and it has not sent what it is about to *)
(* send.                                                                   *)
LEMMA NotYetSent ==
    ASSUME TypeOK, Delivered, NEW r \in Runs, NEW n \in DOMAIN outbox, outbox[n].run = r
    PROVE  /\ pc[r] = "new" => step[r] # 1
           /\ pc[r] = "delivering" => outbox[n] # Delivery(r)
<1>1. PICK j \in 1 .. step[r] : /\ outbox[n].key = <<CorrelationOf[r], Recipe[j].id>>
                                /\ j = step[r] => pc[r] \notin NotSending
  BY DEF Delivered, NotSending
<1>2. step[r] \in Nat /\ step[r] \in Steps /\ j \in Steps
  BY CurrentType, RecipeType
<1>3. pc[r] = "new" => step[r] # 1
  BY <1>1, <1>2 DEF NotSending
<1>4. outbox[n] = Delivery(r) => Recipe[j].id = Recipe[step[r]].id
  BY <1>1 DEF Delivery, Key, Current
<1>5. Recipe[j].id = Recipe[step[r]].id => j = step[r]
  BY <1>2, RecipeType
<1> QED
  BY <1>1, <1>3, <1>4, <1>5 DEF NotSending

(* The key of a delivery stays kept, or as excused as it was.              *)
LEMMA KeptStep ==
    ASSUME TypeOK, Placed, Delivered, [Next]_vars, \A n \in DOMAIN outbox : Kept(outbox[n])
    PROVE  \A n \in DOMAIN outbox' : Kept(outbox[n])'
<1>0. outbox \in Seq(Deliveries) /\ \A n \in DOMAIN outbox : outbox[n].run \in Runs
  BY DEF Delivered, Deliveries, TypeOK
<1>1. CASE NoRunMoves
  <2>1. outbox' = outbox /\ \A s \in Runs : Key(s)' = Key(s)
    BY <1>1 DEF NoRunMoves, Key, Current
  <2>2. ASSUME NEW d, d.run \in Runs, Kept(d) PROVE Kept(d)'
    BY <1>1, <2>1, <2>2 DEF NoRunMoves, Kept, Live
  <2>3. ASSUME NEW n \in DOMAIN outbox PROVE Kept(outbox[n])'
    <3>1. PICK d : d = outbox[n] /\ outbox'[n] = d
      BY <2>1
    <3>2. Kept(d)'
      BY <1>0, <2>2, <3>1
    <3> QED
      BY <3>1, <3>2 DEF Kept
  <2> QED
    BY <2>1, <2>3
<1>2. CASE \E r \in Runs : RunMoves(r)
  <2>1. PICK r \in Runs : RunMoves(r)
    BY <1>2
  <2>2. Frame(r) /\ Goes(r)
    BY <2>1, Framed, RunGoes
  <2>3. \A s \in Runs \ {r} : Key(s)' = Key(s)
    BY <2>2 DEF Frame, Key, Current
  <2>4. pc[r] # "dead" /\ (pc[r] = "failed" => pc' = pc /\ step' = step)
    BY <2>2 DEF Goes, GoesQuietly, Begins, Chains, Live
  <2>5. ASSUME NEW d, d.run \in Runs, Kept(d) PROVE Kept(d)'
    <3>1. CASE d.key \in seen
      BY <2>2, <3>1 DEF Frame, Kept
    <3>2. CASE \E s \in Runs : pc[s] = "dead"
      BY <2>2, <2>4, <3>2 DEF Frame, Kept
    <3>3. CASE Key(d.run) = d.key /\ pc[d.run] = "delivered"
      BY <2>1, <2>2, <2>3, <2>5, <3>3, SendMoves DEF Frame, Kept
    <3>4. CASE Key(d.run) = d.key /\ pc[d.run] = "failed"
      <4>1. Key(d.run)' = Key(d.run) /\ pc'[d.run] = "failed"
        BY <2>2, <2>3, <2>4, <2>5, <3>4 DEF Frame, Key, Current
      <4> QED
        BY <3>4, <4>1 DEF Kept
    <3> QED
      BY <2>5, <3>1, <3>2, <3>3, <3>4 DEF Kept
  <2>6. ASSUME NEW n \in DOMAIN outbox' PROVE Kept(outbox[n])'
    <3>1. CASE n \in DOMAIN outbox
      <4>1. PICK d : d = outbox[n] /\ outbox'[n] = d
        BY <1>0, <2>1, <3>1, OutboxGrows, SendMoves
      <4>2. Kept(d)'
        BY <1>0, <2>5, <3>1, <4>1
      <4> QED
        BY <4>1, <4>2 DEF Kept
    <3>2. CASE n \notin DOMAIN outbox
      <4>1. /\ pc'[r] \in {"delivered", "failed"} /\ step' = step
            /\ outbox'[n] = Delivery(r)
        BY <1>0, <2>1, <2>6, <3>2, OutboxGrows, SendMoves
      <4>2. Delivery(r).key = Key(r) /\ Delivery(r).run = r /\ Key(r)' = Key(r)
        BY <4>1 DEF Delivery, Key, Current
      <4> QED
        BY <4>1, <4>2 DEF Kept
    <3> QED
      BY <3>1, <3>2
  <2> QED
    BY <2>6
<1> QED
  BY <1>1, <1>2, OneRunMoves

LEMMA SendsStep ==
    ASSUME TypeOK, Placed, OneEventPerStep, Delivered, SendsAreDelivered, [Next]_vars
    PROVE  SendsAreDelivered'
<1>0. /\ outbox \in Seq(Deliveries) /\ \A n \in DOMAIN outbox : outbox[n].run \in Runs
      /\ \A s \in Runs : \A i \in DOMAIN events[s] :
            events[s][i].kind = "action_taken" /\ ~Gated(s) => SentAs(s, i)
      /\ \A m, n \in DOMAIN outbox : outbox[m] = outbox[n] => m = n
      /\ \A n \in DOMAIN outbox : ~Gated(outbox[n].run)
      /\ \A n \in DOMAIN outbox : Kept(outbox[n])
  BY DEF SendsAreDelivered, SentAs, Gated, Delivered, Deliveries, TypeOK
<1>k. \A n \in DOMAIN outbox' : Kept(outbox[n])'
  BY <1>0, KeptStep
<1> SUFFICES /\ \A s \in Runs : \A i \in DOMAIN events'[s] :
                  events'[s][i].kind = "action_taken" /\ ~Gated(s)' => SentAs(s, i)'
             /\ \A m, n \in DOMAIN outbox' : outbox'[m] = outbox'[n] => m = n
             /\ \A n \in DOMAIN outbox' : ~Gated(outbox[n].run)'
  BY <1>k DEF SendsAreDelivered, SentAs, Gated
<1>1. CASE NoRunMoves
  BY <1>0, <1>1 DEF NoRunMoves, SentAs, Gated
<1>2. CASE \E r \in Runs : RunMoves(r)
  <2>1. PICK r \in Runs : RunMoves(r)
    BY <1>2
  <2>2. Frame(r) /\ Goes(r)
    BY <2>1, Framed, RunGoes
  <2>3. /\ outbox' = outbox \/ (outbox' = Append(outbox, Delivery(r)) /\ pc[r] = "delivering")
    BY <2>1, SendMoves
  <2>4. /\ \A n \in DOMAIN outbox : n \in DOMAIN outbox' /\ outbox'[n] = outbox[n]
        /\ \A n \in DOMAIN outbox' :
              \/ n \in DOMAIN outbox
              \/ n = Len(outbox) + 1 /\ outbox'[n] = Delivery(r) /\ pc[r] = "delivering"
    BY <1>0, <2>3, OutboxGrows
  <2>5. \A s, i : SentAs(s, i) => SentAs(s, i)'
    BY <2>4 DEF SentAs
  <2>6. \A s \in Runs : pc[s] # "new" \/ s # r => (Gated(s)' <=> Gated(s))
    BY <2>2 DEF Frame, Gated
  <2>7. ASSUME NEW s \in Runs, NEW i \in DOMAIN events'[s], events'[s][i].kind = "action_taken", ~Gated(s)'
        PROVE  SentAs(s, i)'
    <3>1. CASE i \in DOMAIN events[s] /\ events'[s][i] = events[s][i]
      <4>1. pc[s] # "new"
        BY <3>1 DEF Placed
      <4> QED
        BY <1>0, <2>5, <2>6, <2>7, <3>1, <4>1
    <3>2. CASE /\ s = r /\ pc[r] = "append" /\ i = Len(events[r]) + 1
               /\ events'[s][i].kind = EventType(Current(r).kind)
      <4>1. Current(r).kind = "act" /\ ~Gated(r)
        BY <2>6, <2>7, <3>2, CurrentType, EventTypeOf
      <4>2. SentFor(Key(r))
        BY <3>2, <4>1 DEF Delivered, Past
      <4>3. i - 1 = step[r]
        <5>1. Len(events[r]) = step[r] + 0
          BY <3>2, <4>1 DEF OneEventPerStep, Recorded
        <5> QED
          BY <3>2, <5>1, CurrentType
      <4>4. SentAs(r, i)
        BY <4>2, <4>3 DEF SentFor, SentAs, Key, Current
      <4> QED
        BY <2>5, <3>2, <4>4
    <3> QED
      BY <2>2, <2>7, <3>1, <3>2, EventsMove DEF Frame
  <2>8. ASSUME NEW n \in DOMAIN outbox', n \notin DOMAIN outbox
        PROVE  /\ \A m \in DOMAIN outbox : outbox'[m] # outbox'[n]
               /\ ~Gated(outbox[n].run)'
    <3>1. outbox'[n] = Delivery(r) /\ pc[r] = "delivering"
      BY <2>4, <2>8
    <3>2. Delivery(r).run = r
      BY DEF Delivery
    <3>3. ASSUME NEW m \in DOMAIN outbox PROVE outbox[m] # Delivery(r)
      BY <3>1, <3>2, NotYetSent
    <3>4. ~Gated(r)'
      BY <2>6, <3>1 DEF Placed
    <3>5. outbox'[n].run = r
      BY <3>1, <3>2
    <3> QED
      BY <2>4, <3>1, <3>3, <3>4, <3>5 DEF Gated
  <2>9. ASSUME NEW n \in DOMAIN outbox PROVE ~Gated(outbox[n].run)'
    <3>1. PICK q \in Runs : q = outbox[n].run /\ outbox'[n].run = q /\ ~Gated(q)
      BY <1>0, <2>4
    <3>2. pc[q] # "new"
      BY <3>1, NotYetSent DEF Placed
    <3>3. ~Gated(q)'
      BY <2>6, <3>1, <3>2
    <3> QED
      BY <3>1, <3>3 DEF Gated
  <2>10. ASSUME NEW m \in DOMAIN outbox', NEW n \in DOMAIN outbox', outbox'[m] = outbox'[n]
         PROVE  m = n
    BY <1>0, <2>4, <2>8, <2>10
  <2>11. ASSUME NEW n \in DOMAIN outbox' PROVE ~Gated(outbox[n].run)'
    BY <2>8, <2>9
  <2> QED
    BY <2>7, <2>10, <2>11
<1> QED
  BY <1>1, <1>2, OneRunMoves

-----------------------------------------------------------------------------
(* A run starts with nothing.                                              *)
LEMMA InitHolds == Init => IInv /\ GenerationIsSupplied
<1> SUFFICES ASSUME Init PROVE IInv /\ GenerationIsSupplied
  OBVIOUS
<1>1. TypeOK
  BY RecipeType DEF Init, TypeOK, Live, Ended
<1>2. Placed /\ OneEventPerStep /\ Decided /\ DecisionNamesDraft
  BY DEF Init, Placed, OneEventPerStep, Decided, DecisionNamesDraft, Recorded, Current
<1>3. Drafted /\ HitsAreOk /\ RowsAreChained /\ VerdictEarned /\ ReviewForced
  BY DEF Init, Drafted, HitsAreOk, RowsAreChained, VerdictEarned, ReviewForced, Past
<1>4. Stored /\ PastGate /\ GenerationIsSupplied
  BY DEF Init, Stored, PastGate, GenerationIsSupplied, Past
<1>5. Delivered /\ SendsAreDelivered
  BY DEF Init, Delivered, SendsAreDelivered, Past
<1> QED
  BY <1>1, <1>2, <1>3, <1>4, <1>5 DEF IInv

LEMMA InvariantStep ==
    ASSUME IInv, [Next]_vars
    PROVE  IInv'
<1>1. outbox \in Seq(Deliveries)
  BY DEF IInv, Delivered, Deliveries
<1>2. TypeOK'
  BY <1>1, TypeStep DEF IInv
<1> QED
  BY <1>2, PlacedStep, ChainStep, DraftedStep, DecidedStep, DecisionStep, VerdictStep, ReviewStep,
     StoredStep, GateStep, DeliveredHolds, SendsStep DEF IInv

(* Every reachable state satisfies the invariant.                          *)
THEOREM DraftInvariant == Spec => []IInv
<1>1. Init => IInv
  BY InitHolds
<1>2. IInv /\ [Next]_vars => IInv'
  BY InvariantStep
<1> QED
  BY <1>1, <1>2, PTL DEF Spec

(* executor.ts: every variable of a run, the trace, the chain, the draft   *)
(* tables and the outbox keep their types.                                 *)
THEOREM DraftTypeCorrect == Spec => []TypeOK
<1>1. IInv => TypeOK
  BY DEF IInv
<1> QED
  BY <1>1, DraftInvariant, PTL

(* Each run, however it ended, has one custody event per executed step, in *)
(* recipe order, and a human_decision names its draft, whole.              *)
THEOREM EventsTellTheRunAlways == Spec => []EventsTellTheRun
<1>1. IInv => EventsTellTheRun
  BY DEF IInv, EventsTellTheRun
<1> QED
  BY <1>1, DraftInvariant, PTL

(* No run is approved unless each required source was consulted, by a step *)
(* of the correlation that did not fail and whose event is in the chain of *)
(* the run that took it, or due there, or what that run ended at.          *)
THEOREM VerdictEarnedAlways == Spec => []VerdictEarned
<1>1. IInv => VerdictEarned
  BY DEF IInv
<1> QED
  BY <1>1, DraftInvariant, PTL

(* What custody says was sent was delivered, no run delivers twice under   *)
(* one key, none without an independent approver, and a delivered key is   *)
(* kept but by a run still at, or failed at, that send, and until a death. *)
THEOREM SendsAreDeliveredAlways == Spec => []SendsAreDelivered
<1>1. IInv => SendsAreDelivered
  BY DEF IInv
<1> QED
  BY <1>1, DraftInvariant, PTL

(* Every artifact an event names is stored, and what forced a review still *)
(* forces it when the run ends, whatever the recipe.                       *)
THEOREM ReferencesAndReviews == Spec => [](ReferencesResolve /\ FailureForcesReview)
<1>1. Stored => ReferencesResolve
  BY DEF Stored, ReferencesResolve, VerifyDagReferences, DagInputs, VerifyArtifact
<1>2. IInv => ReferencesResolve /\ FailureForcesReview
  BY <1>1, ForcedIsFailure DEF IInv
<1> QED
  BY <1>2, DraftInvariant, PTL

(* With a recipe that checks its inputs before it generates, the three     *)
(* gates hold: generation is supplied, references resolve, a failure       *)
(* forces a review.                                                        *)
THEOREM GatesHoldAlways ==
    ASSUME GatedRecipe
    PROVE  Spec => []GatesHold
<1>1. Init => GenerationIsSupplied
  BY InitHolds
<1>2. IInv /\ GenerationIsSupplied /\ [Next]_vars => GenerationIsSupplied'
  BY GatedRecipe, SupplyStep DEF IInv
<1>3. Spec => []GenerationIsSupplied
  BY <1>1, <1>2, DraftInvariant, PTL DEF Spec
<1>4. GenerationIsSupplied /\ ReferencesResolve /\ FailureForcesReview => GatesHold
  BY DEF GatesHold
<1> QED
  BY <1>3, <1>4, ReferencesAndReviews, PTL

-----------------------------------------------------------------------------
(* How a draft is judged (RubricStatistics) and what its run consulted     *)
(* (TrajectoryRules).                                                      *)

(* A sequence has finitely many places, and finitely many values.         *)
LEMMA FiniteDomain ==
    ASSUME NEW S, NEW s \in Seq(S)
    PROVE  IsFiniteSet(DOMAIN s)
<1> DEFINE n == Len(s)
<1>1. n \in Nat /\ DOMAIN s = 1..n
  OBVIOUS
<1> HIDE DEF n
<1>2. IsFiniteSet(1..n)
  BY <1>1, FS_Interval
<1> QED
  BY <1>1, <1>2

LEMMA FiniteImage ==
    ASSUME NEW f, IsFiniteSet(DOMAIN f)
    PROVE  LET values == {f[x] : x \in DOMAIN f}
           IN IsFiniteSet(values) /\ Cardinality(values) <= Cardinality(DOMAIN f)
<1> DEFINE values == {f[x] : x \in DOMAIN f}
           g == [x \in DOMAIN f |-> f[x]]
<1>1. g \in Surjection(DOMAIN f, values)
  BY DEF Surjection
<1> HIDE DEF g
<1>2. IsFiniteSet(values) /\ Cardinality(values) <= Cardinality(DOMAIN f)
  BY <1>1, FS_Surjection
<1> QED
  BY <1>2

(* scoring.ts, scoreRubric, and rubric-stats.ts, aggregateBatch: no run is *)
(* approved without a passing verdict on each critical criterion, what is  *)
(* not approved is reviewed, what is approved is reviewed only for a major *)
(* failure, and over any number of runs a critical criterion passed at     *)
(* least as often as the gate, whatever the judge left out or repeated.    *)
THEOREM ApprovedIsJudged ==
    ASSUME NEW V, NEW C, NEW rubric \in Seq(C), NEW runs \in Seq(Seq(V)), NEW threshold, NEW trajectory \in BOOLEAN
    PROVE  ScoringHolds(rubric, runs, threshold, trajectory)
<1> DEFINE critical == {c \in ToSet(rubric) : c.gate = "critical"}
<1>1. ASSUME NEW v, NEW c \in critical, GatePassed(rubric, v)
      PROVE  \E i \in DOMAIN v : v[i].id = c.id /\ v[i].passed
  BY <1>1 DEF GatePassed, Fails, Passed
<1>2. ASSUME NEW v \in ToSet(runs)
      PROVE  /\ Approved(rubric, v, threshold, trajectory) =>
                  /\ \A c \in critical : \E i \in DOMAIN v : v[i].id = c.id /\ v[i].passed
                  /\ trajectory
             /\ ~Approved(rubric, v, threshold, trajectory) => ReviewRequired(rubric, v, threshold, trajectory)
             /\ Approved(rubric, v, threshold, trajectory) /\ ReviewRequired(rubric, v, threshold, trajectory) =>
                  \E c \in ToSet(rubric) : c.gate = "major" /\ ~Passed(v, c)
  <2>1. Approved(rubric, v, threshold, trajectory) => GatePassed(rubric, v) /\ trajectory
    BY DEF Approved
  <2>2. ~Approved(rubric, v, threshold, trajectory) => ReviewRequired(rubric, v, threshold, trajectory)
    BY DEF Approved, ReviewRequired
  <2>3. Approved(rubric, v, threshold, trajectory) /\ ReviewRequired(rubric, v, threshold, trajectory) =>
            Fails(rubric, v, "major")
    BY DEF Approved, ReviewRequired
  <2> QED
    BY <1>1, <2>1, <2>2, <2>3 DEF Fails
<1>3. ASSUME NEW c \in critical PROVE GatePasses(rubric, runs) <= PassCount(runs, c)
  <2> DEFINE good == {r \in DOMAIN runs : GatePassed(rubric, runs[r])}
             pass == Passes(runs, c)
             of(r) == {j \in DOMAIN runs[r] : runs[r][j].id = c.id /\ runs[r][j].passed}
  <2>1. IsFiniteSet(pass)
    <3>1. ASSUME NEW r \in DOMAIN runs PROVE IsFiniteSet({<<r, i>> : i \in of(r)})
      <4>1. runs[r] \in Seq(V)
        OBVIOUS
      <4>3. IsFiniteSet(DOMAIN runs[r])
        BY <4>1, FiniteDomain
      <4>4. IsFiniteSet(of(r))
        BY <4>3, FS_Subset
      <4> DEFINE pairs == [i \in of(r) |-> <<r, i>>]
      <4>5. DOMAIN pairs = of(r) /\ \A i \in of(r) : pairs[i] = <<r, i>>
        OBVIOUS
      <4>6. {<<r, i>> : i \in of(r)} = {pairs[i] : i \in DOMAIN pairs}
        BY <4>5
      <4> HIDE DEF pairs
      <4>7. IsFiniteSet({pairs[i] : i \in DOMAIN pairs})
        BY <4>4, <4>5, FiniteImage
      <4> QED
        BY <4>6, <4>7
    <3>3. IsFiniteSet(DOMAIN runs)
      BY FiniteDomain
    <3> DEFINE passes == [r \in DOMAIN runs |-> {<<r, i>> : i \in of(r)}]
    <3>4. DOMAIN passes = DOMAIN runs /\ \A r \in DOMAIN runs : passes[r] = {<<r, i>> : i \in of(r)}
      OBVIOUS
    <3>5. pass = UNION {passes[r] : r \in DOMAIN passes}
      BY <3>4 DEF Passes
    <3>6. \A r \in DOMAIN passes : IsFiniteSet(passes[r])
      BY <3>1, <3>4
    <3> HIDE DEF passes
    <3>7. IsFiniteSet({passes[r] : r \in DOMAIN passes})
      BY <3>3, <3>4, FiniteImage
    <3>8. IsFiniteSet(UNION {passes[r] : r \in DOMAIN passes})
      BY <3>6, <3>7, FS_UNION
    <3> QED
      BY <3>5, <3>8
  <2>2. good \subseteq {p[1] : p \in pass}
    <3>1. ASSUME NEW r \in good PROVE \E p \in pass : p[1] = r
      <4>1. PICK i \in DOMAIN runs[r] : runs[r][i].id = c.id /\ runs[r][i].passed
        BY <1>1
      <4>2. <<r, i>> \in pass
        BY <4>1 DEF Passes
      <4> QED
        BY <4>2
    <3> QED
      BY <3>1
  <2> HIDE DEF pass, good
  <2>3. IsFiniteSet({p[1] : p \in pass}) /\ Cardinality({p[1] : p \in pass}) <= Cardinality(pass)
    <3> DEFINE run == [p \in pass |-> p[1]]
    <3>1. DOMAIN run = pass /\ \A p \in pass : run[p] = p[1]
      OBVIOUS
    <3>2. {run[p] : p \in DOMAIN run} = {p[1] : p \in pass}
      BY <3>1
    <3> HIDE DEF run
    <3>3. LET values == {run[x] : x \in DOMAIN run}
          IN IsFiniteSet(values) /\ Cardinality(values) <= Cardinality(DOMAIN run)
      BY <2>1, <3>1, FiniteImage
    <3> QED
      BY <3>1, <3>2, <3>3
  <2>4. Cardinality(good) <= Cardinality({p[1] : p \in pass})
    BY <2>2, <2>3, FS_Subset
  <2>5. Cardinality(good) \in Nat /\ Cardinality(pass) \in Nat /\ Cardinality({p[1] : p \in pass}) \in Nat
    BY <2>1, <2>2, <2>3, FS_Subset, FS_CardinalityType
  <2>6. Cardinality(good) <= Cardinality(pass)
    BY <2>3, <2>4, <2>5
  <2> QED
    BY <2>6 DEF GatePasses, PassCount, good, pass
<1> QED
  BY <1>2, <1>3 DEF ScoringHolds

(* batch-runner.ts, llmDocumentJudge: when the ids of a rubric differ, as  *)
(* validateRubric demands, no text with a forbidden pattern of a critical  *)
(* criterion passes the gate, whatever the judge answers.  (Of two with    *)
(* one id only the last verdict would count.)                              *)
THEOREM ForbiddenIsNeverApproved ==
    ASSUME NEW rubric, NEW text, NEW answers,
           \A i, j \in DOMAIN rubric : rubric[i].id = rubric[j].id => i = j
    PROVE  JudgingHolds(rubric, text, answers)
<1> DEFINE v == JudgeDocument(rubric, text, answers)
<1> SUFFICES ASSUME GatePassed(rubric, v), NEW c \in ToSet(rubric), c.gate = "critical", c.by # "llm_judge"
             PROVE  (c.forbidden \ {"malformed"}) \cap text = {}
  BY DEF JudgingHolds
<1>1. DOMAIN v = DOMAIN rubric
      /\ \A i \in DOMAIN rubric : v[i].id = rubric[i].id /\ v[i].passed = Judged(rubric[i], text, answers[i])
  BY DEF JudgeDocument
<1>2. Passed(v, c)
  BY DEF GatePassed, Fails
<1> HIDE DEF v
<1>3. PICK i \in DOMAIN rubric : rubric[i].id = c.id /\ v[i].passed
  BY <1>1, <1>2 DEF Passed
<1>4. PICK j \in DOMAIN rubric : c = rubric[j]
  BY DEF ToSet
<1>5. Judged(c, text, answers[i])
  BY <1>1, <1>3, <1>4
<1>6. PatternsPass(c, text)
  BY <1>5 DEF Judged
<1> QED
  BY <1>6 DEF PatternsPass, Matches

(* trajectory-check.ts, checkTrajectory: a step more never makes a source  *)
(* missing that was there, nor a known run unknown, and a step that is no  *)
(* retrieval changes nothing.                                              *)
THEOREM ConsultingMoreIsNoLess ==
    ASSUME NEW S, NEW steps \in Seq(S), NEW rules
    PROVE  MoreIsNoLess(steps, rules)
<1> SUFFICES ASSUME steps # <<>> PROVE MoreIsNoLess(steps, rules)
  BY DEF MoreIsNoLess
<1> DEFINE Sought(some) == {s \in ToSet(some) : s.node \in RETRIEVAL_NODES}
           old == AssembleFromSteps(Front(steps))
           new == AssembleFromSteps(steps)
           before == CheckTrajectory(rules, old)
           after == CheckTrajectory(rules, new)
<1>1. ToSet(steps) = ToSet(Front(steps)) \cup {Last(steps)}
  <2>1. /\ Len(steps) \in Nat /\ Len(steps) > 0 /\ DOMAIN steps = 1..Len(steps)
        /\ Last(steps) = steps[Len(steps)]
        /\ Front(steps) = [i \in 1..(Len(steps) - 1) |-> steps[i]]
    BY DEF Front, Last
  <2> QED
    BY <2>1 DEF ToSet
<1>2. Sought(Front(steps)) \subseteq Sought(steps)
  BY <1>1
<1>3. Last(steps).node \notin RETRIEVAL_NODES => Sought(Front(steps)) = Sought(steps)
  BY <1>1
<1>4. ASSUME NEW some
      PROVE  AssembleFromSteps(some) =
                 [known |-> Sought(some) # {}, documents |-> UNION {ConsultedBy(s) : s \in Sought(some)}, calls |-> {}]
  BY DEF AssembleFromSteps
<1>5. /\ old.known => new.known
      /\ old.documents \subseteq new.documents
      /\ old.calls = {} /\ new.calls = {}
  BY <1>2, <1>4
<1>6. Last(steps).node \notin RETRIEVAL_NODES => old = new
  BY <1>3, <1>4
<1> HIDE DEF old, new
<1>7. ASSUME NEW r, Satisfied(r, old) PROVE Satisfied(r, new)
  BY <1>5, <1>7 DEF Satisfied
<1>8. before.unknown = ~old.known /\ after.unknown = ~new.known
  BY DEF CheckTrajectory
<1>9. ASSUME ~before.unknown PROVE Missing(after) \subseteq Missing(before)
  <2>1. ASSUME NEW actual, actual.known
        PROVE  Missing(CheckTrajectory(rules, actual)) = {q \in rules.required : ~Satisfied(q, actual)}
    <3> DEFINE A == {q \in rules.required : ~Satisfied(q, actual)}
               B == {q \in rules.forbidden : Satisfied(q, actual)}
               named == CheckTrajectory(rules, actual).findings
    <3>1. named = {[rule |-> q, violation |-> "required_missing"] : q \in A}
                  \cup {[rule |-> q, violation |-> "forbidden_present"] : q \in B}
      BY <2>1 DEF CheckTrajectory, Findings
    <3> HIDE DEF named, A, B
    <3>2. ASSUME NEW f \in named, f.violation = "required_missing" PROVE f.rule \in A
      BY <3>1, <3>2
    <3>3. ASSUME NEW q \in A PROVE \E f \in named : f.violation = "required_missing" /\ f.rule = q
      <4> DEFINE f == [rule |-> q, violation |-> "required_missing"]
      <4>1. f \in named /\ f.violation = "required_missing" /\ f.rule = q
        BY <3>1
      <4> QED
        BY <4>1
    <3>4. {f.rule : f \in {g \in named : g.violation = "required_missing"}} = A
      BY <3>2, <3>3
    <3> QED
      BY <3>4 DEF Missing, named, A
  <2>2. old.known /\ new.known
    BY <1>5, <1>8, <1>9
  <2> QED
    BY <1>7, <2>1, <2>2
<1> QED
  BY <1>5, <1>6, <1>8, <1>9 DEF MoreIsNoLess, old, new

-----------------------------------------------------------------------------
(* The words of a trajectory (TrajectoryRules).                            *)

(* A stretch of a text without a break lies in a word of it.               *)
LEMMA LiesInAWord ==
    ASSUME NEW T, NEW text \in Seq(T), NEW i \in 1..Len(text), NEW j \in i..Len(text),
           \A k \in i..j : text[k] # Break
    PROVE  \E a \in 1..i, b \in j..Len(text) : IsWord(text, a, b)
<1> DEFINE n == Len(text)
           Back == {d \in 0..(i - 1) : i - d = 1 \/ text[i - d - 1] = Break}
           On == {d \in 0..(n - j) : j + d = n \/ text[j + d + 1] = Break}
<1>0. n \in Nat /\ i \in Nat /\ j \in Nat /\ 1 <= i /\ i <= j /\ j <= n
  OBVIOUS
<1>1. Back \in SUBSET Nat /\ i - 1 \in Back
  BY <1>0
<1>2. PICK back \in Back : \A d \in Back : back <= d
  BY <1>1, FirstOf
<1>3. On \in SUBSET Nat /\ n - j \in On
  BY <1>0
<1>4. PICK on \in On : \A d \in On : on <= d
  BY <1>3, FirstOf
<1> DEFINE a == i - back
           b == j + on
<1>5. a \in 1..i /\ (a = 1 \/ text[a - 1] = Break)
  BY <1>0, <1>2
<1>6. b \in j..n /\ (b = n \/ text[b + 1] = Break)
  BY <1>0, <1>4
<1>7. ASSUME NEW k \in a..b PROVE text[k] # Break
  <2>0. k \in Int /\ a <= k /\ k <= b
    BY <1>0, <1>5, <1>6
  <2>1. CASE k \in i..j
    BY <2>1
  <2>2. CASE k < i
    <3> DEFINE d == i - k - 1
    <3>1. d \in 0..(i - 1) /\ d < back /\ i - d - 1 = k
      BY <1>0, <1>2, <1>5, <2>0, <2>2
    <3>2. d \notin Back
      <4> SUFFICES ASSUME d \in Back PROVE FALSE
        OBVIOUS
      <4>1. back <= d
        BY <1>2
      <4>2. back \in Nat /\ d \in Nat
        BY <1>1, <1>2
      <4> QED
        BY <3>1, <4>1, <4>2
    <3> QED
      BY <3>1, <3>2
  <2>3. CASE j < k
    <3> DEFINE d == k - j - 1
    <3>1. d \in 0..(n - j) /\ d < on /\ j + d + 1 = k
      BY <1>0, <1>4, <1>6, <2>0, <2>3
    <3>2. d \notin On
      <4> SUFFICES ASSUME d \in On PROVE FALSE
        OBVIOUS
      <4>1. on <= d
        BY <1>4
      <4>2. on \in Nat /\ d \in Nat
        BY <1>3, <1>4
      <4> QED
        BY <3>1, <4>1, <4>2
    <3> QED
      BY <3>1, <3>2
  <2> QED
    BY <1>0, <2>0, <2>1, <2>2, <2>3
<1>8. IsWord(text, a, b)
  BY <1>0, <1>5, <1>6, <1>7 DEF IsWord, OnBoundaries
<1> QED
  BY <1>5, <1>6, <1>8

(* A word of a text is a stretch of it.                                    *)
LEMMA InWordsIn ==
    ASSUME NEW text, NEW w
    PROVE  w \in WordsIn(text) <=> \E i, j \in DOMAIN text : IsWord(text, i, j) /\ w = SubSeq(text, i, j)
<1>1. \A i : w \in WordsFrom(text, i) <=> \E j \in DOMAIN text : IsWord(text, i, j) /\ w = SubSeq(text, i, j)
  BY Zenon DEF WordsFrom
<1>2. w \in WordsIn(text) <=> \E i \in DOMAIN text : w \in WordsFrom(text, i)
  BY Zenon DEF WordsIn
<1> QED
  BY <1>1, <1>2, Zenon

(* A word has a letter and no break.                                       *)
LEMMA WordsAreWhole ==
    ASSUME NEW T, NEW text \in Seq(T), NEW w \in WordsIn(text)
    PROVE  w \in Seq(T) /\ Len(w) > 0 /\ \A k \in 1..Len(w) : w[k] # Break
<1>1. PICK i \in DOMAIN text, j \in DOMAIN text : IsWord(text, i, j) /\ w = SubSeq(text, i, j)
  BY InWordsIn
<1>2. i \in 1..Len(text) /\ j \in 1..Len(text) /\ i <= j /\ \A k \in i..j : text[k] # Break
  BY <1>1 DEF IsWord, OnBoundaries
<1>3. \A k \in i..j : text[k] \in T
  BY <1>2
<1>4. /\ w \in Seq(T) /\ Len(w) = j - i + 1
      /\ \A k \in 1..(j - i + 1) : w[k] = text[i + k - 1]
  BY <1>1, <1>2, <1>3, SubSeqProperties
<1>5. ASSUME NEW k \in 1..Len(w) PROVE w[k] # Break
  <2>1. i + k - 1 \in i..j
    BY <1>2, <1>4
  <2> QED
    BY <1>2, <1>4, <2>1
<1> QED
  BY <1>2, <1>4, <1>5

LEMMA OccursInside ==
    ASSUME NEW T, NEW text \in Seq(T), NEW a \in 1..Len(text), NEW b \in a..Len(text), NEW w \in Seq(T),
           NEW m \in 1..(b - a + 1), Len(w) > 0, m + Len(w) - 1 <= b - a + 1
    PROVE  /\ OccursAt(w, SubSeq(text, a, b), m) <=> OccursAt(w, text, a + m - 1)
           /\ DOMAIN SubSeq(text, a, b) = 1..(b - a + 1)
<1> DEFINE n == Len(w)
           L == Len(text)
           v == SubSeq(text, a, b)
           e == m + n - 1
<1>1. n \in Nat /\ n > 0 /\ L \in Nat /\ \A k \in 1..L : text[k] \in T
  OBVIOUS
<1>2. a \in 1..L /\ b \in a..L
  OBVIOUS
<1>3. e <= b - a + 1 /\ e = m + n - 1
  OBVIOUS
<1> HIDE DEF n, L, e
<1>4. a \in Int /\ b \in Int /\ a <= b /\ m \in Int /\ 1 <= m /\ m <= b - a + 1 /\ e \in Int /\ b <= L
      /\ b \in 1..L
  BY <1>1, <1>2, <1>3
<1>5. v \in Seq(T) /\ Len(v) = b - a + 1
  <2>1. \A k \in a..b : text[k] \in T
    BY <1>1, <1>2, <1>4
  <2> QED
    BY <1>4, <2>1, SubSeqProperties
<1>6. DOMAIN v = 1..(b - a + 1)
  BY <1>5
<1>7. m \in 1..(b - a + 1) /\ e \in 1..(b - a + 1)
  BY <1>1, <1>3, <1>4
<1>8. SubSeq(v, m, e) = SubSeq(text, a + m - 1, a + e - 1)
  <2>1. a \in 1..Len(text) /\ b \in 1..Len(text)
    BY <1>2, <1>4 DEF L
  <2> QED
    BY <1>7, <2>1, SubSeqOfSubSeq
<1>9. (a + m - 1) + n - 1 = a + e - 1 /\ a + e - 1 <= L
  BY <1>1, <1>3, <1>4
<1> HIDE DEF v
<1>10. OccursAt(w, v, m) <=> SubSeq(v, m, e) = w
  BY <1>3, <1>5 DEF OccursAt, n, e
<1>11. OccursAt(w, text, a + m - 1) <=> SubSeq(text, a + m - 1, a + e - 1) = w
  BY <1>9 DEF OccursAt, n, L
<1> QED
  BY <1>6, <1>8, <1>10, <1>11 DEF v

(* A word is found in a text exactly when it is found in a word of it.     *)
LEMMA WordsAreFoundInWords ==
    ASSUME NEW T, NEW text \in Seq(T), NEW w \in Seq(T), Len(w) > 0, \A k \in 1..Len(w) : w[k] # Break
    PROVE  Includes(text, w) <=> \E v \in WordsIn(text) : Includes(v, w)
<1> DEFINE n == Len(w)
           L == Len(text)
<1>0. n \in Nat /\ n > 0 /\ L \in Nat /\ DOMAIN text = 1..L /\ \A k \in 1..L : text[k] \in T
  OBVIOUS
<1>1. ASSUME Includes(text, w) PROVE \E v \in WordsIn(text) : Includes(v, w)
  <2>1. PICK i \in 1..L : OccursAt(w, text, i)
    BY <1>0, <1>1, Zenon DEF Includes
  <2> DEFINE j == i + n - 1
  <2>2. j <= L /\ SubSeq(text, i, j) = w
    BY <2>1 DEF OccursAt
  <2>3. i \in Int /\ 1 <= i /\ i <= j /\ j \in i..L /\ j - i + 1 = n
    BY <1>0, <2>2
  <2> HIDE DEF j
  <2>4. ASSUME NEW k \in i..j PROVE text[k] # Break
    <3>1. \A q \in i..j : text[q] \in T
      BY <1>0, <2>3
    <3>2. \A q \in 1..(j - i + 1) : w[q] = text[i + q - 1]
      BY <2>2, <2>3, <3>1, SubSeqProperties
    <3>3. k - i + 1 \in 1..n /\ i + (k - i + 1) - 1 = k
      BY <1>0, <2>3
    <3>4. w[k - i + 1] = text[k]
      BY <2>3, <3>2, <3>3
    <3> QED
      BY <3>3, <3>4
  <2>5. PICK a \in 1..i, b \in j..L : IsWord(text, a, b)
    BY <2>3, <2>4, LiesInAWord
  <2> DEFINE v == SubSeq(text, a, b)
             m == i - a + 1
  <2> HIDE DEF n, L
  <2>6. a \in 1..L /\ b \in 1..L /\ b \in a..L /\ m \in 1..(b - a + 1) /\ m + n - 1 <= b - a + 1 /\ a + m - 1 = i
    BY <1>0, <2>3, <2>5
  <2>7. v \in WordsIn(text)
    BY <1>0, <2>5, <2>6, InWordsIn
  <2> HIDE DEF m
  <2>8. OccursAt(w, v, m) /\ m \in DOMAIN v
    BY <2>1, <2>6, OccursInside DEF n, L
  <2> QED
    BY <2>7, <2>8, Zenon DEF Includes
<1>2. ASSUME NEW v \in WordsIn(text), Includes(v, w) PROVE Includes(text, w)
  <2>1. PICK a \in DOMAIN text, b \in DOMAIN text : IsWord(text, a, b) /\ v = SubSeq(text, a, b)
    BY InWordsIn, Zenon
  <2>2. a \in 1..L /\ b \in 1..L /\ b \in a..L
    BY <1>0, <2>1 DEF IsWord, OnBoundaries
  <2>3. Len(v) = b - a + 1 /\ DOMAIN v = 1..(b - a + 1)
    <3>1. a \in Int /\ b \in Int /\ a <= b /\ \A k \in a..b : text[k] \in T
      BY <1>0, <2>2
    <3>2. v \in Seq(T) /\ Len(v) = b - a + 1
      BY <2>1, <3>1, SubSeqProperties
    <3> QED
      BY <3>2
  <2>4. PICK m \in 1..(b - a + 1) : OccursAt(w, v, m)
    BY <1>2, <2>3, Zenon DEF Includes
  <2>5. m + n - 1 <= b - a + 1
    BY <2>3, <2>4 DEF OccursAt
  <2>6. OccursAt(w, text, a + m - 1)
    BY <2>1, <2>2, <2>4, <2>5, OccursInside
  <2> HIDE DEF n, L
  <2>7. a + m - 1 \in 1..L
    BY <1>0, <2>2, <2>4
  <2> QED
    BY <1>0, <2>6, <2>7, Zenon DEF Includes
<1> QED
  BY <1>1, <1>2

-----------------------------------------------------------------------------
TracedStep(P) == [node : STRING, chunks : SUBSET Seq(P), recalled : Seq(P) \cup {None},
                  source : Seq(P) \cup {None}, sections : Nat]
RuleOn(r, P) == r.kind = "document" => r.of \in Seq(P)

(* What is asked for of a document are whole words.                        *)
LEMMA TokensAreWhole ==
    ASSUME NEW T, NEW text \in Seq(T), NEW w \in Tokens(text)
    PROVE  w \in Seq(T) /\ Len(w) > 0 /\ \A k \in 1..Len(w) : w[k] # Break
BY WordsAreWhole DEF Tokens

(* Each word of a type lies in a word of a path exactly when the path      *)
(* includes it, as trajectory-check.ts looks for it.                       *)
LEMMA SpelledIs ==
    ASSUME NEW T, NEW document \in Seq(T), NEW type \in Seq(T)
    PROVE  Spelled(document, type) <=> \A w \in Tokens(type) : Includes(document, w)
<1>1. ASSUME NEW w \in Tokens(type)
      PROVE  Includes(document, w) <=> \E v \in WordsIn(document) : Includes(v, w)
  BY TokensAreWhole, WordsAreFoundInWords
<1> QED
  BY <1>1, Zenon DEF Spelled

LEMMA ConsultedIs ==
    ASSUME NEW s, NEW d
    PROVE  d \in ConsultedBy(s) <=>
               \/ d \in s.chunks
               \/ s.recalled # None /\ d = s.recalled
               \/ s.source # None /\ s.sections > 0 /\ d = s.source
BY DEF ConsultedBy

(* What the steps brought is what the assembled documents show.            *)
LEMMA BroughtIs ==
    ASSUME NEW P, NEW some \in SUBSET TracedStep(P), NEW type \in Seq(P)
    PROVE  Brought(some, type) <=>
             \E d \in UNION {ConsultedBy(s) : s \in some} : \A w \in Tokens(type) : Includes(d, w)
<1> DEFINE In(d) == \A w \in Tokens(type) : Includes(d, w)
<1>1. ASSUME NEW d \in Seq(P) PROVE Spelled(d, type) <=> In(d)
  BY SpelledIs
<1> HIDE DEF In
<1>2. ASSUME NEW s \in some
      PROVE  /\ \A d \in s.chunks : d \in Seq(P)
             /\ s.recalled # None => s.recalled \in Seq(P)
             /\ s.source # None => s.source \in Seq(P)
  BY DEF TracedStep
<1>3. ASSUME NEW s \in some
      PROVE  (\E d \in ConsultedBy(s) : In(d)) <=>
                \/ \E d \in s.chunks : Spelled(d, type)
                \/ s.recalled # None /\ Spelled(s.recalled, type)
                \/ s.source # None /\ s.sections > 0 /\ Spelled(s.source, type)
  <2>1. (\E d \in ConsultedBy(s) : In(d)) <=>
           \/ \E d \in s.chunks : In(d)
           \/ s.recalled # None /\ In(s.recalled)
           \/ s.source # None /\ s.sections > 0 /\ In(s.source)
    BY ConsultedIs, Zenon
  <2>2. \A d \in s.chunks : Spelled(d, type) <=> In(d)
    BY <1>1, <1>2
  <2>3. s.recalled # None => (Spelled(s.recalled, type) <=> In(s.recalled))
    BY <1>1, <1>2
  <2>4. s.source # None => (Spelled(s.source, type) <=> In(s.source))
    BY <1>1, <1>2
  <2> QED
    BY <2>1, <2>2, <2>3, <2>4, Zenon
<1>4. (\E d \in UNION {ConsultedBy(s) : s \in some} : In(d)) <=> \E s \in some : \E d \in ConsultedBy(s) : In(d)
  BY Zenon
<1> QED
  BY <1>3, <1>4, Zenon DEF Brought, In

(* What a run that passes the check satisfies.                             *)
LEMMA CheckedIs ==
    ASSUME NEW rules, NEW actual, actual.known \in BOOLEAN
    PROVE  LET result == CheckTrajectory(rules, actual)
           IN /\ result.unknown = ~actual.known
              /\ result.passed => actual.known
              /\ result.passed => (\A r \in rules.required : Satisfied(r, actual))
              /\ result.passed => (\A r \in rules.forbidden : ~Satisfied(r, actual))
<1> DEFINE result == CheckTrajectory(rules, actual)
<1>1. result.unknown = ~actual.known /\ (result.passed <=> actual.known /\ Findings(rules, actual) = {})
  BY DEF CheckTrajectory
<1>2. ASSUME actual.known, Findings(rules, actual) = {}
      PROVE  /\ \A r \in rules.required : Satisfied(r, actual)
             /\ \A r \in rules.forbidden : ~Satisfied(r, actual)
  <2>1. ASSUME NEW r \in rules.required, ~Satisfied(r, actual) PROVE FALSE
    <3>1. [rule |-> r, violation |-> "required_missing"] \in Findings(rules, actual)
      BY <1>2, <2>1 DEF Findings
    <3> QED
      BY <1>2, <3>1
  <2>2. ASSUME NEW r \in rules.forbidden, Satisfied(r, actual) PROVE FALSE
    <3>1. [rule |-> r, violation |-> "forbidden_present"] \in Findings(rules, actual)
      BY <1>2, <2>2 DEF Findings
    <3> QED
      BY <1>2, <3>1
  <2> QED
    BY <2>1, <2>2
<1> QED
  BY <1>1, <1>2

(* trajectory-assemble.ts and trajectory-check.ts, of any trace and any    *)
(* rules: a run that passes has, for each document it had to consult, a    *)
(* step that retrieved one document with every word of that type in it,    *)
(* and none of a type it had to leave alone; without a retrieval step the  *)
(* result is unknown, and a rule that is both required and forbidden is    *)
(* never met.                                                              *)
THEOREM PassingIsProven ==
    ASSUME NEW P, NEW steps \in Seq(TracedStep(P)), NEW rules,
           \A r \in rules.required \cup rules.forbidden : RuleOn(r, P)
    PROVE  PassedIsProven(steps, rules)
<1> DEFINE retrieval == {s \in ToSet(steps) : s.node \in RETRIEVAL_NODES}
           actual == AssembleFromSteps(steps)
           result == CheckTrajectory(rules, actual)
<1>1. /\ actual.known = (retrieval # {})
      /\ actual.documents = UNION {ConsultedBy(s) : s \in retrieval}
      /\ actual.calls = {}
  BY DEF AssembleFromSteps
<1>2. retrieval \in SUBSET TracedStep(P)
  BY DEF ToSet
<1> HIDE DEF retrieval, actual
<1>3. actual.known \in BOOLEAN
  BY <1>1
<1>4. ASSUME NEW r, r.kind = "document", RuleOn(r, P)
      PROVE  Satisfied(r, actual) <=> Tokens(r.of) # {} /\ Brought(retrieval, r.of)
  <2>1. r.of \in Seq(P)
    BY <1>4 DEF RuleOn
  <2>2. Brought(retrieval, r.of) <=> \E d \in actual.documents : \A w \in Tokens(r.of) : Includes(d, w)
    BY <1>1, <1>2, <2>1, BroughtIs
  <2> QED
    BY <1>4, <2>2, Zenon DEF Satisfied
<1>5. ASSUME NEW r, Satisfied(r, actual) PROVE r.kind = "document"
  BY <1>1, <1>5 DEF Satisfied
<1>6. /\ result.unknown = ~actual.known
      /\ result.passed => actual.known
      /\ result.passed => (\A r \in rules.required : Satisfied(r, actual))
      /\ result.passed => (\A r \in rules.forbidden : ~Satisfied(r, actual))
  BY <1>3, CheckedIs
<1> HIDE DEF result
<1>7. ASSUME result.passed
      PROVE  /\ retrieval # {}
             /\ \A r \in rules.required : r.kind = "document" /\ Tokens(r.of) # {} /\ Brought(retrieval, r.of)
             /\ \A r \in DocumentRules(rules.forbidden) : Tokens(r.of) # {} => ~Brought(retrieval, r.of)
  <2>1. retrieval # {}
    BY <1>1, <1>6, <1>7
  <2>2. ASSUME NEW r \in rules.required
        PROVE  r.kind = "document" /\ Tokens(r.of) # {} /\ Brought(retrieval, r.of)
    BY <1>4, <1>5, <1>6, <1>7
  <2>3. ASSUME NEW r \in DocumentRules(rules.forbidden), Tokens(r.of) # {}
        PROVE  ~Brought(retrieval, r.of)
    <3>1. r \in rules.forbidden /\ r.kind = "document"
      BY DEF DocumentRules
    <3> QED
      BY <1>4, <1>6, <1>7, <2>3, <3>1
  <2> QED
    BY <2>1, <2>2, <2>3
<1>8. rules.required \cap rules.forbidden # {} => ~result.passed
  BY <1>6
<1>9. result.unknown <=> retrieval = {}
  BY <1>1, <1>6
<1> QED
  BY <1>7, <1>8, <1>9, Zenon DEF PassedIsProven, result, actual, retrieval

(* A text has finitely many words.                                         *)
LEMMA FiniteTokens ==
    ASSUME NEW T, NEW text \in Seq(T)
    PROVE  IsFiniteSet(Tokens(text))
<1> DEFINE D == DOMAIN text
<1>1. IsFiniteSet(D)
  BY FiniteDomain
<1> HIDE DEF D
<1>2. ASSUME NEW i \in D PROVE IsFiniteSet(WordsFrom(text, i))
  <2> DEFINE E == {k \in D : IsWord(text, i, k)}
             f == [j \in E |-> SubSeq(text, i, j)]
  <2>1. IsFiniteSet(E)
    BY <1>1, FS_Subset
  <2>2. WordsFrom(text, i) = {f[j] : j \in E} /\ DOMAIN f = E
    BY DEF WordsFrom, D
  <2> HIDE DEF E, f
  <2> QED
    BY <2>1, <2>2, FiniteImage
<1>3. IsFiniteSet({WordsFrom(text, i) : i \in D})
  <2> DEFINE f == [i \in D |-> WordsFrom(text, i)]
  <2>1. {WordsFrom(text, i) : i \in D} = {f[i] : i \in D} /\ DOMAIN f = D
    OBVIOUS
  <2> HIDE DEF f
  <2> QED
    BY <1>1, <2>1, FiniteImage
<1>4. IsFiniteSet(UNION {WordsFrom(text, i) : i \in D})
  BY <1>2, <1>3, FS_UNION
<1>5. WordsIn(text) = UNION {WordsFrom(text, i) : i \in D}
  BY DEF WordsIn, D
<1> QED
  BY <1>4, <1>5, FS_Subset DEF Tokens

(* trajectory-check.ts, overlaps: an agent asked in the words of the rule, *)
(* or in more, was asked; one asked in none of them, or another agent, was *)
(* not.                                                                    *)
THEOREM AskedIsJudged ==
    ASSUME NEW P, NEW query \in Seq(P), NEW asks \in Seq(P)
    PROVE  AskedHolds(query, asks)
<1> DEFINE want == Tokens(asks)
           both == want \cap Tokens(query)
           actual == [known |-> TRUE, documents |-> {}, calls |-> {[agent |-> "web", query |-> query]}]
           rule(of) == [kind |-> "agent", of |-> of, asks |-> asks]
<1>1. IsFiniteSet(want) /\ IsFiniteSet(both)
  BY FiniteTokens, FS_Subset
<1>2. /\ Cardinality(want) \in Nat /\ Cardinality(both) \in Nat
      /\ Cardinality(want) = 0 <=> want = {}
      /\ Cardinality(both) = 0 <=> both = {}
  BY <1>1, FS_CardinalityType, FS_EmptySet
<1>3. Overlaps(query, asks) <=> 5 * Cardinality(both) >= 3 * Cardinality(want)
  BY DEF Overlaps
<1>4. Tokens(asks) \subseteq Tokens(query) => both = want
  OBVIOUS
<1>5. Tokens(asks) \subseteq Tokens(query) => Overlaps(query, asks)
  <2> HIDE DEF both, want
  <2>1. both = want => Overlaps(query, asks)
    BY <1>2, <1>3
  <2> QED
    BY <1>4, <2>1
<1>6. Tokens(asks) # {} /\ Tokens(asks) \cap Tokens(query) = {} => ~Overlaps(query, asks)
  <2>1. want # {} /\ both = {} => ~Overlaps(query, asks)
    <3> HIDE DEF both, want
    <3> QED
      BY <1>2, <1>3
  <2> QED
    BY <2>1
<1>7. ASSUME NEW of PROVE Satisfied(rule(of), actual) <=> of = "web" /\ Overlaps(query, asks)
  <2>1. /\ rule(of).kind # "document" /\ rule(of).of = of /\ rule(of).asks = asks
        /\ actual.calls = {[agent |-> "web", query |-> query]}
    OBVIOUS
  <2> HIDE DEF rule, actual
  <2>2. Satisfied(rule(of), actual) <=> \E c \in actual.calls : c.agent = of /\ Overlaps(c.query, asks)
    BY <2>1 DEF Satisfied
  <2> DEFINE call == [agent |-> "web", query |-> query]
  <2>3. call.agent = "web" /\ call.query = query
    OBVIOUS
  <2>4. actual.calls = {call}
    BY <2>1
  <2> HIDE DEF call
  <2>5. (\E c \in actual.calls : c.agent = of /\ Overlaps(c.query, asks))
           <=> call.agent = of /\ Overlaps(call.query, asks)
    BY <2>4, Zenon
  <2> QED
    BY <2>2, <2>3, <2>5
<1>8. Satisfied(rule("web"), actual) <=> Overlaps(query, asks)
  BY <1>7
<1>9. ~Satisfied(rule("other"), actual)
  <2>1. Satisfied(rule("other"), actual) <=> "other" = "web" /\ Overlaps(query, asks)
    BY <1>7
  <2>2. "other" # "web"
    OBVIOUS
  <2> HIDE DEF rule, actual
  <2> QED
    BY <2>1, <2>2
<1> QED
  BY <1>5, <1>6, <1>8, <1>9, Zenon DEF AskedHolds
=============================================================================
