---------------------------- MODULE DocumentPlan ----------------------------
(***************************************************************************)
(* Prerequisites between document types (drafting/dependency.ts): the      *)
(* graph read from the rubrics and its checks, the plan for a target, and  *)
(* the refusal to generate before the prerequisites are approved           *)
(* (drafting/prereq-store.ts).                                             *)
(*                                                                         *)
(* A rubric is [requires, exports]: requires is a sequence of edges        *)
(* [type, domain, consume].  rubrics maps each local type to its rubric.   *)
(***************************************************************************)
EXTENDS Naturals, Sequences, SequencesExt, FiniteSets

CONSTANT Here     \* the agent's domain

Types(rubrics) == DOMAIN rubrics
Edges(rubrics, t) == {rubrics[t].requires[i] : i \in DOMAIN rubrics[t].requires}
LocalEdges(rubrics, t) == {e \in Edges(rubrics, t) : e.domain = Here}

UnknownPrerequisite(rubrics) ==
    \E t \in Types(rubrics) : \E e \in LocalEdges(rubrics, t) : e.type \notin Types(rubrics)
UnknownExport(rubrics) ==
    \E t \in Types(rubrics) : \E e \in LocalEdges(rubrics, t) :
        ~(e.consume \subseteq rubrics[e.type].exports)

(* The depth-first search with colours; the types in black are finished.   *)
(* It throws when it reaches a grey type: the result is Cycle.             *)
Cycle == {"cycle"}
RECURSIVE Visit(_, _, _, _)
Visit(rubrics, t, grey, black) ==
    IF black = Cycle \/ t \in grey THEN Cycle
    ELSE IF t \in black THEN black
    ELSE LET next(b, e) == IF e.domain # Here THEN b ELSE Visit(rubrics, e.type, grey \cup {t}, b)
             after == FoldLeft(next, black, rubrics[t].requires)
         IN IF after = Cycle THEN Cycle ELSE after \cup {t}

VisitAll(rubrics) ==
    FoldLeft(LAMBDA b, t : IF b = Cycle THEN b ELSE Visit(rubrics, t, {}, b),
             {}, SetToSeq(Types(rubrics)))

Builds(rubrics) ==
    /\ ~UnknownPrerequisite(rubrics) /\ ~UnknownExport(rubrics)
    /\ VisitAll(rubrics) # Cycle

-----------------------------------------------------------------------------
Step(type, domain, status) == [type |-> type, domain |-> domain, status |-> status]
Emit(plan, step) == [steps |-> Append(plan.steps, step), emitted |-> plan.emitted \cup {step.type}]

(* walk: the prerequisites of a type first, then the type; each type once. *)
(* (A type without a rubric is only ever met on an edge to another domain.)*)
EmitFirst(t, plan, step) == [steps |-> <<step>> \o plan.steps, emitted |-> plan.emitted \cup {t}]     \* mutant
EmitLast(t, plan, step) == Emit(plan, step)
RECURSIVE Walk(_, _, _, _)
Walk(rubrics, approved, t, plan) ==
    IF t \in plan.emitted THEN plan
    ELSE LET edge(p, e) ==
                 IF e.domain = Here THEN Walk(rubrics, approved, e.type, p)
                 ELSE IF e.type \in p.emitted THEN p
                 ELSE Emit(p, Step(e.type, e.domain, "external"))
         IN EmitLast(t, FoldLeft(edge, plan, rubrics[t].requires),
                     Step(t, Here, IF t \in approved THEN "satisfied" ELSE "must_generate"))

PlanFor(rubrics, approved, target) ==
    Walk(rubrics, approved, target, [steps |-> <<>>, emitted |-> {}]).steps

Blocked(steps) == \E i \in DOMAIN steps : steps[i].status = "external"

(* assertPrerequisitesSatisfied does not throw.                            *)
MayGenerate(steps, target) ==
    /\ ~Blocked(steps)
    /\ \A i \in DOMAIN steps : steps[i].status = "must_generate" => steps[i].type = target

-----------------------------------------------------------------------------
(* What is meant, without the searches.                                    *)
Grow(rubrics, S) == S \cup UNION {{e.type : e \in LocalEdges(rubrics, t)} : t \in S}
Reaches(rubrics, S) ==
    FoldLeft(LAMBDA R, i : Grow(rubrics, R), S, [i \in 1..Cardinality(Types(rubrics)) |-> i])
Needed(rubrics, t) == Reaches(rubrics, {t})
Above(rubrics, t) == Reaches(rubrics, {e.type : e \in LocalEdges(rubrics, t)})

(* The graph is refused exactly when a type needs itself.  Generation is   *)
(* let through only when all a target needs here is approved.  Unless a    *)
(* type of another domain bears the name of one of this (the walk keeps    *)
(* names without domains), a plan names the types the target needs, each   *)
(* once and after those it needs itself, the target last, and is blocked   *)
(* exactly when something of another domain is needed.                     *)
Foreign(rubrics, t) ==
    {e \in UNION {Edges(rubrics, u) : u \in Needed(rubrics, t)} : e.domain # Here}
Ordered(rubrics, steps, target) ==
    LET local == SelectSeq(steps, LAMBDA s : s.domain = Here)
        position(t) == CHOOSE i \in DOMAIN local : local[i].type = t
    IN /\ {local[i].type : i \in DOMAIN local} = Needed(rubrics, target)
       /\ Len(local) = Cardinality(Needed(rubrics, target))
       /\ Last(steps).type = target
       /\ \A t \in Needed(rubrics, target) : \A u \in Above(rubrics, t) :
               position(u) < position(t)

PlanHolds(rubrics, approved, target) ==
    ~UnknownPrerequisite(rubrics) /\ ~UnknownExport(rubrics) =>
        /\ (VisitAll(rubrics) = Cycle) <=> \E t \in Types(rubrics) : t \in Above(rubrics, t)
        /\ Builds(rubrics) =>
             LET steps == PlanFor(rubrics, approved, target)
                 foreign == Foreign(rubrics, target)
             IN /\ MayGenerate(steps, target) => Above(rubrics, target) \subseteq approved
                /\ {e.type : e \in foreign} \cap Types(rubrics) = {} =>
                     /\ Ordered(rubrics, steps, target)
                     /\ Blocked(steps) <=> foreign # {}
=============================================================================
